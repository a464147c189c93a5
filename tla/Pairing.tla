------------------------------ MODULE Pairing ------------------------------
(***************************************************************************)
(* How the frame gets, keeps and loses its credential: New, pairStep,      *)
(* unpair and Next's unpaired replies of backend/internal/frame, the       *)
(* credential file of internal/auth and the login flow of                  *)
(* internal/nextcloud/loginflow.go.                                        *)
(*                                                                         *)
(* The server is external.  It forgets a poll token 20 minutes after it    *)
(* issued it; the frame calls the token expired after 18.  A token is      *)
(* "fresh", then "stale" (expired to the frame only), then "dead".  The    *)
(* app password a flow yields is named by its token.                       *)
(***************************************************************************)
EXTENDS Integers, FiniteSets

CONSTANTS
  Token,      \* poll tokens; a token nothing refers to is issued again
  Reported,   \* URLs the server may give as its own, compared with the configured one
  Events,     \* what the environment may do
  MaxEvents,  \* bound on how often it does
  None        \* no flow, client, credential file or session

Credential == [token : Token, server : Reported]

ASSUME PairingAssumption ==
  /\ Reported \subseteq {"same", "other"}
  /\ Events \subseteq {"time", "offline", "lost", "disk", "revoke", "restart"}
  /\ MaxEvents \in Nat
  /\ None \notin Token /\ None \notin Credential
  /\ \A text \in {"", "unreachable", "unsaved", "hint", "admin", "photos"} : text \notin Token

VARIABLES
  \* the server
  grant,     \* of each token: "open", "approved" by the owner, or "spent" by a poll
  age,       \* of each token: "fresh", "stale" or "dead"
  valid,     \* tokens whose app password the server accepts
  online,    \* the frame reaches the server
  events,    \* environment events so far
  \* the frame
  stored,    \* auth.json
  client,    \* creds and client
  flow,      \* the login flow in progress
  notice,    \* the message shown when there is nothing else
  pc,        \* where the worker is
  session,   \* what pairStep holds between Poll and auth.Save
  overdue,   \* pairStep has run since flow became stale, and kept it (a history
             \* variable: it only limits when Die may happen)
  screen     \* what the frontend last got: a token's QR code, a notice, or photos

remote == <<grant, age, valid, online>>
local == <<stored, client, flow, notice, session, overdue>>
vars == <<remote, events, local, pc, screen>>

Notices == {"", "unreachable", "unsaved", "hint", "admin"}

Init ==
  /\ grant = [t \in Token |-> "spent"] /\ age = [t \in Token |-> "dead"]
  /\ valid = {} /\ online = TRUE /\ events = 0
  /\ stored = None /\ client = None /\ flow = None /\ notice = ""
  /\ pc = "head" /\ session = None /\ overdue = FALSE
  /\ screen = ""

Happens(e) == e \in Events /\ events < MaxEvents /\ events' = events + 1
Quiet == events' = events

Paired == client # None

\* An unredeemed token runs out of time only MaxEvents times, so that some code
\* stays up for as long as the owner needs.
TimePasses(t) == IF grant[t] = "spent" THEN Quiet ELSE Happens("time")

\* Flow.Expired.
Expired(t) == age[t] # "fresh"

\* A token the server may issue: nobody holds it any more.
Unreferenced(t) ==
  /\ t \notin {flow, screen}
  /\ \A c \in {stored, client, session} \ {None} : c.token # t

-----------------------------------------------------------------------------
\* pairStep

\* Mutant: an expired flow is kept.
NeedsFirstFlow == flow = None

NeedsFlow == flow # None => Expired(flow)

StartFlow(t) ==
  /\ pc = "head" /\ ~Paired /\ NeedsFlow /\ online
  /\ Unreferenced(t)
  /\ grant' = [grant EXCEPT ![t] = "open"] /\ age' = [age EXCEPT ![t] = "fresh"]
  /\ valid' = valid \ {t}
  /\ flow' = t /\ notice' = "" /\ overdue' = FALSE
  /\ Quiet /\ UNCHANGED <<online, stored, client, session, pc, screen>>

\* A round of pairStep ends with the flow it began with.
KeepsFlow == overdue' = (flow # None /\ Expired(flow))

\* An expired flow is left in place when no new one can be had.
StartFlowFails ==
  /\ pc = "head" /\ ~Paired /\ NeedsFlow
  /\ \/ ~online /\ Quiet
     \/ Happens("lost")
  /\ notice' = "unreachable"
  /\ KeepsFlow
  /\ pc' = "sleep"
  /\ UNCHANGED <<remote, stored, client, flow, session, screen>>

Polling == pc = "head" /\ ~Paired /\ ~NeedsFlow

\* The server answers 404 before the approval, after the first 200, and for a token
\* it has forgotten.  The flow may expire while the poll is under way.
PollPending ==
  /\ Polling /\ online /\ (grant[flow] # "approved" \/ age[flow] = "dead")
  /\ KeepsFlow
  /\ pc' = "sleep"
  /\ Quiet
  /\ UNCHANGED <<remote, stored, client, flow, notice, session, screen>>

PollExpired ==
  /\ Polling /\ online /\ grant[flow] # "approved" /\ TimePasses(flow)
  /\ age' = [age EXCEPT ![flow] = "stale"]
  /\ flow' = None /\ overdue' = FALSE
  /\ UNCHANGED <<grant, valid, online, stored, client, notice, session, pc, screen>>

PollFails ==
  /\ Polling
  /\ \/ ~online /\ Quiet
     \/ Happens("lost")
  /\ KeepsFlow
  /\ pc' = "sleep"
  /\ UNCHANGED <<remote, stored, client, flow, notice, session, screen>>

\* The server considers the app password delivered, but the answer is lost.
PollLost ==
  /\ Polling /\ online /\ grant[flow] = "approved" /\ age[flow] # "dead"
  /\ Happens("lost")
  /\ grant' = [grant EXCEPT ![flow] = "spent"]
  /\ KeepsFlow
  /\ pc' = "sleep"
  /\ UNCHANGED <<age, valid, online, stored, client, flow, notice, session, screen>>

PollSucceeds ==
  /\ Polling /\ online /\ grant[flow] = "approved" /\ age[flow] # "dead"
  /\ grant' = [grant EXCEPT ![flow] = "spent"]
  /\ \E url \in Reported : session' = [token |-> flow, server |-> url]
  /\ pc' = "save"
  /\ Quiet
  /\ UNCHANGED <<age, valid, online, stored, client, flow, notice, overdue, screen>>

\* auth.Save: a temporary file, synced, then renamed over auth.json.
SaveCredential ==
  /\ pc = "save"
  /\ stored' = session
  /\ pc' = "install"
  /\ Quiet
  /\ UNCHANGED <<remote, client, flow, notice, session, overdue, screen>>

\* Mutant: the error is logged and the client installed all the same.
SaveCredentialIgnored ==
  /\ pc = "save" /\ Happens("disk")
  /\ notice' = "unsaved"
  /\ pc' = "install"
  /\ UNCHANGED <<remote, stored, client, flow, session, overdue, screen>>

SaveCredentialFails ==
  /\ pc = "save" /\ Happens("disk")
  /\ session' = None /\ notice' = "unsaved"
  /\ pc' = "sleep"
  /\ UNCHANGED <<remote, stored, client, flow, overdue, screen>>

Install ==
  /\ pc = "install"
  /\ client' = session /\ flow' = None /\ notice' = ""
  /\ session' = None /\ overdue' = FALSE
  /\ pc' = "head"
  /\ Quiet /\ UNCHANGED <<remote, stored, screen>>

\* sleep(pollInterval) between two rounds of pairStep.
WakeFromSleep ==
  /\ pc = "sleep"
  /\ pc' = "head"
  /\ Quiet /\ UNCHANGED <<remote, local, screen>>

-----------------------------------------------------------------------------
\* Run while paired, reduced to what can end the pairing: the first request of the
\* cycle the server answers 401, and the notice it leaves.  A listing that fails
\* leaves the old notice, or, when the tag could not be created, asks for an
\* administrator.  The rest of a cycle is in Frame.tla.

SyncPaired ==
  /\ pc = "head" /\ Paired
  /\ \/ ~online /\ UNCHANGED notice /\ Quiet
     \/ Happens("lost") /\ notice' \in {notice, "admin"}
     \/ online /\ client.token \in valid /\ notice' \in {"", "hint"} /\ Quiet
  /\ pc' = "idle"
  /\ UNCHANGED <<remote, stored, client, flow, session, overdue, screen>>

\* Mutant: any error of the listing drops the credential.
ClearOnAnyError ==
  /\ pc = "head" /\ Paired /\ Happens("lost")
  /\ stored' = None
  /\ pc' = "unpair"
  /\ UNCHANGED <<remote, client, flow, notice, session, overdue, screen>>

\* unpair: auth.Clear, whose failure is only logged, ...
ClearCredential ==
  /\ pc = "head" /\ Paired /\ online /\ client.token \notin valid
  /\ \/ stored' = None /\ Quiet
     \/ UNCHANGED stored /\ Happens("disk")
  /\ pc' = "unpair"
  /\ UNCHANGED <<remote, client, flow, notice, session, overdue, screen>>

\* Mutant: the client survives its credential.
ForgetNothing ==
  /\ pc = "unpair"
  /\ pc' = "idle"
  /\ Quiet /\ UNCHANGED <<remote, local, screen>>

\* ... then the fields.  The cycle goes on to its wait.
ForgetClient ==
  /\ pc = "unpair"
  /\ client' = None /\ flow' = None /\ overdue' = FALSE
  /\ pc' = "idle"
  /\ Quiet /\ UNCHANGED <<remote, stored, notice, session, screen>>

\* The sync interval ends, or a request wakes the worker.
EndInterval ==
  /\ pc = "idle"
  /\ pc' = "head"
  /\ Quiet /\ UNCHANGED <<remote, local, screen>>

-----------------------------------------------------------------------------
\* New, when the process starts again: a credential for another server than the
\* configured one is not used, and removed unless auth.Clear fails.
Restart ==
  /\ Happens("restart")
  /\ LET usable == stored # None /\ stored.server = "same" IN
       /\ client' = IF usable THEN stored ELSE None
       /\ \/ stored' = IF usable THEN stored ELSE None
          \/ stored' = stored /\ "disk" \in Events
  /\ flow' = None /\ notice' = "" /\ session' = None /\ overdue' = FALSE
  /\ pc' = "head"
  /\ UNCHANGED <<remote, screen>>

\* Mutant: the flow is not checked for nil.
AskUnchecked ==
  /\ screen' = IF Paired THEN "photos" ELSE flow
  /\ Quiet /\ UNCHANGED <<remote, local, pc>>

\* Next: what the frontend is told to show.
Ask ==
  /\ screen' = IF Paired THEN "photos" ELSE IF flow # None THEN flow ELSE notice
  /\ Quiet /\ UNCHANGED <<remote, local, pc>>

-----------------------------------------------------------------------------
\* The server and the owner.

\* 18 minutes after a token was issued ...
BecomeStale(t) ==
  /\ age[t] = "fresh" /\ TimePasses(t)
  /\ age' = [age EXCEPT ![t] = "stale"]
  /\ UNCHANGED <<grant, valid, online, local, pc, screen>>

\* ... and two minutes later.  A pairStep takes at most one request of 30 s and one
\* sleep of 3 s, so by then pairStep has been at the head of its flow again.
Die(t) ==
  /\ age[t] = "stale" /\ (flow = t => overdue)
  /\ age' = [age EXCEPT ![t] = "dead"]
  /\ Quiet /\ UNCHANGED <<grant, valid, online, local, pc, screen>>

\* The owner scans the code on the screen and grants access: the server mints an
\* app password.
Approve(t) ==
  /\ screen = t /\ grant[t] = "open" /\ age[t] # "dead"
  /\ grant' = [grant EXCEPT ![t] = "approved"]
  /\ valid' = valid \cup {t}
  /\ Quiet /\ UNCHANGED <<age, online, local, pc, screen>>

Revoke ==
  /\ Happens("revoke") /\ Paired /\ client.token \in valid
  /\ valid' = valid \ {client.token}
  /\ UNCHANGED <<grant, age, online, local, pc, screen>>

\* The network goes away, as often as Events allow, and comes back.
Network ==
  /\ IF online THEN Happens("offline") ELSE Quiet
  /\ online' = ~online
  /\ UNCHANGED <<grant, age, valid, local, pc, screen>>

-----------------------------------------------------------------------------
PairStep == \/ (\E t \in Token : StartFlow(t)) \/ StartFlowFails
            \/ PollPending \/ PollExpired \/ PollFails \/ PollLost \/ PollSucceeds
            \/ SaveCredential \/ SaveCredentialFails \/ Install \/ WakeFromSleep

Cycle == SyncPaired \/ ClearCredential \/ ForgetClient \/ EndInterval

Next == \/ PairStep \/ Cycle \/ Restart \/ Ask
        \/ (\E t \in Token : BecomeStale(t) \/ Die(t) \/ Approve(t))
        \/ Revoke \/ Network

Spec == Init /\ [][Next]_vars

(***************************************************************************)
(* Fairness: the worker is scheduled, its sleeps and its interval end, the *)
(* frontend keeps asking, the clock runs out on a token already spent, the *)
(* network comes back, and the owner scans a code that stays on the        *)
(* screen.  Nothing is assumed of faults.                                  *)
(***************************************************************************)
FairSpec ==
  /\ Spec /\ WF_vars(PairStep) /\ WF_vars(Cycle) /\ WF_vars(Ask)
  /\ WF_vars(~online /\ Network)
  /\ \A t \in Token :
       WF_vars(Approve(t)) /\ WF_vars(grant[t] = "spent" /\ BecomeStale(t))

-----------------------------------------------------------------------------
TypeOK ==
  /\ grant \in [Token -> {"open", "approved", "spent"}]
  /\ age \in [Token -> {"fresh", "stale", "dead"}]
  /\ valid \in SUBSET Token /\ online \in BOOLEAN /\ events \in 0 .. MaxEvents
  /\ stored \in Credential \cup {None} /\ client \in Credential \cup {None}
  /\ session \in Credential \cup {None}
  /\ flow \in Token \cup {None} /\ notice \in Notices
  /\ pc \in {"head", "sleep", "save", "install", "unpair", "idle"}
  /\ overdue \in BOOLEAN
  /\ screen \in Token \cup Notices \cup {"photos"}

\* A paired frame has its credential on disk, so a restart at any moment finds it,
\* except between the two halves of unpair (frame.go 196-216, 223-233).
ClientIsStored == Paired => stored = client \/ pc = "unpair"

\* A paired frame goes back to the QR code only when the server has rejected its app
\* password, or when it restarts and the server named itself otherwise than the
\* configuration does: no failed request or write ever costs the pairing, and no
\* other restart (frame.go New 73-90, syncOnce, unpair).
KeepsPairing ==
  [][Paired /\ ~Paired' => \/ client.token \notin valid
                           \/ client.server = "other" /\ Restart]_vars

\* The frame holds on to a code the server has forgotten only while its last attempt
\* to get another one has failed: the two minutes between its expiry of a flow and
\* the server's are enough otherwise (loginflow.go 57-71, frame.go 162-170).
DeadOnlyUnreachable == flow # None /\ age[flow] = "dead" => notice = "unreachable"

\* Whatever goes wrong for a while, an unpaired frame ends up paired, and a frame
\* whose app password was revoked shows a code and ends up paired with another.
PairsAgain ==
  /\ []<>(Paired /\ client.token \in valid)
  /\ (Paired /\ client.token \notin valid) ~> (screen \in Token /\ screen = flow)
=============================================================================
