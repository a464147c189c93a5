--------------------------- MODULE Pairing_proofs ---------------------------
(***************************************************************************)
(* Pairing's safety properties, for every set of tokens and every number   *)
(* of environment events.                                                  *)
(***************************************************************************)
EXTENDS Pairing, TLAPS

\* The count of events stays within its bound.
LEMMA MaxIsNat == MaxEvents \in Nat
BY PairingAssumption

LEMMA CountUp ==
  ASSUME NEW n \in 0 .. MaxEvents, n < MaxEvents PROVE n + 1 \in 0 .. MaxEvents
BY MaxIsNat

LEMMA CountZero == 0 \in 0 .. MaxEvents
BY MaxIsNat

USE PairingAssumption

-----------------------------------------------------------------------------
(* The credential file and the client agree. *)

\* Between Poll and the end of pairStep the worker holds a session and no client;
\* before it installs the client the credential file is the session.
Held ==
  /\ pc \in {"save", "install"} => ~Paired
  /\ pc = "install" => stored = session

StoredInv == Held /\ ClientIsStored

LEMMA StoredNext == StoredInv /\ [Next]_vars => StoredInv'
<1> SUFFICES ASSUME StoredInv, [Next]_vars PROVE StoredInv'
  OBVIOUS
<1> USE DEF StoredInv, Held, ClientIsStored, Paired, remote, local
<1>1. ASSUME NEW t \in Token, StartFlow(t) PROVE StoredInv'
  BY <1>1 DEF StartFlow
<1>2. CASE StartFlowFails \/ PollPending \/ PollExpired \/ PollFails \/ PollLost
  BY <1>2 DEF StartFlowFails, PollPending, PollExpired, PollFails, PollLost, Polling
<1>3. CASE PollSucceeds
  BY <1>3 DEF PollSucceeds, Polling
<1>4. CASE SaveCredential \/ SaveCredentialFails
  BY <1>4 DEF SaveCredential, SaveCredentialFails
<1>5. CASE Install \/ WakeFromSleep
  BY <1>5 DEF Install, WakeFromSleep
<1>6. CASE Cycle
  BY <1>6 DEF Cycle, SyncPaired, ClearCredential, ForgetClient, EndInterval
<1>7. CASE Restart \/ Ask
  BY <1>7 DEF Restart, Ask
<1>8. ASSUME NEW t \in Token, BecomeStale(t) \/ Die(t) \/ Approve(t) PROVE StoredInv'
  BY <1>8 DEF BecomeStale, Die, Approve
<1>9. CASE Revoke \/ Network \/ UNCHANGED vars
  BY <1>9 DEF Revoke, Network, vars
<1> QED
  BY <1>1, <1>2, <1>3, <1>4, <1>5, <1>6, <1>7, <1>8, <1>9 DEF Next, PairStep

\* A paired frame has its credential on disk: pairStep saves before it installs.
THEOREM CredentialStored == Spec => []ClientIsStored
<1>1. Init => StoredInv
  BY DEF Init, StoredInv, Held, ClientIsStored, Paired
<1>2. StoredInv => ClientIsStored
  BY DEF StoredInv
<1> QED
  BY <1>1, <1>2, StoredNext, PTL DEF Spec

-----------------------------------------------------------------------------
(* Only the server ends a pairing. *)

Creds == {stored, client, session} \ {None}

\* A credential in use comes from a token already redeemed, so that no approval can
\* make the server accept it again.
Redeemed ==
  /\ grant \in [Token -> {"open", "approved", "spent"}]
  /\ flow \in Token \cup {None}
  /\ \A c \in Creds : c \in Credential /\ grant[c.token] = "spent"

\* unpair is under way only for a credential the server rejects.
Rejected == pc = "unpair" => Paired /\ client.token \notin valid

KeepInv == StoredInv /\ Redeemed /\ Rejected

LEMMA RedeemedNext == StoredInv /\ Redeemed /\ [Next]_vars => Redeemed'
<1> SUFFICES ASSUME StoredInv, Redeemed, [Next]_vars PROVE Redeemed'
  OBVIOUS
<1> USE DEF Redeemed, Creds, remote, local
<1>1. ASSUME NEW t \in Token, StartFlow(t) PROVE Redeemed'
  <2>1. \A c \in Creds : c.token # t
    BY <1>1 DEF StartFlow, Unreferenced
  <2> QED
    BY <1>1, <2>1 DEF StartFlow, Credential
<1>2. CASE StartFlowFails \/ PollPending \/ PollExpired \/ PollFails
  BY <1>2 DEF StartFlowFails, PollPending, PollExpired, PollFails
<1>3. CASE PollLost
  BY <1>3 DEF PollLost, Credential
<1>4. CASE PollSucceeds
  <2>1. flow \in Token /\ grant' = [grant EXCEPT ![flow] = "spent"]
    BY <1>4 DEF PollSucceeds, Polling, NeedsFlow, Expired
  <2>2. PICK url \in Reported : session' = [token |-> flow, server |-> url]
    BY <1>4 DEF PollSucceeds
  <2>3. session' \in Credential /\ session'.token = flow
    BY <2>1, <2>2 DEF Credential
  <2>4. UNCHANGED <<stored, client, flow>>
    BY <1>4 DEF PollSucceeds
  <2>5. \A c \in Creds' : c \in Creds \/ c = session'
    BY <2>4
  <2>6. \A c \in Credential : c.token \in Token
    BY DEF Credential
  <2>7. \A c \in Creds' : c \in Credential /\ grant'[c.token] = "spent"
    BY <2>1, <2>3, <2>5, <2>6
  <2>8. grant' \in [Token -> {"open", "approved", "spent"}] /\ flow' \in Token \cup {None}
    BY <2>1, <2>4
  <2> HIDE DEF Creds
  <2> QED
    BY <2>7, <2>8
<1>5. CASE SaveCredential \/ SaveCredentialFails \/ Install \/ WakeFromSleep
  BY <1>5 DEF SaveCredential, SaveCredentialFails, Install, WakeFromSleep
<1>6. CASE Cycle
  BY <1>6 DEF Cycle, SyncPaired, ClearCredential, ForgetClient, EndInterval
<1>7. CASE Restart \/ Ask
  BY <1>7 DEF Restart, Ask
<1>8. ASSUME NEW t \in Token, BecomeStale(t) \/ Die(t) PROVE Redeemed'
  BY <1>8 DEF BecomeStale, Die
<1>9. ASSUME NEW t \in Token, Approve(t) PROVE Redeemed'
  <2>1. \A c \in Creds : c.token # t
    BY <1>9 DEF Approve
  <2> QED
    BY <1>9, <2>1 DEF Approve, Credential
<1>10. CASE Revoke \/ Network \/ UNCHANGED vars
  BY <1>10 DEF Revoke, Network, vars
<1> QED
  BY <1>1, <1>2, <1>3, <1>4, <1>5, <1>6, <1>7, <1>8, <1>9, <1>10 DEF Next, PairStep

LEMMA RejectedNext == StoredInv /\ Redeemed /\ Rejected /\ [Next]_vars => Rejected'
<1> SUFFICES ASSUME StoredInv, Redeemed, Rejected, [Next]_vars PROVE Rejected'
  OBVIOUS
<1> USE DEF remote, local
<1>1. ASSUME UNCHANGED <<pc, client>>, \A t \in valid' : t \in valid \/ client.token # t
      PROVE  Rejected'
  <2>1. Rejected' <=> (pc = "unpair" => client # None /\ client.token \notin valid')
    BY <1>1 DEF Rejected, Paired
  <2> QED
    BY <1>1, <2>1 DEF Rejected, Paired
<1>2. ASSUME pc' # "unpair" PROVE Rejected'
  BY <1>2 DEF Rejected
<1>3. CASE (PairStep /\ ~ \E t \in Token : StartFlow(t)) \/ Restart
  BY <1>2, <1>3 DEF PairStep, StartFlowFails, PollPending, PollExpired, PollFails,
     PollLost, PollSucceeds, Polling, SaveCredential, SaveCredentialFails, Install,
     WakeFromSleep, Restart
<1>4. ASSUME NEW t \in Token, StartFlow(t) PROVE Rejected'
  BY <1>2, <1>4 DEF StartFlow
<1>5. CASE SyncPaired \/ ForgetClient \/ EndInterval
  BY <1>2, <1>5 DEF SyncPaired, ForgetClient, EndInterval
<1>6. CASE ClearCredential
  <2>1. Paired /\ client.token \notin valid /\ client' = client /\ valid' = valid
    BY <1>6 DEF ClearCredential
  <2> QED
    BY <2>1, Zenon DEF Rejected, Paired
<1>7. CASE Ask \/ Network \/ UNCHANGED vars
  BY <1>1, <1>7 DEF Ask, Network, vars
<1>8. ASSUME NEW t \in Token, BecomeStale(t) \/ Die(t) PROVE Rejected'
  BY <1>1, <1>8 DEF BecomeStale, Die
<1>9. CASE Revoke
  BY <1>1, <1>9 DEF Revoke
<1>10. ASSUME NEW t \in Token, Approve(t) PROVE Rejected'
  <2>1. CASE client = None
    BY <1>2, <1>10, <2>1 DEF Approve, Rejected, Paired
  <2>2. CASE client # None
    <3>1. client.token # t
      BY <1>10, <2>2 DEF Approve, Redeemed, Creds
    <3> QED
      BY <1>1, <1>10, <3>1 DEF Approve
  <2> QED
    BY <2>1, <2>2
<1> QED
  BY <1>3, <1>4, <1>5, <1>6, <1>7, <1>8, <1>9, <1>10 DEF Next, Cycle

LEMMA KeepsPairingNext ==
  ASSUME KeepInv, [Next]_vars, Paired, ~Paired'
  PROVE  client.token \notin valid \/ (client.server = "other" /\ Restart)
<1> USE DEF Paired, remote, local
<1>1. CASE PairStep
  BY <1>1 DEF PairStep, StartFlow, StartFlowFails, PollPending, PollExpired, PollFails,
     PollLost, PollSucceeds, Polling, SaveCredential, SaveCredentialFails, Install,
     WakeFromSleep, KeepInv, StoredInv, Held
<1>2. CASE Cycle
  BY <1>2 DEF Cycle, SyncPaired, ClearCredential, ForgetClient, EndInterval, KeepInv,
     Rejected
<1>3. CASE Restart
  <2>1. stored = None \/ stored.server # "same"
    BY <1>3 DEF Restart
  <2>2. pc # "unpair" => stored = client /\ stored \in Credential
    BY DEF KeepInv, StoredInv, ClientIsStored, Redeemed, Creds
  <2>3. \A c \in Credential : c.server \in {"same", "other"}
    BY DEF Credential
  <2>4. CASE pc = "unpair"
    BY <2>4 DEF KeepInv, Rejected
  <2>5. CASE pc # "unpair"
    <3>1. client \in Credential /\ stored = client
      BY <2>2, <2>5
    <3>2. client.server = "other"
      BY <2>1, <2>3, <3>1
    <3> QED
      BY <1>3, <3>2
  <2> QED
    BY <2>4, <2>5
<1>4. CASE Ask \/ Revoke \/ Network \/ UNCHANGED vars
  BY <1>4 DEF Ask, Revoke, Network, vars
<1>5. ASSUME NEW t \in Token, BecomeStale(t) \/ Die(t) \/ Approve(t) PROVE FALSE
  BY <1>5 DEF BecomeStale, Die, Approve
<1> QED
  BY <1>1, <1>2, <1>3, <1>4, <1>5 DEF Next

\* Only the server's rejection of the app password ends a pairing, or a restart with
\* a credential for another URL than the configured one: no failed request or write.
THEOREM OnlyRejectionUnpairs == Spec => KeepsPairing
<1>1. Init => KeepInv
  BY DEF Init, KeepInv, StoredInv, Held, ClientIsStored, Paired, Redeemed, Rejected, Creds
<1>2. KeepInv /\ [Next]_vars => KeepInv'
  BY StoredNext, RedeemedNext, RejectedNext DEF KeepInv
<1>3. KeepInv /\ [Next]_vars
        => [Paired /\ ~Paired' => \/ client.token \notin valid
                                  \/ client.server = "other" /\ Restart]_vars
  BY KeepsPairingNext
<1> QED
  BY <1>1, <1>2, <1>3, PTL DEF Spec, KeepsPairing

-----------------------------------------------------------------------------
(* A code past its lifetime is not kept without reason. *)

\* While pairStep holds a session the flow it came from is the one polled, which was
\* fresh when the round began; only a failed StartFlow lets a round end with an
\* expired flow, and it says so in the notice.
CodeInv ==
  /\ age \in [Token -> {"fresh", "stale", "dead"}]
  /\ flow \in Token \cup {None}
  /\ overdue \in BOOLEAN
  /\ Paired => flow = None
  /\ overdue = TRUE => notice = "unreachable" /\ flow # None /\ age[flow] # "fresh"
  /\ pc \in {"save", "install"} => overdue = FALSE /\ (flow # None => age[flow] # "dead")
  /\ pc \in {"save", "install"} => ~Paired
  /\ flow # None /\ age[flow] = "dead" => notice = "unreachable"

LEMMA CodeNext == CodeInv /\ [Next]_vars => CodeInv'
<1> SUFFICES ASSUME CodeInv, [Next]_vars PROVE CodeInv'
  OBVIOUS
<1> USE DEF CodeInv, Paired, remote, local
<1>1. ASSUME NEW t \in Token, StartFlow(t) PROVE CodeInv'
  BY <1>1 DEF StartFlow
<1>2. CASE StartFlowFails
  BY <1>2 DEF StartFlowFails, NeedsFlow, Expired, KeepsFlow
<1>3. CASE PollPending \/ PollFails \/ PollLost
  BY <1>3 DEF PollPending, PollFails, PollLost, Polling, NeedsFlow, Expired, KeepsFlow
<1>4. CASE PollExpired \/ PollSucceeds
  BY <1>4 DEF PollExpired, PollSucceeds, Polling, NeedsFlow, Expired
<1>5. CASE SaveCredential \/ SaveCredentialFails \/ Install \/ WakeFromSleep
  <2>1. CASE SaveCredential
    BY <2>1 DEF SaveCredential
  <2>2. CASE SaveCredentialFails
    BY <2>2 DEF SaveCredentialFails
  <2>3. CASE Install
    BY <2>3 DEF Install
  <2>4. CASE WakeFromSleep
    BY <2>4 DEF WakeFromSleep
  <2> QED
    BY <1>5, <2>1, <2>2, <2>3, <2>4
<1>6. CASE Cycle
  BY <1>6 DEF Cycle, SyncPaired, ClearCredential, ForgetClient, EndInterval
<1>7. CASE Restart \/ Ask
  BY <1>7 DEF Restart, Ask
<1>8. ASSUME NEW t \in Token, BecomeStale(t) \/ Die(t) \/ Approve(t) PROVE CodeInv'
  BY <1>8 DEF BecomeStale, Die, Approve
<1>9. CASE Revoke \/ Network \/ UNCHANGED vars
  BY <1>9 DEF Revoke, Network, vars
<1> QED
  BY <1>1, <1>2, <1>3, <1>4, <1>5, <1>6, <1>7, <1>8, <1>9 DEF Next, PairStep

\* The frame keeps a code the server has forgotten only while it fails to get another:
\* the two minutes between its expiry and the server's suffice, whatever else fails.
THEOREM CodeKept == Spec => []DeadOnlyUnreachable
<1>1. Init => CodeInv
  BY DEF Init, CodeInv, Paired
<1>2. CodeInv => DeadOnlyUnreachable
  BY DEF CodeInv, DeadOnlyUnreachable
<1> QED
  BY <1>1, <1>2, CodeNext, PTL DEF Spec

-----------------------------------------------------------------------------
(* Type correctness. *)

LEMMA CountNext == events \in 0 .. MaxEvents /\ [Next]_vars => events' \in 0 .. MaxEvents
<1> SUFFICES ASSUME events \in 0 .. MaxEvents, [Next]_vars PROVE events' \in 0 .. MaxEvents
  OBVIOUS
<1>1. ASSUME NEW e, Happens(e) PROVE events' \in 0 .. MaxEvents
  <2>1. events < MaxEvents /\ events' = events + 1
    BY <1>1 DEF Happens
  <2> QED
    BY <2>1, CountUp
<1>2. Quiet \/ (\E e : Happens(e)) \/ events' = events
  BY DEF Next, PairStep, Cycle, StartFlow, StartFlowFails, PollPending, PollExpired,
         PollFails, PollLost, PollSucceeds, SaveCredential, SaveCredentialFails, Install,
         WakeFromSleep, SyncPaired, ClearCredential, ForgetClient, EndInterval, Restart,
         Ask, BecomeStale, Die, Approve, Revoke, Network, TimePasses, vars
<1>3. ASSUME Quiet \/ events' = events PROVE events' \in 0 .. MaxEvents
  BY <1>3 DEF Quiet
<1> QED
  BY <1>1, <1>2, <1>3

\* What is a token, a credential, a notice or a place.
Typed ==
  /\ grant \in [Token -> {"open", "approved", "spent"}]
  /\ age \in [Token -> {"fresh", "stale", "dead"}]
  /\ valid \in SUBSET Token
  /\ stored \in Credential \cup {None} /\ client \in Credential \cup {None}
  /\ session \in Credential \cup {None}
  /\ flow \in Token \cup {None} /\ notice \in Notices
  /\ pc \in {"head", "sleep", "save", "install", "unpair", "idle"}
  /\ screen \in Token \cup Notices \cup {"photos"}

LEMMA TypedNext == Typed /\ [Next]_vars => Typed'
<1> SUFFICES ASSUME Typed, [Next]_vars PROVE Typed'
  OBVIOUS
<1> USE DEF Typed, Notices, remote, local
<1>1. ASSUME NEW t \in Token, StartFlow(t) PROVE Typed'
  BY <1>1 DEF StartFlow
<1>2. CASE StartFlowFails \/ PollPending \/ PollFails
  BY <1>2 DEF StartFlowFails, PollPending, PollFails
<1>3. CASE PollExpired \/ PollLost
  BY <1>3 DEF PollExpired, PollLost
<1>4. CASE PollSucceeds
  <2>1. flow \in Token
    BY <1>4 DEF PollSucceeds, Polling, NeedsFlow
  <2>2. session' \in Credential
    <3>1. PICK url \in Reported : session' = [token |-> flow, server |-> url]
      BY <1>4 DEF PollSucceeds
    <3> QED
      BY <2>1, <3>1 DEF Credential
  <2> QED
    BY <1>4, <2>1, <2>2 DEF PollSucceeds
<1>5. CASE SaveCredential \/ SaveCredentialFails \/ Install \/ WakeFromSleep
  BY <1>5 DEF SaveCredential, SaveCredentialFails, Install, WakeFromSleep
<1>6. CASE Cycle
  BY <1>6 DEF Cycle, SyncPaired, ClearCredential, ForgetClient, EndInterval
<1>7. CASE Restart
  BY <1>7 DEF Restart
<1>8. CASE Ask
  BY <1>8 DEF Ask
<1>9. ASSUME NEW t \in Token, BecomeStale(t) \/ Die(t) \/ Approve(t) PROVE Typed'
  <2>1. CASE BecomeStale(t)
    BY <2>1 DEF BecomeStale
  <2>2. CASE Die(t)
    BY <2>2 DEF Die
  <2>3. CASE Approve(t)
    BY <2>3 DEF Approve
  <2> QED
    BY <1>9, <2>1, <2>2, <2>3
<1>10. CASE Revoke \/ Network \/ UNCHANGED vars
  BY <1>10 DEF Revoke, Network, vars
<1> QED
  BY <1>1, <1>2, <1>3, <1>4, <1>5, <1>6, <1>7, <1>8, <1>9, <1>10 DEF Next, PairStep

LEMMA FlagsNext == online \in BOOLEAN /\ overdue \in BOOLEAN /\ [Next]_vars
                     => online' \in BOOLEAN /\ overdue' \in BOOLEAN
<1> SUFFICES ASSUME online \in BOOLEAN, overdue \in BOOLEAN, [Next]_vars
             PROVE  online' \in BOOLEAN /\ overdue' \in BOOLEAN
  OBVIOUS
<1>1. CASE Network
  BY <1>1, Zenon DEF Network, local
<1>2. CASE StartFlowFails \/ PollPending \/ PollFails \/ PollLost
  BY <1>2, Zenon DEF StartFlowFails, PollPending, PollFails, PollLost, KeepsFlow, remote
<1>3. CASE ~Network /\ ~(StartFlowFails \/ PollPending \/ PollFails \/ PollLost)
  <2>1. online' = online /\ (overdue' = overdue \/ overdue' = FALSE)
    BY <1>3
    DEF Next, PairStep, Cycle, StartFlow, PollExpired, PollSucceeds, SaveCredential,
        SaveCredentialFails, Install, WakeFromSleep, SyncPaired, ClearCredential,
        ForgetClient, EndInterval, Restart, Ask, BecomeStale, Die, Approve, Revoke,
        vars, remote, local
  <2> QED
    BY <2>1, Zenon
<1> QED
  BY <1>1, <1>2, <1>3

\* Every variable has its type: no request or answer ever shows or stores what is
\* neither a token nor a notice, nor follows a flow that is not there.
THEOREM PairingTyped == Spec => []TypeOK
<1> DEFINE Count == events \in 0 .. MaxEvents
           Flags == online \in BOOLEAN /\ overdue \in BOOLEAN
<1>1. Init => Typed /\ Count /\ Flags
  <2>1. Init => Typed
    BY DEF Init, Typed, Notices
  <2>2. Init => Count
    BY CountZero DEF Init
  <2>3. Init => Flags
    BY Zenon DEF Init
  <2> QED
    BY <2>1, <2>2, <2>3
<1>2. Typed /\ Count /\ Flags => TypeOK
  BY DEF Typed, TypeOK
<1>3. Count /\ [Next]_vars => Count'
  BY CountNext
<1>4. Flags /\ [Next]_vars => Flags'
  BY FlagsNext
<1> HIDE DEF Count, Flags
<1> QED
  BY <1>1, <1>2, <1>3, <1>4, TypedNext, PTL DEF Spec
=============================================================================
