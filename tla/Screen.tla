------------------------------- MODULE Screen -------------------------------
(***************************************************************************)
(* What the frontend promises its viewer, whatever layers, fades and files *)
(* it takes: the panel shows what the latest answer said, it changes only  *)
(* when an answer is taken up, and an answer that failed, or a photo that  *)
(* cannot be read, leaves on it what was there.  Only a restart blanks it. *)
(***************************************************************************)
CONSTANTS
  Photo,   \* images the backend may answer with
  Notice,  \* login URLs and messages it may answer with
  None     \* no answer; an empty panel

VARIABLES
  panel,  \* what the viewer sees
  state,  \* the request: at "rest", "asked" or "answered"; "stopped"
  reply   \* the answer not yet taken up

vars == <<panel, state, reply>>

Init == panel = None /\ state = "rest" /\ reply = None

Ask ==
  /\ state = "rest" /\ state' = "asked"
  /\ UNCHANGED <<panel, reply>>

Answer ==
  /\ state = "asked" /\ state' = "answered"
  /\ reply' \in Photo \cup Notice \cup {None}
  /\ UNCHANGED panel

Show ==
  /\ state = "answered" /\ state' = "rest"
  /\ reply # None /\ panel' = reply
  /\ reply' = None

Keep ==
  /\ state = "answered" /\ state' = "rest"
  /\ reply \notin Notice
  /\ reply' = None /\ UNCHANGED panel

Stop ==
  /\ state' = "stopped"
  /\ reply' = None /\ UNCHANGED panel

Restart ==
  /\ state = "stopped" /\ state' = "rest"
  /\ panel' = None /\ UNCHANGED reply

Next == Ask \/ Answer \/ Show \/ Keep \/ Stop \/ Restart

Spec == Init /\ [][Next]_vars
=============================================================================
