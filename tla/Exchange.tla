------------------------------ MODULE Exchange ------------------------------
(***************************************************************************)
(* One request and its answer over the Unix socket: IpcClient::exchange on *)
(* the frontend's side, ipcserver's Serve and handle on the backend's, and *)
(* the life of the backend process around them.                            *)
(*                                                                         *)
(* Connections are streams: a request arrives in pieces, a reply is read   *)
(* in chunks of any size, either end may close, and both have deadlines.   *)
(* A connection is used for one exchange; the client may go quiet, or give *)
(* up and come back on another while the first one's handler still runs.   *)
(*                                                                         *)
(* A request is two pieces, the second with the newline; the handler that   *)
(* has it runs frame.Next, which no deadline of the connection interrupts.  *)
(* What it asks and how Next chooses an answer are in Frame.tla.  Replies are token   *)
(* sequences (Json.tla), w standing for the three dimensions and the       *)
(* members that are only passed on left out.                               *)
(***************************************************************************)
EXTENDS JsonGrammar

CONSTANTS
  Conn,       \* connections at a time
  Answer,     \* what frame.Next may say, as [kind, text] records
  Garbage,    \* texts that another program at the socket may send
  MaxLine,    \* read_line's limit, in tokens
  Events,
  MaxEvents

Newline == "newline"

VARIABLES
  proc,     \* the backend: "down", "starting", "listening", "returned", "failed"
  term,     \* its context is cancelled
  worker,   \* frame.Run: "running" or "done"
  client,   \* the client's end: "closed", "writing", "reading"
  server,   \* the other end: "closed", "queued", "reading", "serving" (in frame.Next),
            \* "late" (the same, its deadline past), "writing"
  up,       \* pieces of the request the server has received
  out,      \* what the handler has still to write
  down,     \* what it has written and the client has not read
  meant,    \* what the handler was given to say to the client that is there
  line,     \* read_line's line
  result,   \* what exchange returned, Pending while it runs
  events

backend == <<proc, term, worker>>
sockets == <<client, server, up, out, down, meant>>
vars == <<backend, sockets, line, result, events>>

Nothing == [kind |-> "nothing", text |-> ""]   \* std::nullopt
Thrown == [kind |-> "thrown", text |-> ""]     \* an exception, rethrown by get()
Pending == [kind |-> "pending", text |-> ""]

Token == Scalar \cup {"{", "}", "[", "]", ":", ",", Newline}
Says == [kind : {"image", "empty", "pairing"}, text : Word]

ASSUME ExchangeAssumption ==
  /\ MaxLine \in Nat /\ MaxEvents \in Nat
  /\ Answer \subseteq Says
  /\ \A a \in Answer : a.kind = "image" => a.text # ""
  /\ \A text \in Garbage : text \in Seq(Token \ {Newline})
  /\ {"mode", "url", "message", "error", "blob", "w", "pairing", "empty", ""} \subseteq Word
  /\ "7" \in Number /\ Newline \notin Scalar

Happens(e) == e \in Events /\ events < MaxEvents /\ events' = events + 1

Init ==
  /\ proc = "starting" /\ term = FALSE /\ worker = "running"
  /\ client = [c \in Conn |-> "closed"] /\ server = [c \in Conn |-> "closed"]
  /\ up = [c \in Conn |-> 0]
  /\ out = [c \in Conn |-> <<>>] /\ down = [c \in Conn |-> <<>>]
  /\ meant = [c \in Conn |-> Nothing]
  /\ line = <<>> /\ result = Nothing /\ events = 0

-----------------------------------------------------------------------------
(* Replies. *)

\* toResponse and json.Marshal: members without a value are left out.
Encode(a) ==
  CASE a.kind = "image"   -> <<"{", "blob", ":", a.text, ",", "w", ":", "7", "}">>
    [] a.kind = "empty"   -> <<"{", "mode", ":", "empty", ",", "message", ":", a.text, "}">>
    [] a.kind = "pairing" -> <<"{", "mode", ":", "pairing", ",", "url", ":", a.text, "}">>

Reply(kind, s, n) ==
  IF Throws(s, n, Word) THEN Thrown ELSE [kind |-> kind, text |-> Value(s, n, "")]

\* parse_reply.  A member of another type than its default makes value() throw;
\* a boolean converts to an int.  An image needs a path and dimensions.
ParseReply(text) ==
  LET s == Parse(text) IN
    IF ~IsObject(s) THEN Nothing
    ELSE IF HasMember(s, "error")
         THEN IF Throws(s, "error", Word) THEN Thrown ELSE Nothing
    ELSE IF Throws(s, "mode", Word) THEN Thrown
    ELSE IF Value(s, "mode", "") = "pairing" THEN Reply("pairing", s, "url")
    ELSE IF Value(s, "mode", "") = "empty" THEN Reply("empty", s, "message")
    ELSE IF Throws(s, "blob", Word) \/ Throws(s, "w", Number \cup Boolean) THEN Thrown
    ELSE IF Value(s, "blob", "") = "" \/ Value(s, "w", "0") \in {"0", "false"} THEN Nothing
    ELSE Reply("image", s, "blob")

-----------------------------------------------------------------------------
(* The client: one exchange at a time, on a connection of its own. *)

Unused(c) == client[c] = "closed" /\ server[c] = "closed"

\* socket and connect: the connection waits in the listener's backlog.
Connect(c) ==
  /\ Unused(c) /\ proc = "listening"
  /\ result # Pending
  /\ client' = [client EXCEPT ![c] = "writing"]
  /\ server' = [server EXCEPT ![c] = "queued"]
  /\ up' = [up EXCEPT ![c] = 0]
  /\ meant' = [meant EXCEPT ![c] = Nothing]
  /\ result' = Pending
  /\ UNCHANGED <<backend, out, down, line, events>>

ConnectFails ==
  /\ proc # "listening" /\ result # Pending
  /\ result' = Nothing
  /\ UNCHANGED <<backend, sockets, line, events>>

\* write_all, and shutdown after the last piece.
WritePiece(c) ==
  /\ client[c] = "writing" /\ server[c] # "closed"
  /\ up' = [up EXCEPT ![c] = @ + 1]
  /\ client' = [client EXCEPT ![c] = IF up[c] = 1 THEN "reading" ELSE @]
  /\ UNCHANGED <<backend, server, out, down, meant, line, result, events>>

\* The Socket is destroyed and exchange returns r.
Return(c, r) ==
  /\ client' = [client EXCEPT ![c] = "closed"]
  /\ down' = [down EXCEPT ![c] = <<>>]
  /\ meant' = [meant EXCEPT ![c] = Nothing]
  /\ line' = <<>>
  /\ result' = r
  /\ UNCHANGED <<backend, server, up, out, events>>

\* EPIPE: systemd has SIGPIPE ignored.
BrokenPipe(c) ==
  client[c] = "writing" /\ server[c] = "closed" /\ Return(c, Nothing)

\* SO_RCVTIMEO and SO_SNDTIMEO.
GiveUp(c) == client[c] # "closed" /\ Return(c, Nothing)

\* Mutant: a newline inside what was read is not looked for.
ReadAny(c, n) ==
  /\ client[c] = "reading" /\ Len(line) < MaxLine
  /\ line' = line \o SubSeq(down[c], 1, n)
  /\ down' = [down EXCEPT ![c] = SubSeq(@, n + 1, Len(@))]
  /\ UNCHANGED <<backend, client, server, up, out, meant, result, events>>

\* A read of n tokens that ends no line.
Read(c, n) ==
  /\ client[c] = "reading" /\ Len(line) < MaxLine
  /\ Newline \notin Range(SubSeq(down[c], 1, n))
  /\ line' = line \o SubSeq(down[c], 1, n)
  /\ down' = [down EXCEPT ![c] = SubSeq(@, n + 1, Len(@))]
  /\ UNCHANGED <<backend, client, server, up, out, meant, result, events>>

\* A read with the newline in it: the line is what comes before.
ReadNewline(c) ==
  /\ client[c] = "reading" /\ Len(line) < MaxLine
  /\ \E i \in DOMAIN down[c] :
       /\ down[c][i] = Newline /\ Newline \notin Range(SubSeq(down[c], 1, i - 1))
       /\ Return(c, ParseReply(line \o SubSeq(down[c], 1, i - 1)))

\* The peer has closed, or the line is full: what there is is the line.
ReadEnds(c) ==
  /\ client[c] = "reading"
  /\ \/ Len(line) >= MaxLine
     \/ server[c] = "closed" /\ down[c] = <<>>
  /\ Return(c, IF line = <<>> THEN Nothing ELSE ParseReply(line))

-----------------------------------------------------------------------------
(* The server: Serve accepts, a goroutine per connection handles. *)

Accept(c) ==
  /\ proc = "listening" /\ server[c] = "queued"
  /\ server' = [server EXCEPT ![c] = "reading"]
  /\ UNCHANGED <<backend, client, up, out, down, meant, line, result, events>>

\* The request is there for frame.Next: with its newline, or all but that when the
\* client has left.
Takes(c) ==
  /\ server[c] = "reading"
  /\ up[c] = 2 \/ (up[c] = 1 /\ client[c] = "closed")
  /\ server' = [server EXCEPT ![c] = "serving"]
  /\ UNCHANGED <<backend, client, up, out, down, meant, line, result, events>>

\* The handler has this to write; to a client that has left it writes nothing.
HasToSay(c, what, text) ==
  LET there == client[c] # "closed" IN
  /\ server[c] = "serving"
  /\ server' = [server EXCEPT ![c] = "writing"]
  /\ meant' = [meant EXCEPT ![c] = IF there THEN what ELSE Nothing]
  /\ out' = [out EXCEPT ![c] = IF there THEN Append(text, Newline) ELSE <<>>]
  /\ UNCHANGED <<backend, client, up, down, line, result>>

\* frame.Next has answered.
Answered(c, a) == HasToSay(c, a, Encode(a)) /\ UNCHANGED events

\* Another program, or another version of this one, says something else.
Confused(c, text) == Happens("confused") /\ HasToSay(c, Thrown, text)

\* conn.Write, as much as the kernel takes at a time.
Write(c, n) ==
  /\ server[c] = "writing" /\ client[c] # "closed"
  /\ down' = [down EXCEPT ![c] = @ \o SubSeq(out[c], 1, n)]
  /\ out' = [out EXCEPT ![c] = SubSeq(@, n + 1, Len(@))]
  /\ UNCHANGED <<backend, client, server, up, meant, line, result, events>>

HangUp(c) ==
  /\ server' = [server EXCEPT ![c] = "closed"]
  /\ up' = [up EXCEPT ![c] = 0]
  /\ out' = [out EXCEPT ![c] = <<>>]
  /\ UNCHANGED <<backend, client, down, meant, line, result, events>>

\* All is written, or the client has left: with the request unfinished, or
\* while Write still had some of the reply.
HandlerReturns(c) ==
  /\ \/ server[c] = "writing" /\ out[c] = <<>>
     \/ server[c] = "writing" /\ client[c] = "closed"
     \/ server[c] = "reading" /\ client[c] = "closed" /\ up[c] < 2
  /\ HangUp(c)

\* Mutant: SetReadDeadline.
DeadlineToRead(c) == server[c] = "reading" /\ HangUp(c)

\* SetDeadline, 30 s for all of it.  A read or a write that waits fails at once, and
\* with it the handler; frame.Next runs on, and what it returns cannot be written.
Deadline(c) ==
  \/ server[c] \in {"reading", "writing"} /\ HangUp(c)
  \/ /\ server[c] = "serving" \/ (server[c] = "reading" /\ up[c] = 1)
     /\ server' = [server EXCEPT ![c] = "late"]
     /\ UNCHANGED <<backend, client, up, out, down, meant, line, result, events>>

\* The write to a connection that is out of time.
TooLate(c) == server[c] = "late" /\ HangUp(c)

-----------------------------------------------------------------------------
(* The backend process. *)

Listen ==
  /\ proc = "starting" /\ proc' = "listening"
  /\ UNCHANGED <<term, worker, sockets, line, result, events>>

ListenFails ==
  /\ proc = "starting" /\ Happens("listen") /\ proc' = "failed"
  /\ UNCHANGED <<term, worker, sockets, line, result>>

Terminate ==
  /\ proc # "down" /\ ~term /\ Happens("term") /\ term' = TRUE
  /\ UNCHANGED <<proc, worker, sockets, line, result>>

\* Mutant: nothing closes the listener, so Accept waits for the next client.
ServeReturnsLater ==
  /\ proc = "listening" /\ term /\ \E c \in Conn : server[c] = "queued"
  /\ proc' = "returned"
  /\ server' = [c \in Conn |-> IF server[c] = "queued" THEN "closed" ELSE server[c]]
  /\ UNCHANGED <<term, worker, client, up, out, down, meant, line, result, events>>

\* The listener is closed, and with it the connections nobody has accepted.
ServeReturns ==
  /\ proc = "listening" /\ term
  /\ proc' = "returned"
  /\ server' = [c \in Conn |-> IF server[c] = "queued" THEN "closed" ELSE server[c]]
  /\ UNCHANGED <<term, worker, client, up, out, down, meant, line, result, events>>

WorkerReturns ==
  /\ proc # "down" /\ term /\ worker = "running"
  /\ worker' = "done"
  /\ UNCHANGED <<proc, term, sockets, line, result, events>>

\* The kernel closes what the process had open; what it wrote can still be read.
Die ==
  /\ proc' = "down" /\ server' = [c \in Conn |-> "closed"]
  /\ up' = [c \in Conn |-> 0] /\ out' = [c \in Conn |-> <<>>]
  /\ UNCHANGED <<term, worker, client, down, meant, line, result>>

\* main returns: Serve has, whatever for, and the worker has.
Exit ==
  proc \in {"returned", "failed"} /\ worker = "done" /\ Die /\ UNCHANGED events

Kill == proc # "down" /\ Happens("kill") /\ Die

\* systemd; a socket file left behind is removed before Listen.
Restart ==
  /\ proc = "down"
  /\ proc' = "starting" /\ term' = FALSE /\ worker' = "running"
  /\ UNCHANGED <<sockets, line, result, events>>

-----------------------------------------------------------------------------
Client(c) ==
  \/ Connect(c) \/ WritePiece(c) \/ BrokenPipe(c) \/ GiveUp(c)
  \/ \E n \in 1 .. Len(down[c]) : Read(c, n)
  \/ ReadNewline(c) \/ ReadEnds(c)

Handler(c) ==
  \/ Accept(c) \/ Takes(c)
  \/ \E a \in Answer : Answered(c, a)
  \/ \E text \in Garbage : Confused(c, text)
  \/ \E n \in 1 .. Len(out[c]) : Write(c, n)
  \/ HandlerReturns(c) \/ Deadline(c) \/ TooLate(c)

Process ==
  \/ Listen \/ ListenFails \/ Terminate \/ ServeReturns \/ WorkerReturns
  \/ Exit \/ Kill \/ Restart

Next == (\E c \in Conn : Client(c) \/ Handler(c)) \/ ConnectFails \/ Process

Spec == Init /\ [][Next]_vars

NextReturns(c) == TooLate(c) \/ \E a \in Answer : Answered(c, a)

\* Deadlines expire, frame.Next returns (it waits for locks that nobody holds
\* across a request or a render), and the goroutines are scheduled.  Nothing is
\* assumed of clients, of Accept or of the network stack.
FairSpec ==
  /\ Spec
  /\ \A c \in Conn : WF_vars(Deadline(c)) /\ WF_vars(NextReturns(c))
  /\ WF_vars(Listen) /\ WF_vars(ServeReturns) /\ WF_vars(WorkerReturns) /\ WF_vars(Exit)

-----------------------------------------------------------------------------
Result == Says \cup {Nothing, Thrown, Pending}

\* The type invariant: every variable has its type, in every order of messages,
\* deadlines and deaths.
TypeOK ==
  /\ proc \in {"down", "starting", "listening", "returned", "failed"}
  /\ term \in BOOLEAN /\ worker \in {"running", "done"}
  /\ client \in [Conn -> {"closed", "writing", "reading"}]
  /\ server \in [Conn -> {"closed", "queued", "reading", "serving", "late", "writing"}]
  /\ up \in [Conn -> 0 .. 2]
  /\ meant \in [Conn -> Answer \cup {Nothing, Thrown}]
  /\ out \in [Conn -> Seq(Token)] /\ down \in [Conn -> Seq(Token)]
  /\ line \in Seq(Token \ {Newline}) /\ result \in Result
  /\ events \in 0 .. MaxEvents

\* However a reply is cut into reads, and whenever the backend dies or either
\* side loses patience, exchange returns what frame.Next said on this connection
\* or nothing; it throws at nothing the backend says.  (parse_reply, read_line:
\* half a reply must not become an answer, nor must the answer to a request that
\* was given up.)
OutcomeMeant ==
  [][\A c \in Conn :
       client[c] # "closed" /\ client'[c] = "closed" /\ meant[c] # Thrown
         => result' \in {Nothing, meant[c]}]_vars

\* The parser accepts exactly the JSON texts and binds a name to its last value,
\* for every line a client has read, cut short or confused (json.hpp's
\* sax_parse_internal and json_sax_dom_parser).
ParserAgrees == AgreesOn(line)

\* A client that connects and goes quiet, before its request is whole or before it
\* has read the reply, does not pin a goroutine, though frame.Next cannot be
\* interrupted (handle: one SetDeadline for the read before Next and the write after).
HandlersEnd ==
  \A c \in Conn :
    server[c] \in {"reading", "serving", "late", "writing"} ~> server[c] = "closed"

\* SIGTERM ends the process, whoever is connected and whether Serve could listen.
StopsWhenTold == term ~> proc = "down"
=============================================================================
