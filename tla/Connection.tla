------------------------------ MODULE Connection ------------------------------
(***************************************************************************)
(* The life of a connection object: connect, handshake, commands, quit and *)
(* close (impl/connection.hpp; network_algorithms/impl/connect.hpp,        *)
(* quit_connection.hpp and close_connection.hpp), over as many sessions as *)
(* the user makes of it.  A session is one connected socket.               *)
(*                                                                         *)
(* The channel lives as long as the object: what it keeps from one session *)
(* to the next is what this module is about.  The handshake is reduced to  *)
(* its messages; Handshake has the rest of it.  A TLS stream of another    *)
(* session cannot make sense of what it reads.                             *)
(***************************************************************************)
EXTENDS Naturals

CONSTANTS
  SeqMod,       \* values of the sequence number, 256 in the code
  Lengths,      \* messages in the response to a command
  MaxSessions   \* bound on the sessions of a behaviour

ASSUME SeqModAssumption == SeqMod \in Nat \ {0}
ASSUME LengthsAssumption == Lengths \subseteq Nat
ASSUME MaxSessionsAssumption == MaxSessions \in Nat

Modes == {"disable", "enable", "require"}
Apis == {"sync", "async"}

VARIABLES
  sequence_number,  \* channel::sequence_number_
  ssl_block,        \* the session channel::ssl_block_ was created in, 0 without one
  current_caps,     \* the session channel::current_caps_ was set in, 0 at first
  socket,           \* the stream is "open" or "closed"
  session,          \* the sessions there have been, the last of them current
  stage,            \* what the session has seen: nothing, a handshake, a login, a quit
  op,               \* the operation in progress, its parameters and step
  error,            \* the error code of the last operation
  sent              \* what has been written, in which session, over which stream

channelVars == <<sequence_number, ssl_block, current_caps>>
vars == <<channelVars, socket, session, stage, op, error, sent>>

(* Mutations, here and below, are what a bug would make of the definition
   that follows them; no behaviour of the module uses them. *)
NextSeqNoWrap(s) == s + 1

NextSeq(s) == (s + 1) % SeqMod

NumberedFromOne == 1

\* std::uint8_t sequence_number_ {0}
InitialNumber == 0

Op(name, step, ssl, api) == [name |-> name, step |-> step, ssl |-> ssl, api |-> api]
Idle == Op("none", "idle", "enable", "sync")

Init ==
  /\ sequence_number = InitialNumber /\ ssl_block = 0 /\ current_caps = 0
  /\ socket = "closed" /\ session = 0 /\ stage = "closed"
  /\ op = Idle /\ error = "none" /\ sent = {}

\* channel::write over whatever stream there is.
Write(what) ==
  sent' = sent \cup {[what |-> what, session |-> session, stream |-> ssl_block]}

CloseSocket == socket' = "closed" /\ stage' = "closed"

Step(step) == op' = [op EXCEPT !.step = step]

FinishWithoutClose(e) ==
  /\ op' = Idle /\ error' = e
  /\ UNCHANGED <<socket, stage>>

\* The end of an operation.  connect closes the socket when it fails.
Finish(e) ==
  /\ op' = Idle /\ error' = e
  /\ IF op.name = "connect" /\ e # "none" THEN CloseSocket ELSE UNCHANGED <<socket, stage>>

-----------------------------------------------------------------------------
(* Connecting *)

Connect(ssl, api) ==
  /\ op.step = "idle"
  /\ op' = Op("connect", "connecting", ssl, api)
  /\ UNCHANGED <<channelVars, socket, session, stage, error, sent>>

PhysicalConnect ==
  /\ op.step = "connecting" /\ socket = "closed" /\ session < MaxSessions
  /\ socket' = "open" /\ session' = session + 1 /\ stage' = "handshake"
  /\ Step("greeting")
  /\ UNCHANGED <<channelVars, error, sent>>

\* No server, or a socket that is connected already: a second connect ends the
\* session there is.
PhysicalConnectFails ==
  /\ op.step = "connecting"
  /\ Finish("connect")
  /\ UNCHANGED <<channelVars, session, sent>>

\* The user connects next_layer() and calls handshake.
ConnectNextLayer ==
  /\ op.step = "idle" /\ socket = "closed" /\ session < MaxSessions
  /\ socket' = "open" /\ session' = session + 1 /\ stage' = "connected"
  /\ UNCHANGED <<channelVars, op, error, sent>>

Handshake(ssl, api) ==
  /\ op.step = "idle" /\ socket = "open" /\ stage = "connected"
  /\ op' = Op("handshake", "greeting", ssl, api)
  /\ stage' = "handshake"
  /\ UNCHANGED <<channelVars, socket, session, error, sent>>

-----------------------------------------------------------------------------
(* The handshake *)

\* The server's greeting is in clear and has number 0.  ok tells whether
\* process_handshake accepts it, ssl whether CLIENT_SSL is negotiated.  After
\* a rejection only handshake_op sets the capabilities.
Rejected(e) ==
  /\ Finish(e)
  /\ current_caps' = IF op.api = "async" THEN session ELSE current_caps
  /\ UNCHANGED <<ssl_block, session, sent>>

GreetingAnyStream(ok, ssl) ==
  /\ op.step = "greeting" /\ sequence_number = 0
  /\ sequence_number' = NextSeq(0)
  /\ op.ssl = "disable" => ~ssl
  /\ op.ssl = "require" /\ ok => ssl
  /\ IF ok THEN /\ Step(IF ssl THEN "ssl_request" ELSE "response")
                /\ UNCHANGED <<ssl_block, current_caps, socket, session, stage, error, sent>>
           ELSE Rejected("handshake")

ReadGreeting(ok, ssl) ==
  /\ op.step = "greeting" /\ ssl_block = 0 /\ sequence_number = 0
  /\ sequence_number' = NextSeq(0)
  /\ op.ssl = "disable" => ~ssl
  /\ op.ssl = "require" /\ ok => ssl
  /\ IF ok THEN /\ Step(IF ssl THEN "ssl_request" ELSE "response")
                /\ UNCHANGED <<ssl_block, current_caps, socket, session, stage, error, sent>>
           ELSE Rejected("handshake")

\* The number an earlier session left is not the one of a greeting.
GreetingMismatch ==
  /\ op.step = "greeting" /\ ssl_block = 0 /\ sequence_number # 0
  /\ Finish("sequence_number_mismatch")
  /\ UNCHANGED <<channelVars, session, sent>>

\* The greeting goes through the TLS stream of an earlier session.
GreetingGarbled ==
  /\ op.step = "greeting" /\ ssl_block # 0
  /\ Finish("tls")
  /\ UNCHANGED <<channelVars, session, sent>>

WriteSslRequest ==
  /\ op.step = "ssl_request"
  /\ Write("ssl_request") /\ sequence_number' = NextSeq(sequence_number)
  /\ Step("ssl_handshake")
  /\ UNCHANGED <<ssl_block, current_caps, socket, session, stage, error>>

SslHandshake(ok) ==
  /\ op.step = "ssl_handshake"
  /\ ssl_block' = session
  /\ IF ok THEN Step("response") /\ UNCHANGED <<socket, stage, error>> ELSE Finish("tls")
  /\ UNCHANGED <<sequence_number, current_caps, session, sent>>

WriteResponse ==
  /\ op.step = "response"
  /\ Write("credentials") /\ sequence_number' = NextSeq(sequence_number)
  /\ Step("reply")
  /\ UNCHANGED <<ssl_block, current_caps, socket, session, stage, error>>

\* The server asks for more, or wants the client to read on.
ReadChallenge(more) ==
  /\ op.step = "reply"
  /\ sequence_number' = NextSeq(sequence_number)
  /\ Step(IF more THEN "response" ELSE "reply")
  /\ UNCHANGED <<ssl_block, current_caps, socket, session, stage, error, sent>>

LoggedInNoCaps ==
  /\ op.step = "reply"
  /\ sequence_number' = NextSeq(sequence_number)
  /\ op' = Idle /\ error' = "none" /\ stage' = "established"
  /\ UNCHANGED <<ssl_block, current_caps, socket, session, sent>>

LoggedIn ==
  /\ op.step = "reply"
  /\ sequence_number' = NextSeq(sequence_number)
  /\ op' = Idle /\ error' = "none" /\ stage' = "established"
  /\ current_caps' = session
  /\ UNCHANGED <<ssl_block, socket, session, sent>>

LoginDenied ==
  /\ op.step = "reply"
  /\ sequence_number' = NextSeq(sequence_number)
  /\ Rejected("handshake")

-----------------------------------------------------------------------------
(* Commands; Session has their details *)

Command ==
  /\ op.step = "idle" /\ stage = "established"
  /\ op' = Op("command", "command", "enable", "sync")
  /\ sequence_number' = 0
  /\ UNCHANGED <<ssl_block, current_caps, socket, session, stage, error, sent>>

\* The request, and the length messages of its response.
RunCommand(length) ==
  /\ op.step = "command"
  /\ Write("command")
  /\ sequence_number' = (1 + length) % SeqMod
  /\ Finish("none")
  /\ UNCHANGED <<ssl_block, current_caps, session>>

-----------------------------------------------------------------------------
(* Quitting and closing *)

\* quit_connection, on its own or for close_connection.  After a quit the user
\* does nothing more with the session but close it.
Quit(name) ==
  /\ op.step = "idle" /\ socket = "open"
  /\ op' = Op(name, "quit", "enable", "sync")
  /\ sequence_number' = 0
  /\ stage' = "quit"
  /\ UNCHANGED <<ssl_block, current_caps, socket, session, error, sent>>

CloseClosed ==
  /\ op.step = "idle" /\ socket = "closed"
  /\ error' = "none"
  /\ UNCHANGED <<channelVars, socket, session, stage, op, sent>>

\* closing tells whether the socket closes without an error.  quit itself leaves
\* the socket to the user.
AfterQuitIfOk(e, closing) ==
  IF op.name = "close" /\ e = "none"
    THEN /\ CloseSocket /\ op' = Idle
         /\ error' = IF closing THEN "none" ELSE "close"
    ELSE op' = Idle /\ error' = e /\ UNCHANGED <<socket, stage>>

AfterQuit(e, closing) ==
  IF op.name = "close"
    THEN /\ CloseSocket /\ op' = Idle
         /\ error' = IF e = "none" /\ ~closing THEN "close" ELSE e
    ELSE op' = Idle /\ error' = e /\ UNCHANGED <<socket, stage>>

WriteQuit(closing) ==
  /\ op.step = "quit"
  /\ Write("quit") /\ sequence_number' = NextSeq(sequence_number)
  /\ AfterQuit("none", closing)
  /\ UNCHANGED <<ssl_block, current_caps, session>>

\* The header has been made, and its number used, when the write fails.
WriteQuitFails(closing) ==
  /\ op.step = "quit"
  /\ sequence_number' = NextSeq(sequence_number)
  /\ AfterQuit("io", closing)
  /\ UNCHANGED <<ssl_block, current_caps, session, sent>>

\* The user closes next_layer().
CloseNextLayer ==
  /\ op.step = "idle" /\ socket = "open"
  /\ CloseSocket
  /\ UNCHANGED <<channelVars, session, op, error, sent>>

Writes == {"ssl_request", "response", "command"}

\* A transfer fails, at any point of an operation.
TransferError ==
  /\ op.step \in Writes \cup {"greeting", "reply"}
  /\ sequence_number' = IF op.step \in Writes THEN NextSeq(sequence_number) ELSE sequence_number
  /\ Finish("io")
  /\ UNCHANGED <<ssl_block, current_caps, session, sent>>

-----------------------------------------------------------------------------
UserStep ==
  \/ \E ssl \in Modes, api \in Apis : Connect(ssl, api) \/ Handshake(ssl, api)
  \/ ConnectNextLayer \/ CloseNextLayer
  \/ Command
  \/ \E name \in {"quit", "close"} : Quit(name)
  \/ CloseClosed

Connecting == PhysicalConnect \/ PhysicalConnectFails

Handshaking ==
  \/ \E ok, ssl \in BOOLEAN : ReadGreeting(ok, ssl)
  \/ GreetingMismatch \/ GreetingGarbled
  \/ WriteSslRequest
  \/ \E ok \in BOOLEAN : SslHandshake(ok)
  \/ WriteResponse
  \/ \E more \in BOOLEAN : ReadChallenge(more)
  \/ LoggedIn \/ LoginDenied

Quitting == \E closing \in BOOLEAN : WriteQuit(closing) \/ WriteQuitFails(closing)

Next ==
  \/ UserStep \/ Connecting \/ Handshaking
  \/ \E length \in Lengths : RunCommand(length)
  \/ Quitting
  \/ TransferError

Spec == Init /\ [][Next]_vars

\* A write ends sooner or later, with or without success: that is all that
\* quitting needs.
FairSpec == Spec /\ WF_vars(Quitting)

-----------------------------------------------------------------------------
(* Properties *)

TypeOK ==
  /\ sequence_number \in 0..(SeqMod - 1)
  /\ ssl_block \in 0..session /\ current_caps \in 0..session
  /\ socket \in {"open", "closed"} /\ session \in 0..MaxSessions
  /\ stage \in {"closed", "connected", "handshake", "established", "quit"}
  /\ op \in [name : {"none", "connect", "handshake", "command", "quit", "close"},
             step : {"idle", "connecting", "greeting", "ssl_request", "ssl_handshake",
                     "response", "reply", "command", "quit"},
             ssl : Modes, api : Apis]
  /\ error \in {"none", "connect", "handshake", "sequence_number_mismatch", "tls", "io", "close"}
  /\ sent \subseteq [what : {"ssl_request", "credentials", "command", "quit"},
                     session : 1..session, stream : 0..session]

\* Whatever earlier sessions left in the channel, one that is established uses
\* its own TLS stream or none, and its own capabilities.
EstablishedIsFresh ==
  stage = "established" => ssl_block \in {0, session} /\ current_caps = session

\* The TLS stream of a session that is over is never used to write anything
\* but the farewell of close, least of all a password or a query.
StaleStreamOnlyQuits ==
  \A m \in sent : m.stream \in {0, m.session} \/ m.what = "quit"

\* A connection object that connects for the first time accepts the number of
\* the greeting.
MismatchOnlyOnReuse == error = "sequence_number_mismatch" => session > 1

\* connect: "The underlying socket is closed in case of error", at whichever
\* step of the connect or of the handshake that is; close_connection: "We close the
\* stream regardless of the quit failing or not".
FailuresCloseSocket ==
  [][op'.step = "idle" /\ ((op.name = "connect" /\ error' # "none") \/ op.name = "close")
       => socket' = "closed"]_vars

\* A closing connection gets closed.
ClosingEnds == op.name = "close" ~> socket = "closed"
=============================================================================
