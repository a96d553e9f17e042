-------------------------- MODULE ConnectionProofs --------------------------
(***************************************************************************)
(* What a connection object may carry from one session to the next, for    *)
(* any number of sessions and whatever earlier ones left in the channel:   *)
(* proofs about module Connection.                                         *)
(***************************************************************************)
EXTENDS Connection, TLAPS

HandshakeSteps == {"greeting", "ssl_request", "ssl_handshake", "response", "reply"}

\* The operation and the session a step belongs to.
StepsBelong ==
  /\ op.step = "idle" => op.name = "none"
  /\ op.step = "connecting" => op.name = "connect"
  /\ op.step \in HandshakeSteps => op.name \in {"connect", "handshake"} /\ stage = "handshake"
  /\ op.step = "command" => op.name = "command" /\ stage = "established"
  /\ op.step = "quit" => op.name \in {"quit", "close"} /\ stage = "quit"

\* Before the first session nothing has been done with the channel.
NothingBeforeSession ==
  session = 0 =>
    /\ sequence_number = 0 /\ stage = "closed" /\ socket = "closed" /\ error # "sequence_number_mismatch"
    /\ op.step \in {"idle", "connecting"}

\* A greeting that got through came over no stream of an earlier session.
OwnStreamAfterGreeting ==
  op.step \in HandshakeSteps \ {"greeting"} => ssl_block \in {0, session}

\* The first greeting is expected with the number it has.
FirstGreetingMatches ==
  session = 1 /\ (stage = "connected" \/ op.step = "greeting") => sequence_number = 0

\* The invariant behind the theorems.
Fresh ==
  /\ TypeOK
  /\ StepsBelong /\ NothingBeforeSession /\ OwnStreamAfterGreeting /\ FirstGreetingMatches
  /\ EstablishedIsFresh /\ StaleStreamOnlyQuits /\ MismatchOnlyOnReuse

-----------------------------------------------------------------------------
(* Lemmas *)

\* The number after another one.
LEMMA NextSeqType ==
  ASSUME NEW s \in 0..(SeqMod - 1)
  PROVE  NextSeq(s) \in 0..(SeqMod - 1)
BY SeqModAssumption DEF NextSeq

\* A new connection object.
LEMMA FreshInit == Init => Fresh
<1> SUFFICES ASSUME Init PROVE Fresh
  OBVIOUS
<1>1. TypeOK
  BY SeqModAssumption, MaxSessionsAssumption DEF Init, TypeOK, InitialNumber, Idle, Op, Modes, Apis
<1> QED BY <1>1 DEF Init, Fresh, StepsBelong, NothingBeforeSession, OwnStreamAfterGreeting, FirstGreetingMatches,
  EstablishedIsFresh, StaleStreamOnlyQuits, MismatchOnlyOnReuse, InitialNumber, Idle, Op, HandshakeSteps

\* Every step keeps the types.
LEMMA TypeStep ==
  ASSUME TypeOK, StepsBelong, NothingBeforeSession, [Next]_vars
  PROVE  TypeOK'
<1> USE SeqModAssumption, MaxSessionsAssumption, LengthsAssumption DEF TypeOK, channelVars, Modes, Apis
<1>1. ASSUME NEW ssl \in Modes, NEW api \in Apis, Connect(ssl, api) PROVE TypeOK'
  BY <1>1 DEF Connect, Op
<1>2. ASSUME NEW ssl \in Modes, NEW api \in Apis, Handshake(ssl, api) PROVE TypeOK'
  BY <1>2 DEF Handshake, Op
<1>3. CASE ConnectNextLayer
  BY <1>3 DEF ConnectNextLayer
<1>4. CASE CloseNextLayer
  BY <1>4 DEF CloseNextLayer, CloseSocket
<1>5. CASE Command
  BY <1>5 DEF Command, Op
<1>6. ASSUME NEW name \in {"quit", "close"}, Quit(name) PROVE TypeOK'
  BY <1>6 DEF Quit, Op
<1>7. CASE CloseClosed
  BY <1>7 DEF CloseClosed
<1>8. CASE PhysicalConnect
  BY <1>8 DEF PhysicalConnect, Step
<1>9. CASE PhysicalConnectFails
  BY <1>9 DEF PhysicalConnectFails, Finish, CloseSocket, Idle, Op
<1>10. ASSUME NEW ok \in BOOLEAN, NEW ssl \in BOOLEAN, ReadGreeting(ok, ssl) PROVE TypeOK'
  BY <1>10, NextSeqType DEF ReadGreeting, Rejected, Finish, CloseSocket, Idle, Op, Step
<1>11. CASE GreetingMismatch
  BY <1>11 DEF GreetingMismatch, Finish, CloseSocket, Idle, Op
<1>12. CASE GreetingGarbled
  BY <1>12 DEF GreetingGarbled, Finish, CloseSocket, Idle, Op
<1>13. CASE WriteSslRequest
  BY <1>13, NextSeqType DEF WriteSslRequest, Write, Step, NothingBeforeSession
<1>14. ASSUME NEW ok \in BOOLEAN, SslHandshake(ok) PROVE TypeOK'
  BY <1>14 DEF SslHandshake, Finish, CloseSocket, Idle, Op, Step
<1>15. CASE WriteResponse
  BY <1>15, NextSeqType DEF WriteResponse, Write, Step, NothingBeforeSession
<1>16. ASSUME NEW more \in BOOLEAN, ReadChallenge(more) PROVE TypeOK'
  BY <1>16, NextSeqType DEF ReadChallenge, Step
<1>17. CASE LoggedIn
  BY <1>17, NextSeqType DEF LoggedIn, Idle, Op
<1>18. CASE LoginDenied
  BY <1>18, NextSeqType DEF LoginDenied, Rejected, Finish, CloseSocket, Idle, Op
<1>19. ASSUME NEW length \in Lengths, RunCommand(length) PROVE TypeOK'
  BY <1>19 DEF RunCommand, Write, Finish, CloseSocket, Idle, Op, NothingBeforeSession
<1>20. ASSUME NEW closing \in BOOLEAN, WriteQuit(closing) PROVE TypeOK'
  BY <1>20, NextSeqType DEF WriteQuit, AfterQuit, Write, CloseSocket, Idle, Op, NothingBeforeSession
<1>21. ASSUME NEW closing \in BOOLEAN, WriteQuitFails(closing) PROVE TypeOK'
  BY <1>21, NextSeqType DEF WriteQuitFails, AfterQuit, CloseSocket, Idle, Op
<1>22. CASE TransferError
  BY <1>22, NextSeqType DEF TransferError, Finish, CloseSocket, Idle, Op
<1>23. CASE UNCHANGED vars
  BY <1>23 DEF vars
<1> QED
  BY <1>1, <1>2, <1>3, <1>4, <1>5, <1>6, <1>7, <1>8, <1>9, <1>10, <1>11, <1>12, <1>13, <1>14, <1>15, <1>16,
     <1>17, <1>18, <1>19, <1>20, <1>21, <1>22, <1>23 DEF Next, UserStep, Connecting, Handshaking, Quitting
\* Every step keeps the invariant.
LEMMA FreshStep ==
  ASSUME Fresh, [Next]_vars
  PROVE  Fresh'
<1>t. TypeOK /\ TypeOK'
  BY TypeStep DEF Fresh
<1> USE <1>t DEF TypeOK, Fresh, StepsBelong, NothingBeforeSession, OwnStreamAfterGreeting,
         FirstGreetingMatches, EstablishedIsFresh, StaleStreamOnlyQuits, MismatchOnlyOnReuse,
         HandshakeSteps, channelVars
<1>1. ASSUME NEW ssl \in Modes, NEW api \in Apis, Connect(ssl, api) PROVE Fresh'
  BY <1>1 DEF Connect, Op
<1>2. ASSUME NEW ssl \in Modes, NEW api \in Apis, Handshake(ssl, api) PROVE Fresh'
  BY <1>2 DEF Handshake, Op
<1>3. CASE ConnectNextLayer
  BY <1>3 DEF ConnectNextLayer
<1>4. CASE CloseNextLayer
  BY <1>4 DEF CloseNextLayer, CloseSocket
<1>5. CASE Command
  BY <1>5 DEF Command, Op
<1>6. ASSUME NEW name \in {"quit", "close"}, Quit(name) PROVE Fresh'
  BY <1>6 DEF Quit, Op
<1>7. CASE CloseClosed
  BY <1>7 DEF CloseClosed
<1>8. CASE PhysicalConnect
  BY <1>8 DEF PhysicalConnect, Step
<1>9. CASE PhysicalConnectFails
  BY <1>9 DEF PhysicalConnectFails, Finish, CloseSocket, Idle, Op
<1>10. ASSUME NEW ok \in BOOLEAN, NEW ssl \in BOOLEAN, ReadGreeting(ok, ssl) PROVE Fresh'
  BY <1>10 DEF ReadGreeting, Rejected, Finish, CloseSocket, Idle, Op, Step
<1>11. CASE GreetingMismatch
  BY <1>11 DEF GreetingMismatch, Finish, CloseSocket, Idle, Op
<1>12. CASE GreetingGarbled
  BY <1>12 DEF GreetingGarbled, Finish, CloseSocket, Idle, Op
<1>13. CASE WriteSslRequest
  BY <1>13 DEF WriteSslRequest, Write, Step
<1>14. ASSUME NEW ok \in BOOLEAN, SslHandshake(ok) PROVE Fresh'
  BY <1>14 DEF SslHandshake, Finish, CloseSocket, Idle, Op, Step
<1>15. CASE WriteResponse
  BY <1>15 DEF WriteResponse, Write, Step
<1>16. ASSUME NEW more \in BOOLEAN, ReadChallenge(more) PROVE Fresh'
  BY <1>16 DEF ReadChallenge, Step
<1>17. CASE LoggedIn
  BY <1>17 DEF LoggedIn, Idle, Op
<1>18. CASE LoginDenied
  BY <1>18 DEF LoginDenied, Rejected, Finish, CloseSocket, Idle, Op
<1>19. ASSUME NEW length \in Lengths, RunCommand(length) PROVE Fresh'
  BY <1>19 DEF RunCommand, Write, Finish, CloseSocket, Idle, Op
<1>20. ASSUME NEW closing \in BOOLEAN, WriteQuit(closing) PROVE Fresh'
  BY <1>20 DEF WriteQuit, AfterQuit, Write, CloseSocket, Idle, Op
<1>21. ASSUME NEW closing \in BOOLEAN, WriteQuitFails(closing) PROVE Fresh'
  BY <1>21 DEF WriteQuitFails, AfterQuit, CloseSocket, Idle, Op
<1>22. CASE TransferError
  BY <1>22 DEF TransferError, Writes, Finish, CloseSocket, Idle, Op
<1>23. CASE UNCHANGED vars
  BY <1>23 DEF vars
<1> QED
  BY <1>1, <1>2, <1>3, <1>4, <1>5, <1>6, <1>7, <1>8, <1>9, <1>10, <1>11, <1>12, <1>13, <1>14, <1>15, <1>16,
     <1>17, <1>18, <1>19, <1>20, <1>21, <1>22, <1>23 DEF Next, UserStep, Connecting, Handshaking, Quitting

\* The invariant holds throughout.
LEMMA AlwaysFresh == Spec => []Fresh
BY FreshInit, FreshStep, PTL DEF Spec

-----------------------------------------------------------------------------
(* Theorems *)

\* The channel and the operation in progress are well-typed over any number of
\* sessions.
THEOREM TypeCorrect == Spec => []TypeOK
<1>1. Fresh => TypeOK
  BY DEF Fresh
<1> QED BY <1>1, AlwaysFresh, PTL

\* However many sessions an object has had and however they ended, one that is
\* established has its own TLS stream or none, and the capabilities negotiated in
\* its own handshake: what channel keeps of earlier ones is never used with it.
THEOREM SessionsAreFresh == Spec => []EstablishedIsFresh
<1>1. Fresh => EstablishedIsFresh
  BY DEF Fresh
<1> QED BY <1>1, AlwaysFresh, PTL

\* Nothing but the quit message of close is ever written to the TLS stream of an
\* earlier session, although close leaves that stream in the channel.
THEOREM StaleStreamIsNotWritten == Spec => []StaleStreamOnlyQuits
<1>1. Fresh => StaleStreamOnlyQuits
  BY DEF Fresh
<1> QED BY <1>1, AlwaysFresh, PTL

\* The number of the first greeting is always accepted: only an object that is
\* connected again can refuse one.
THEOREM FirstConnectMatches == Spec => []MismatchOnlyOnReuse
<1>1. Fresh => MismatchOnlyOnReuse
  BY DEF Fresh
<1> QED BY <1>1, AlwaysFresh, PTL

\* A connect that fails, at whichever step, and a close, whether or not the quit
\* could be written, leave a closed socket behind.
THEOREM SocketIsClosed == Spec => FailuresCloseSocket
<1> DEFINE Closes == op'.step = "idle" /\ ((op.name = "connect" /\ error' # "none") \/ op.name = "close")
                       => socket' = "closed"
<1>1. ASSUME Fresh, [Next]_vars PROVE [Closes]_vars
  <2> USE <1>1 DEF Fresh, TypeOK, StepsBelong, HandshakeSteps
  <2> SUFFICES ASSUME ~UNCHANGED vars PROVE Closes
    OBVIOUS
  <2>1. CASE \E ssl \in Modes, api \in Apis : Connect(ssl, api) \/ Handshake(ssl, api)
    BY <2>1 DEF Connect, Handshake
  <2>2. CASE ConnectNextLayer \/ CloseNextLayer \/ Command \/ CloseClosed
    BY <2>2 DEF ConnectNextLayer, CloseNextLayer, Command, CloseClosed
  <2>3. CASE \E name \in {"quit", "close"} : Quit(name)
    BY <2>3 DEF Quit
  <2>4. CASE Connecting
    BY <2>4 DEF Connecting, PhysicalConnect, PhysicalConnectFails, Step, Finish, CloseSocket
  <2>5. CASE \E ok, ssl \in BOOLEAN : ReadGreeting(ok, ssl)
    BY <2>5 DEF ReadGreeting, Rejected, Finish, CloseSocket, Step
  <2>6. CASE GreetingMismatch \/ GreetingGarbled \/ LoginDenied \/ TransferError
    BY <2>6 DEF GreetingMismatch, GreetingGarbled, LoginDenied, TransferError, Writes, Rejected, Finish, CloseSocket
  <2>7. CASE WriteSslRequest \/ WriteResponse \/ LoggedIn
    BY <2>7 DEF WriteSslRequest, WriteResponse, LoggedIn, Step
  <2>8. CASE \E ok \in BOOLEAN : SslHandshake(ok)
    BY <2>8 DEF SslHandshake, Finish, CloseSocket, Step
  <2>9. CASE \E more \in BOOLEAN : ReadChallenge(more)
    BY <2>9 DEF ReadChallenge, Step
  <2>10. CASE \E length \in Lengths : RunCommand(length)
    BY <2>10 DEF RunCommand, Finish, CloseSocket
  <2>11. CASE Quitting
    BY <2>11 DEF Quitting, WriteQuit, WriteQuitFails, AfterQuit, CloseSocket
  <2> QED
    BY <2>1, <2>2, <2>3, <2>4, <2>5, <2>6, <2>7, <2>8, <2>9, <2>10, <2>11 DEF Next, UserStep, Handshaking
<1> QED BY <1>1, AlwaysFresh, PTL DEF Spec, FailuresCloseSocket
=============================================================================
