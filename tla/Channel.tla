------------------------------- MODULE Channel -------------------------------
(***************************************************************************)
(* The message layer of the client: class channel of                       *)
(* detail/protocol/channel.hpp and its read_op and write_op, talking to a  *)
(* peer that frames messages as the MySQL protocol prescribes.             *)
(*                                                                         *)
(* A message longer than MaxPacket travels in several frames.  Every frame *)
(* has a header with its size and a one-byte sequence number, shared by    *)
(* both directions of an exchange and reset by the client when it starts a *)
(* new request.  A step of this module is one completed transfer on the    *)
(* socket, which is where the composed asynchronous operations yield.      *)
(*                                                                         *)
(* A byte is <<k, i>>: byte i of the k-th message sent in its direction.   *)
(* The field "follow" of a message stands for its contents as far as the   *)
(* caller acts on them: whether a reply, or another reply, follows it.     *)
(***************************************************************************)
EXTENDS Naturals, Sequences

CONSTANTS
  MaxPacket,      \* MAX_PACKET_SIZE, 0xffffff in the code
  SeqMod,         \* values of the sequence number, 256 in the code
  RequestSizes,   \* sizes of the messages the client writes
  ReplySizes,     \* sizes of the messages the server writes
  MaxRequests,    \* bound on the requests of a behaviour
  MaxReplies      \* bound on the replies of a behaviour

ASSUME MaxPacketAssumption == MaxPacket \in Nat \ {0}
ASSUME SeqModAssumption == SeqMod \in Nat \ {0}
ASSUME SizesAssumption == RequestSizes \subseteq Nat /\ ReplySizes \subseteq Nat
ASSUME BoundsAssumption == MaxRequests \in Nat /\ MaxReplies \in Nat

VARIABLES
  sequence_number,  \* channel::sequence_number_
  buffer,           \* the bytestring given to channel::read
  op,               \* the operation in progress and its local variables
  awaiting,         \* "reply" while the caller has to read another reply
  error,            \* the error code of the last operation
  toServer,         \* frames on their way to the server
  toClient,         \* frames on their way to the client
  srv,              \* the server's end of the protocol
  requests, served, replies, delivered   \* see MessageChannel

clientVars == <<sequence_number, buffer, op, awaiting, error>>
logVars == <<requests, served, replies, delivered>>
vars == <<clientVars, toServer, toClient, srv, logVars>>

Byte == (Nat \X Nat)
ZeroByte == <<0, 0>>
Bytes(k, size) == [i \in 1..size |-> <<k, i>>]

Follow == {"reply", "nothing"}
Message == [body : Seq(Byte), follow : Follow]
Frame == [size : Nat, seq : 0..(SeqMod - 1), body : Seq(Byte), follow : Follow]

Op == [kind : {"idle", "write", "read_header", "read_body"}, total : Nat, size : Nat]
Started(kind) == [kind |-> kind, total |-> 0, size |-> 0]
Idle == Started("idle")

\* The server: what it does next, the sequence number it will use or expects,
\* what it has read of a request, and how much of a reply it has sent.
Srv == [state : {"read", "answer", "write", "refused"}, seq : 0..(SeqMod - 1),
        buf : Seq(Byte), off : Nat]

(* Mutations, here and below, are what a bug would make of the definition
   that follows them; no behaviour of the module uses them. *)
NextSeqNoWrap(s) == s + 1

NextSeq(s) == (s + 1) % SeqMod

\* compute_size_to_write: the payload of the next frame.
compute_size_to_write(bufsize, transferred) ==
  IF bufsize - transferred < MaxPacket THEN bufsize - transferred ELSE MaxPacket

FrameNumberedLate(m, total, size, seq) ==
  [size |-> size, seq |-> NextSeq(seq), body |-> SubSeq(m.body, total + 1, total + size),
   follow |-> m.follow]
FrameRestarted(m, total, size, seq) ==
  [size |-> size, seq |-> seq, body |-> SubSeq(m.body, 1, size), follow |-> m.follow]
FramePadded(m, total, size, seq) ==
  [size |-> MaxPacket, seq |-> seq, follow |-> m.follow,
   body |-> [i \in 1..MaxPacket |-> IF i <= size THEN m.body[total + i] ELSE ZeroByte]]

\* The frame that carries bytes total+1 .. total+size of message m.
FrameOf(m, total, size, seq) ==
  [size |-> size, seq |-> seq, body |-> SubSeq(m.body, total + 1, total + size),
   follow |-> m.follow]

LastOf(log) == log[Len(log)]

Init ==
  /\ sequence_number = 0
  /\ buffer = <<>>
  /\ op = Idle
  /\ awaiting = "nothing"
  /\ error = "none"
  /\ toServer = <<>>
  /\ toClient = <<>>
  /\ srv = [state |-> "read", seq |-> 0, buf |-> <<>>, off |-> 0]
  /\ requests = <<>> /\ served = <<>> /\ replies = <<>> /\ delivered = <<>>

-----------------------------------------------------------------------------
(* The client *)

StartRequestNoReset(size, follow) ==
  /\ op.kind = "idle" /\ awaiting = "nothing" /\ error = "none"
  /\ Len(requests) < MaxRequests
  /\ requests' = Append(requests, [body |-> Bytes(Len(requests) + 1, size), follow |-> follow])
  /\ op' = Started("write")
  /\ UNCHANGED <<sequence_number, buffer, awaiting, error, toServer, toClient, srv,
                 served, replies, delivered>>

\* A network algorithm resets the sequence number and writes a request.
StartRequest(size, follow) ==
  /\ op.kind = "idle" /\ awaiting = "nothing" /\ error = "none"
  /\ Len(requests) < MaxRequests
  /\ requests' = Append(requests, [body |-> Bytes(Len(requests) + 1, size), follow |-> follow])
  /\ sequence_number' = 0
  /\ op' = Started("write")
  /\ UNCHANGED <<buffer, awaiting, error, toServer, toClient, srv, served, replies, delivered>>

\* One turn of the write loop: a header and at most MaxPacket bytes.  The loop
\* ends once every byte is out: a message that fills its last frame exactly is
\* not followed by an empty frame.
WriteFrame ==
  LET m == LastOf(requests)
      size == compute_size_to_write(Len(m.body), op.total)
  IN
  /\ op.kind = "write"
  /\ toServer' = Append(toServer, FrameOf(m, op.total, size, sequence_number))
  /\ sequence_number' = NextSeq(sequence_number)
  /\ \/ /\ op.total + size < Len(m.body)
        /\ op' = [op EXCEPT !.total = @ + size]
        /\ UNCHANGED awaiting
     \/ /\ op.total + size >= Len(m.body)
        /\ op' = Idle
        /\ awaiting' = m.follow
  /\ UNCHANGED <<buffer, error, toClient, srv, logVars>>

\* The caller reads the next reply: the buffer is cleared first.
StartRead ==
  /\ op.kind = "idle" /\ awaiting = "reply" /\ error = "none"
  /\ buffer' = <<>>
  /\ op' = Started("read_header")
  /\ UNCHANGED <<sequence_number, awaiting, error, toServer, toClient, srv, logVars>>

\* process_header_read with the sequence number it expects.
ReadHeader ==
  /\ op.kind = "read_header" /\ toClient # <<>>
  /\ Head(toClient).seq = sequence_number
  /\ sequence_number' = NextSeq(sequence_number)
  /\ op' = [op EXCEPT !.kind = "read_body", !.size = Head(toClient).size]
  /\ buffer' = buffer \o [i \in 1..Head(toClient).size |-> ZeroByte]
  /\ UNCHANGED <<awaiting, error, toServer, toClient, srv, logVars>>

\* process_header_read with any other number: the operation fails and leaves
\* the body of the frame unread.
HeaderMismatch ==
  /\ op.kind = "read_header" /\ toClient # <<>>
  /\ Head(toClient).seq # sequence_number
  /\ op' = Idle
  /\ error' = "sequence_number_mismatch"
  /\ UNCHANGED <<sequence_number, buffer, awaiting, toServer, toClient, srv, logVars>>

\* The body goes to the end of what was read before; a full frame means that
\* the message goes on.
ReadBody ==
  LET f == Head(toClient) IN
  /\ op.kind = "read_body"
  /\ buffer' = [i \in 1..Len(buffer) |->
       IF i \in (op.total + 1)..(op.total + op.size) THEN f.body[i - op.total] ELSE buffer[i]]
  /\ toClient' = Tail(toClient)
  /\ \/ /\ op.size = MaxPacket
        /\ op' = [op EXCEPT !.kind = "read_header", !.total = @ + op.size]
        /\ UNCHANGED <<awaiting, delivered>>
     \/ /\ op.size # MaxPacket
        /\ op' = Idle
        /\ delivered' = Append(delivered, [body |-> buffer', follow |-> f.follow])
        /\ awaiting' = f.follow
  /\ UNCHANGED <<sequence_number, error, toServer, srv, requests, served, replies>>

\* The transfer an operation waits for fails: the operation ends with its error.
\* The header of the frame that was not written has used up a number.
TransferError ==
  /\ op.kind # "idle"
  /\ op' = Idle
  /\ error' = "io"
  /\ sequence_number' = IF op.kind = "write" THEN NextSeq(sequence_number) ELSE sequence_number
  /\ UNCHANGED <<buffer, awaiting, toServer, toClient, srv, logVars>>

-----------------------------------------------------------------------------
(* The server: reads a request, answers it with any number of replies, and *)
(* starts every request with sequence number 0.                            *)

\* The server at the end of a message it has read or written.
AfterMessage(follow) ==
  IF follow = "reply"
    THEN [state |-> "answer", seq |-> NextSeq(srv.seq), buf |-> <<>>, off |-> 0]
    ELSE [state |-> "read", seq |-> 0, buf |-> <<>>, off |-> 0]

ServerRead ==
  LET f == Head(toServer)
      buf == srv.buf \o f.body
  IN
  /\ srv.state = "read" /\ toServer # <<>> /\ f.seq = srv.seq
  /\ toServer' = Tail(toServer)
  /\ \/ /\ f.size = MaxPacket
        /\ srv' = [srv EXCEPT !.seq = NextSeq(@), !.buf = buf]
        /\ UNCHANGED served
     \/ /\ f.size # MaxPacket
        /\ served' = Append(served, [body |-> buf, follow |-> f.follow])
        /\ srv' = AfterMessage(f.follow)
  /\ UNCHANGED <<clientVars, toClient, requests, replies, delivered>>

\* The error packet for a frame out of order; what it says is left out.
Refusal == [body |-> <<>>, follow |-> "nothing"]

\* A server that gets another number than the one it waits for says so, with
\* that number, and is done.
ServerMismatch ==
  /\ srv.state = "read" /\ toServer # <<>> /\ Head(toServer).seq # srv.seq
  /\ replies' = Append(replies, Refusal)
  /\ toClient' = Append(toClient, FrameOf(Refusal, 0, 0, srv.seq))
  /\ srv' = [srv EXCEPT !.state = "refused"]
  /\ UNCHANGED <<clientVars, toServer, requests, served, delivered>>

ServerAnswer(size, follow) ==
  /\ srv.state = "answer"
  /\ follow = "reply" => Len(replies) + 1 < MaxReplies
  /\ replies' = Append(replies, [body |-> Bytes(Len(replies) + 1, size), follow |-> follow])
  /\ srv' = [srv EXCEPT !.state = "write", !.off = 0]
  /\ UNCHANGED <<clientVars, toServer, toClient, requests, served, delivered>>

\* The protocol ends a message with a frame shorter than MaxPacket, an empty
\* one if need be.
ServerWrite ==
  LET m == LastOf(replies)
      size == compute_size_to_write(Len(m.body), srv.off)
  IN
  /\ srv.state = "write"
  /\ toClient' = Append(toClient, FrameOf(m, srv.off, size, srv.seq))
  /\ srv' = IF size = MaxPacket
              THEN [srv EXCEPT !.seq = NextSeq(@), !.off = @ + size]
              ELSE AfterMessage(m.follow)
  /\ UNCHANGED <<clientVars, toServer, logVars>>

-----------------------------------------------------------------------------
Client ==
  \/ \E size \in RequestSizes, follow \in Follow : StartRequest(size, follow)
  \/ WriteFrame
  \/ StartRead
  \/ ReadHeader
  \/ HeaderMismatch
  \/ ReadBody
  \/ TransferError

Server ==
  \/ ServerRead
  \/ ServerMismatch
  \/ \E size \in ReplySizes, follow \in Follow : ServerAnswer(size, follow)
  \/ ServerWrite

Next == Client \/ Server

Spec == Init /\ [][Next]_vars

\* The io_context keeps running the handlers of a started operation, callers
\* read a response to its end, and the server keeps serving.  Nobody has to
\* start a request, and no transfer has to fail.
Fairness ==
  /\ WF_vars(WriteFrame) /\ WF_vars(StartRead)
  /\ WF_vars(ReadHeader) /\ WF_vars(HeaderMismatch) /\ WF_vars(ReadBody)
  /\ WF_vars(Server)

FairSpec == Spec /\ Fairness

-----------------------------------------------------------------------------
(* Properties *)

TypeOK ==
  /\ sequence_number \in 0..(SeqMod - 1)
  /\ buffer \in Seq(Byte)
  /\ op \in Op
  /\ awaiting \in Follow
  /\ error \in {"none", "sequence_number_mismatch", "io"}
  /\ toServer \in Seq(Frame) /\ toClient \in Seq(Frame)
  /\ srv \in Srv
  /\ requests \in Seq(Message) /\ served \in Seq(Message)
  /\ replies \in Seq(Message) /\ delivered \in Seq(Message)

\* write does what the protocol says unless the message fills its last frame.
ExactMultiple(size) == \E k \in 1..size : size = k * MaxPacket
NoneExact == \A i \in 1..Len(requests) : ~ExactMultiple(Len(requests[i].body))

Agreed == error # "sequence_number_mismatch" /\ srv.state # "refused"

\* Splitting, joining, wrapping around and several requests in flight never
\* make two conforming ends disagree about a sequence number: until a request
\* is a positive multiple of MAX_PACKET_SIZE, neither process_header_read nor
\* the server refuses a frame.
NoFalseMismatch == NoneExact => Agreed

(* Why they agree: the inductive invariant of ChannelProofs. *)

Ends(f) == f.size # MaxPacket

\* Request frames: every request starts at 0, every frame adds one, and only
\* the last request in flight can be one the server answers.
RequestChain ==
  \A i \in 1..(Len(toServer) - 1) :
    /\ toServer[i + 1].seq = IF Ends(toServer[i]) THEN 0 ELSE NextSeq(toServer[i].seq)
    /\ Ends(toServer[i]) => toServer[i].follow = "nothing"

\* The first request frame in flight is the one the server waits for.
RequestHead == toServer # <<>> => srv.state = "read" /\ srv.seq = toServer[1].seq

\* A client that writes goes on from the last frame in flight.
WritingEnd ==
  op.kind = "write" =>
    /\ awaiting = "nothing" /\ toClient = <<>> /\ srv.state = "read"
    /\ IF toServer = <<>>
         THEN sequence_number = srv.seq
         ELSE IF op.total = 0
           THEN sequence_number = 0 /\ Ends(LastOf(toServer)) /\ LastOf(toServer).follow = "nothing"
           ELSE sequence_number = NextSeq(LastOf(toServer).seq) /\ ~Ends(LastOf(toServer))

\* Between requests nothing is on its way to the client and the server is at,
\* or will get to, the start of a request.
QuietEnd ==
  op.kind = "idle" /\ awaiting = "nothing" /\ error = "none" =>
    /\ toClient = <<>> /\ srv.state = "read"
    /\ IF toServer = <<>> THEN srv.seq = 0 ELSE Ends(LastOf(toServer)) /\ LastOf(toServer).follow = "nothing"

\* A client that waits for a reply: the request is still on its way, or the
\* numbers of the reply frames in flight lead from its number to the server's.
AwaitingRequest ==
  awaiting = "reply" /\ error = "none" /\ toServer # <<>> =>
    /\ toClient = <<>> /\ op.kind # "read_body"
    /\ Ends(LastOf(toServer)) /\ LastOf(toServer).follow = "reply"
    /\ sequence_number = NextSeq(LastOf(toServer).seq)

ReplyChain ==
  \A i \in 1..(Len(toClient) - 1) :
    /\ toClient[i + 1].seq = NextSeq(toClient[i].seq)
    /\ Ends(toClient[i]) => toClient[i].follow = "reply"

AwaitingReply ==
  awaiting = "reply" /\ error = "none" /\ toServer = <<>> =>
    /\ ReplyChain
    /\ IF toClient = <<>>
         THEN srv.state \in {"answer", "write"} /\ srv.seq = sequence_number
         ELSE /\ IF op.kind = "read_body"
                   THEN sequence_number = NextSeq(toClient[1].seq)
                   ELSE sequence_number = toClient[1].seq
              /\ IF Ends(LastOf(toClient)) /\ LastOf(toClient).follow = "nothing"
                   THEN srv.state = "read" /\ srv.seq = 0
                   ELSE srv.state \in {"answer", "write"} /\ srv.seq = NextSeq(LastOf(toClient).seq)

\* Which operation is in progress, and how far a write has got.
OpShape ==
  /\ op.kind # "idle" => error = "none"
  /\ op.kind \in {"read_header", "read_body"} => awaiting = "reply"
  /\ op.kind = "read_body" => toClient # <<>> /\ op.size = toClient[1].size
  /\ op.kind = "write" =>
       /\ requests # <<>> /\ Len(LastOf(requests).body) \in RequestSizes
       /\ op.total <= Len(LastOf(requests).body)
       /\ \E j \in 0..op.total : op.total = j * MaxPacket

FramesAgree ==
  /\ Agreed /\ RequestChain /\ RequestHead /\ WritingEnd /\ QuietEnd
  /\ AwaitingRequest /\ AwaitingReply /\ OpShape

SeqAgreement == NoneExact => FramesAgree

\* The client waits for a reply, nothing is in flight and the server waits for
\* the rest of a request the client considers sent.
PeerStarves ==
  /\ error = "none" /\ awaiting = "reply"
  /\ op.kind \in {"idle", "read_header"}
  /\ toServer = <<>> /\ toClient = <<>> /\ srv.state = "read"

\* channel::write leaves the server waiting for more only when the message
\* is a positive multiple of MAX_PACKET_SIZE, for which it writes no closing
\* empty frame although channel::read expects one.
StarvesOnlyAtExactMultiple ==
  PeerStarves => ExactMultiple(Len(LastOf(requests).body))

\* What channel::read and channel::write exchange is a reliable queue of
\* messages in each direction.
SentMessage ==
  {[body |-> Bytes(k, size), follow |-> follow] :
     k \in 1..(MaxRequests + MaxReplies), size \in RequestSizes \cup ReplySizes, follow \in Follow}
  \cup {Refusal}
MC == INSTANCE MessageChannel WITH Message <- SentMessage
ReliableMessages == MC!Spec

\* A started read or write ends, with a result or an error, until a request fills
\* its last frame and the server waits for the rest of it.
OperationsComplete == op.kind # "idle" ~> (op.kind = "idle" \/ ~NoneExact)

\* A caller that waits for the replies to its request gets the last of them,
\* or an error, with the same exception.
RepliesArrive == awaiting = "reply" ~> (awaiting = "nothing" \/ error # "none" \/ ~NoneExact)
=============================================================================
