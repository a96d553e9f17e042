---------------------------- MODULE ChannelProofs ----------------------------
(***************************************************************************)
(* Proofs about the message layer for every packet size limit, every       *)
(* number of sequence numbers and all message sizes.                       *)
(***************************************************************************)
EXTENDS Channel, TLAPS

LEMMA NextSeqType ==
  ASSUME NEW s \in 0..(SeqMod - 1)
  PROVE  NextSeq(s) \in 0..(SeqMod - 1)
  BY SeqModAssumption DEF NextSeq

LEMMA WriteSize ==
  ASSUME NEW len \in Nat, NEW done \in Nat, done <= len
  PROVE  /\ compute_size_to_write(len, done) \in Nat
         /\ compute_size_to_write(len, done) <= MaxPacket
         /\ done + compute_size_to_write(len, done) <= len
  BY MaxPacketAssumption DEF compute_size_to_write

LEMMA BytesType ==
  ASSUME NEW k \in Nat, NEW size \in Nat
  PROVE  Bytes(k, size) \in Seq(Byte) /\ Len(Bytes(k, size)) = size
  BY DEF Bytes, Byte

LEMMA FrameType ==
  ASSUME NEW m \in Message, NEW total \in Nat, NEW size \in Nat,
         total + size <= Len(m.body), NEW seq \in 0..(SeqMod - 1)
  PROVE  FrameOf(m, total, size, seq) \in Frame
  BY DEF FrameOf, Frame, Message

LEMMA ZeroFill ==
  ASSUME NEW n \in Nat
  PROVE  [i \in 1..n |-> ZeroByte] \in Seq(Byte)
  BY DEF ZeroByte, Byte

-----------------------------------------------------------------------------
\* A write in progress has a request to write, and is not past its end.  This
\* is what keeps the payload of a frame inside the message.
WriteInRange ==
  /\ op.kind = "write" => requests # <<>> /\ op.total <= Len(LastOf(requests).body)
  /\ op.kind = "read_body" => toClient # <<>> /\ op.size = Len(toClient[1].body)
  /\ srv.state = "write" => replies # <<>> /\ srv.off <= Len(LastOf(replies).body)
  /\ \A i \in 1..Len(toClient) : toClient[i].size = Len(toClient[i].body)

TypeInv == TypeOK /\ WriteInRange

LEMMA TypeInit == Init => TypeInv
<1> SUFFICES ASSUME Init PROVE TypeInv
  OBVIOUS
<1>1. 0 \in 0..(SeqMod - 1)
  BY SeqModAssumption
<1>2. Idle \in Op /\ Idle.kind = "idle"
  BY DEF Idle, Started, Op
<1>3. TypeOK
  <2>1. srv \in Srv
    BY <1>1 DEF Init, Srv
  <2> QED
    BY <1>1, <1>2, <2>1 DEF Init, TypeOK, Follow
<1>4. WriteInRange
  BY <1>2 DEF Init, WriteInRange
<1> QED
  BY <1>3, <1>4 DEF TypeInv

\* What the invariant says of the last message of a log, and of a queue.
LEMMA LastType ==
  ASSUME NEW S, NEW log \in Seq(S), log # <<>>
  PROVE  LastOf(log) \in S
  BY DEF LastOf

LEMMA AfterMessageType ==
  ASSUME srv \in Srv, NEW follow
  PROVE  AfterMessage(follow) \in Srv /\ AfterMessage(follow).state # "write"
<1>1. NextSeq(srv.seq) \in 0..(SeqMod - 1) /\ 0 \in 0..(SeqMod - 1)
  BY NextSeqType, SeqModAssumption DEF Srv
<1> QED
  BY <1>1 DEF AfterMessage, Srv

LEMMA TypeNext == TypeInv /\ [Next]_vars => TypeInv'
<1> SUFFICES ASSUME TypeInv, [Next]_vars PROVE TypeInv'
  OBVIOUS
<1>1. ASSUME NEW size \in RequestSizes, NEW follow \in Follow, StartRequest(size, follow)
      PROVE  TypeInv'
  <2>1. [body |-> Bytes(Len(requests) + 1, size), follow |-> follow] \in Message
    BY BytesType, SizesAssumption DEF Message, TypeInv, TypeOK
  <2>2. requests' \in Seq(Message) /\ requests' # <<>>
    <3>1. requests \in Seq(Message)
      BY DEF TypeInv, TypeOK
    <3> QED
      BY <1>1, <2>1, <3>1 DEF StartRequest
  <2>3. LastOf(requests').body \in Seq(Byte)
    BY <2>2, LastType DEF Message
  <2>4. op' \in Op /\ op'.kind = "write" /\ op'.total = 0
    BY <1>1 DEF StartRequest, Started, Op
  <2>5. sequence_number' \in 0..(SeqMod - 1)
    BY <1>1, SeqModAssumption DEF StartRequest
  <2>6. TypeOK'
    BY <1>1, <2>2, <2>4, <2>5 DEF StartRequest, TypeInv, TypeOK
  <2>7. WriteInRange'
    BY <1>1, <2>2, <2>3, <2>4 DEF StartRequest, TypeInv, WriteInRange
  <2> QED
    BY <2>6, <2>7 DEF TypeInv
<1>2. CASE WriteFrame
  <2> DEFINE m == LastOf(requests)
             size == compute_size_to_write(Len(m.body), op.total)
             f == FrameOf(m, op.total, size, sequence_number)
  <2>1. m \in Message /\ op.total \in Nat /\ op.total <= Len(m.body)
    BY <1>2, LastType DEF WriteFrame, TypeInv, TypeOK, WriteInRange, Op
  <2>2. size \in Nat /\ op.total + size <= Len(m.body)
    <3>1. Len(m.body) \in Nat
      BY <2>1 DEF Message
    <3> HIDE DEF m
    <3> QED
      BY <2>1, <3>1, WriteSize
  <2>3. f \in Frame
    BY <2>1, <2>2, FrameType DEF TypeInv, TypeOK
  <2>4. toServer' \in Seq(Frame)
    BY <1>2, <2>3 DEF WriteFrame, TypeInv, TypeOK
  <2>5. sequence_number' \in 0..(SeqMod - 1)
    BY <1>2, NextSeqType DEF WriteFrame, TypeInv, TypeOK
  <2>6. /\ op' \in Op /\ awaiting' \in Follow
        /\ op'.kind = "write" => op'.total <= Len(m.body)
        /\ op'.kind # "read_body"
    <3>1. CASE op.total + size < Len(m.body)
      <4>1. op' = [op EXCEPT !.total = @ + size] /\ UNCHANGED awaiting /\ op.kind = "write"
        BY <1>2, <2>1, <2>2, <3>1 DEF WriteFrame, Message
      <4>2. op \in Op /\ awaiting \in Follow
        BY DEF TypeInv, TypeOK
      <4> HIDE DEF size, m
      <4> QED
        BY <2>1, <2>2, <3>1, <4>1, <4>2 DEF Op
    <3>2. CASE op.total + size >= Len(m.body)
      <4>1. op' = Idle /\ awaiting' = m.follow
        BY <1>2, <2>1, <2>2, <3>2 DEF WriteFrame, Message
      <4> QED
        BY <2>1, <4>1 DEF Op, Idle, Started, Message
    <3> QED
      BY <2>1, <2>2, <3>1, <3>2 DEF Message
  <2>7. TypeOK'
    BY <1>2, <2>4, <2>5, <2>6 DEF WriteFrame, TypeInv, TypeOK, logVars
  <2>8. WriteInRange'
    BY <1>2, <2>6 DEF WriteFrame, TypeInv, WriteInRange, logVars
  <2> QED
    BY <2>7, <2>8 DEF TypeInv
<1>3. CASE StartRead
  BY <1>3 DEF StartRead, TypeInv, TypeOK, WriteInRange, logVars, Started, Op
<1>4. CASE ReadHeader
  <2>1. Head(toClient) = toClient[1] /\ toClient[1] \in Frame
    BY <1>4 DEF ReadHeader, TypeInv, TypeOK
  <2>2. [i \in 1..Head(toClient).size |-> ZeroByte] \in Seq(Byte)
    BY <2>1, ZeroFill DEF Frame
  <2>3. TypeOK'
    <3>1. sequence_number' \in 0..(SeqMod - 1)
      BY <1>4, NextSeqType DEF ReadHeader, TypeInv, TypeOK
    <3>2. buffer' \in Seq(Byte)
      <4>1. buffer \in Seq(Byte)
        BY DEF TypeInv, TypeOK
      <4>2. buffer' = buffer \o [i \in 1..Head(toClient).size |-> ZeroByte]
        BY <1>4 DEF ReadHeader
      <4> QED
        BY <2>2, <4>1, <4>2
    <3>3. op' \in Op
      BY <1>4, <2>1 DEF ReadHeader, TypeInv, TypeOK, Op, Frame
    <3> QED
      BY <1>4, <3>1, <3>2, <3>3 DEF ReadHeader, TypeInv, TypeOK, logVars
  <2>4. toClient[1].size = Len(toClient[1].body)
    <3>1. Len(toClient) \in Nat /\ Len(toClient) # 0
      BY <1>4 DEF ReadHeader, TypeInv, TypeOK
    <3> QED
      BY <3>1 DEF TypeInv, WriteInRange
  <2>5. op'.kind = "read_body" /\ op'.size = toClient[1].size
    BY <1>4, <2>1 DEF ReadHeader, TypeInv, TypeOK, Op
  <2>6. WriteInRange'
    BY <1>4, <2>4, <2>5 DEF ReadHeader, TypeInv, WriteInRange, logVars
  <2> QED
    BY <2>3, <2>6 DEF TypeInv
<1>5. CASE HeaderMismatch
  BY <1>5 DEF HeaderMismatch, TypeInv, TypeOK, WriteInRange, logVars, Idle, Started, Op
<1>6. CASE ReadBody
  <2> DEFINE f == Head(toClient)
  <2>1. f \in Frame /\ op.size = Len(f.body) /\ toClient' = Tail(toClient) /\ toClient # <<>>
    BY <1>6 DEF ReadBody, TypeInv, TypeOK, WriteInRange
  <2>2. buffer' \in Seq(Byte)
    <3>1. \A i \in (op.total + 1)..(op.total + op.size) : f.body[i - op.total] \in Byte
      <4>1. op.total \in Nat /\ op.size \in Nat /\ f.body \in Seq(Byte)
        BY <2>1 DEF TypeInv, TypeOK, Op, Frame
      <4> HIDE DEF f
      <4> QED
        BY <2>1, <4>1
    <3> QED
      BY <1>6, <3>1 DEF ReadBody, TypeInv, TypeOK
  <2>3. toClient' \in Seq(Frame) /\ \A i \in 1..Len(toClient') : toClient'[i] = toClient[i + 1]
                                 /\ Len(toClient') = Len(toClient) - 1
    BY <2>1 DEF TypeInv, TypeOK
  <2>4. /\ op' \in Op /\ op'.kind \in {"idle", "read_header"}
        /\ awaiting' \in Follow /\ delivered' \in Seq(Message)
    <3>1. CASE op.size = MaxPacket
      <4>1. /\ op' = [op EXCEPT !.kind = "read_header", !.total = @ + op.size]
            /\ UNCHANGED <<awaiting, delivered>>
        BY <1>6, <3>1 DEF ReadBody
      <4>2. op \in Op
        BY DEF TypeInv, TypeOK
      <4>3. op' \in Op /\ op'.kind = "read_header"
        <5>1. op.total + op.size \in Nat
          BY <4>2 DEF Op
        <5> QED
          BY <4>1, <4>2, <5>1 DEF Op
      <4> QED
        BY <4>1, <4>3 DEF TypeInv, TypeOK
    <3>2. CASE op.size # MaxPacket
      <4>1. [body |-> buffer', follow |-> f.follow] \in Message /\ f.follow \in Follow
        BY <2>1, <2>2 DEF Message, Frame
      <4>2. /\ op' = Idle /\ awaiting' = f.follow
            /\ delivered' = Append(delivered, [body |-> buffer', follow |-> f.follow])
        BY <1>6, <3>2 DEF ReadBody
      <4>3. op' \in Op /\ op'.kind = "idle"
        BY <4>2 DEF Op, Idle, Started
      <4> QED
        BY <4>1, <4>2, <4>3 DEF TypeInv, TypeOK
    <3> QED
      BY <3>1, <3>2
  <2>5. TypeOK'
    BY <1>6, <2>2, <2>3, <2>4 DEF ReadBody, TypeInv, TypeOK
  <2>6. WriteInRange'
    <3>1. \A i \in 1..Len(toClient') : toClient'[i].size = Len(toClient'[i].body)
      <4>1. \A i \in 1..Len(toClient) : toClient[i].size = Len(toClient[i].body)
        BY DEF TypeInv, WriteInRange
      <4>2. Len(toClient) \in Nat
        BY DEF TypeInv, TypeOK
      <4> QED
        BY <2>3, <4>1, <4>2
    <3> QED
      BY <1>6, <2>4, <3>1 DEF ReadBody, TypeInv, WriteInRange
  <2> QED
    BY <2>5, <2>6 DEF TypeInv
<1>7. CASE TransferError
  <2>1. sequence_number \in Nat
    BY SeqModAssumption DEF TypeInv, TypeOK
  <2>2. sequence_number' \in 0..(SeqMod - 1)
    BY <1>7, <2>1, NextSeqType DEF TransferError, TypeInv, TypeOK
  <2> QED
    BY <1>7, <2>2 DEF TransferError, TypeInv, TypeOK, WriteInRange, logVars, Idle, Started, Op
<1>8. CASE ServerRead
  <2> DEFINE f == Head(toServer)
             buf == srv.buf \o f.body
  <2>1. f \in Frame /\ toServer' \in Seq(Frame) /\ buf \in Seq(Byte)
    <3>1. f \in Frame /\ toServer' \in Seq(Frame)
      BY <1>8 DEF ServerRead, TypeInv, TypeOK
    <3>2. srv.buf \in Seq(Byte) /\ f.body \in Seq(Byte)
      BY <3>1 DEF TypeInv, TypeOK, Srv, Frame
    <3> QED
      BY <3>1, <3>2
  <2>2. NextSeq(srv.seq) \in 0..(SeqMod - 1) /\ 0 \in 0..(SeqMod - 1)
    BY NextSeqType, SeqModAssumption DEF TypeInv, TypeOK, Srv
  <2>3. /\ srv' \in Srv
        /\ srv'.state # "write"
        /\ served' \in Seq(Message)
    <3>1. CASE f.size = MaxPacket
      BY <1>8, <2>1, <2>2, <3>1 DEF ServerRead, TypeInv, TypeOK, Srv
    <3>2. CASE f.size # MaxPacket
      <4>1. [body |-> buf, follow |-> f.follow] \in Message
        BY <2>1 DEF Message, Frame
      <4> QED
        <5>1. srv' = AfterMessage(f.follow)
          BY <1>8, <3>2 DEF ServerRead
        <5>2. served' = Append(served, [body |-> buf, follow |-> f.follow])
          BY <1>8, <3>2 DEF ServerRead
        <5> QED
          BY <4>1, <5>1, <5>2, AfterMessageType DEF TypeInv, TypeOK
    <3> QED
      BY <3>1, <3>2
  <2> QED
    BY <1>8, <2>1, <2>3 DEF ServerRead, TypeInv, TypeOK, WriteInRange, clientVars
<1>9. CASE ServerMismatch
  <2> DEFINE f == FrameOf(Refusal, 0, 0, srv.seq)
  <2>1. Refusal \in Message /\ Refusal.body = <<>>
    BY DEF Refusal, Message, Follow
  <2>2. f \in Frame /\ f.size = Len(f.body)
    <3>1. srv.seq \in 0..(SeqMod - 1)
      BY DEF TypeInv, TypeOK, Srv
    <3>2. SubSeq(<<>>, 0 + 1, 0 + 0) = <<>> /\ <<>> \in Seq(Byte) /\ Len(<<>>) = 0
      OBVIOUS
    <3>3. f = [size |-> 0, seq |-> srv.seq, body |-> <<>>, follow |-> "nothing"]
      BY <3>2 DEF FrameOf, Refusal
    <3> HIDE DEF f
    <3> QED
      BY <3>1, <3>2, <3>3 DEF Frame, Follow
  <2>3. toClient \in Seq(Frame) /\ replies \in Seq(Message)
    BY DEF TypeInv, TypeOK
  <2>4. toClient' = Append(toClient, f) /\ replies' = Append(replies, Refusal)
    BY <1>9 DEF ServerMismatch
  <2>5. srv' \in Srv /\ srv'.state = "refused"
    BY <1>9 DEF ServerMismatch, TypeInv, TypeOK, Srv
  <2>6. TypeOK'
    BY <1>9, <2>1, <2>2, <2>3, <2>4, <2>5 DEF ServerMismatch, TypeInv, TypeOK, clientVars
  <2> HIDE DEF f
  <2>7. /\ toClient # <<>> => toClient' # <<>> /\ toClient'[1] = toClient[1]
        /\ \A i \in 1..Len(toClient') : toClient'[i] = IF i <= Len(toClient) THEN toClient[i] ELSE f
        /\ Len(toClient') = Len(toClient) + 1
    BY <2>2, <2>3, <2>4
  <2>8. \A i \in 1..Len(toClient') : toClient'[i].size = Len(toClient'[i].body)
    BY <2>2, <2>3, <2>7 DEF TypeInv, WriteInRange
  <2> QED
    BY <1>9, <2>5, <2>6, <2>7, <2>8 DEF ServerMismatch, TypeInv, WriteInRange, clientVars
<1>10. ASSUME NEW size \in ReplySizes, NEW follow \in Follow, ServerAnswer(size, follow)
       PROVE  TypeInv'
  <2>1. [body |-> Bytes(Len(replies) + 1, size), follow |-> follow] \in Message
    BY BytesType, SizesAssumption DEF Message, TypeInv, TypeOK
  <2>2. replies' \in Seq(Message) /\ replies' # <<>>
    BY <1>10, <2>1 DEF ServerAnswer, TypeInv, TypeOK
  <2>3. LastOf(replies').body \in Seq(Byte)
    BY <2>2, LastType DEF Message
  <2> QED
    <3>1. srv' \in Srv /\ srv'.off = 0
      BY <1>10 DEF ServerAnswer, TypeInv, TypeOK, Srv
    <3>2. TypeOK'
      BY <1>10, <2>2, <3>1 DEF ServerAnswer, TypeInv, TypeOK, clientVars
    <3>3. 0 <= Len(LastOf(replies').body)
      BY <2>3
    <3> QED
      BY <1>10, <2>2, <3>1, <3>2, <3>3 DEF ServerAnswer, TypeInv, WriteInRange, clientVars
<1>11. CASE ServerWrite
  <2> DEFINE m == LastOf(replies)
             size == compute_size_to_write(Len(m.body), srv.off)
             f == FrameOf(m, srv.off, size, srv.seq)
  <2>1. m \in Message /\ srv.off \in Nat /\ srv.off <= Len(m.body)
    BY <1>11, LastType DEF ServerWrite, TypeInv, TypeOK, WriteInRange, Srv
  <2>2. size \in Nat /\ srv.off + size <= Len(m.body)
    <3>1. Len(m.body) \in Nat
      BY <2>1 DEF Message
    <3> HIDE DEF m
    <3> QED
      BY <2>1, <3>1, WriteSize
  <2>3. f \in Frame /\ f.size = Len(f.body)
    <3>1. f \in Frame
      BY <2>1, <2>2, FrameType DEF TypeInv, TypeOK, Srv
    <3>2. Len(SubSeq(m.body, srv.off + 1, srv.off + size)) = size
      BY <2>1, <2>2 DEF Message
    <3> QED
      BY <3>1, <3>2 DEF FrameOf
  <2>4. /\ toClient' \in Seq(Frame) /\ toClient' = Append(toClient, f)
        /\ \A i \in 1..Len(toClient') : toClient'[i].size = Len(toClient'[i].body)
        /\ toClient # <<>> => toClient'[1] = toClient[1]
        /\ toClient' # <<>>
    BY <1>11, <2>3 DEF ServerWrite, TypeInv, TypeOK, WriteInRange
  <2>5. NextSeq(srv.seq) \in 0..(SeqMod - 1) /\ 0 \in 0..(SeqMod - 1)
    BY NextSeqType, SeqModAssumption DEF TypeInv, TypeOK, Srv
  <2>6. /\ srv' \in Srv
        /\ srv'.state = "write" => srv'.off <= Len(m.body)
    <3>1. CASE size = MaxPacket
      <4>1. srv' = [srv EXCEPT !.seq = NextSeq(@), !.off = @ + size]
        BY <1>11, <3>1 DEF ServerWrite
      <4>2. srv.off + size \in Nat
        BY <2>1, <2>2
      <4> HIDE DEF size, m
      <4> QED
        BY <2>2, <2>5, <4>1, <4>2 DEF TypeInv, TypeOK, Srv
    <3>2. CASE size # MaxPacket
      <4>1. Len(m.body) \in Nat
        BY <2>1 DEF Message
      <4> QED
        <5>1. srv' = AfterMessage(m.follow)
          BY <1>11, <3>2 DEF ServerWrite
        <5> QED
          BY <4>1, <5>1, AfterMessageType DEF TypeInv, TypeOK
    <3> QED
      BY <3>1, <3>2
  <2>7. TypeOK'
    BY <1>11, <2>4, <2>6 DEF ServerWrite, TypeInv, TypeOK, clientVars, logVars
  <2>8. WriteInRange'
    BY <1>11, <2>4, <2>6 DEF ServerWrite, TypeInv, WriteInRange, clientVars, logVars
  <2> QED
    BY <2>7, <2>8 DEF TypeInv
<1>12. CASE UNCHANGED vars
  BY <1>12 DEF vars, clientVars, logVars, TypeInv, TypeOK, WriteInRange
<1> QED
  BY <1>1, <1>2, <1>3, <1>4, <1>5, <1>6, <1>7, <1>8, <1>9, <1>10, <1>11, <1>12
  DEF Next, Client, Server

(***************************************************************************)
(* Type correctness of the message layer: buffers hold bytes, counters     *)
(* stay in range and frames are well formed, whatever the sizes of the     *)
(* messages.                                                               *)
(***************************************************************************)
THEOREM TypeCorrect == Spec => []TypeOK
<1>1. TypeInv => TypeOK
  BY DEF TypeInv
<1> QED
  BY TypeInit, TypeNext, <1>1, PTL DEF Spec

LEMMA TypeInvariant == Spec => []TypeInv
  BY TypeInit, TypeNext, PTL DEF Spec

-----------------------------------------------------------------------------
LEMMA AppendFacts ==
  ASSUME NEW S, NEW q \in Seq(S), NEW x \in S
  PROVE  /\ Append(q, x) # <<>> /\ LastOf(Append(q, x)) = x
         /\ Len(Append(q, x)) = Len(q) + 1
         /\ \A i \in 1..Len(q) : Append(q, x)[i] = q[i]
         /\ Append(q, x)[Len(q) + 1] = x
         /\ q # <<>> => Append(q, x)[1] = q[1] /\ LastOf(q) = q[Len(q)]
         /\ q = <<>> => Append(q, x)[1] = x
  BY DEF LastOf

LEMMA TailFacts ==
  ASSUME NEW S, NEW q \in Seq(S), q # <<>>
  PROVE  /\ Len(Tail(q)) = Len(q) - 1
         /\ \A i \in 1..Len(Tail(q)) : Tail(q)[i] = q[i + 1]
         /\ Tail(q) = <<>> => LastOf(q) = Head(q)
         /\ Tail(q) # <<>> => LastOf(Tail(q)) = LastOf(q) /\ Len(q) > 1
         /\ Head(q) = q[1]
  BY DEF LastOf

\* The size limit matters here only: a write that is not at an exact multiple
\* ends with a frame shorter than MaxPacket.
LEMMA LastFrameIsShort ==
  ASSUME NEW len \in RequestSizes, ~ExactMultiple(len), NEW j \in Nat, j * MaxPacket <= len,
         j * MaxPacket + compute_size_to_write(len, j * MaxPacket) >= len
  PROVE  compute_size_to_write(len, j * MaxPacket) # MaxPacket
<1> SUFFICES ASSUME compute_size_to_write(len, j * MaxPacket) = MaxPacket PROVE FALSE
  OBVIOUS
<1> DEFINE done == j * MaxPacket
<1>1. len \in Nat /\ done \in Nat /\ MaxPacket \in Nat /\ MaxPacket > 0
  BY SizesAssumption, MaxPacketAssumption
<1>2. len = done + MaxPacket
  BY <1>1, WriteSize
<1>3. (j + 1) * MaxPacket = done + MaxPacket
  BY <1>1
<1>4. j + 1 \in 1..len
  BY <1>1, <1>2, <1>3
<1> QED
  BY <1>2, <1>3, <1>4 DEF ExactMultiple

LEMMA SeqInit == Init => FramesAgree
<1> SUFFICES ASSUME Init PROVE FramesAgree
  OBVIOUS
<1> QED
  BY DEF Init, FramesAgree, Agreed, RequestChain, RequestHead, WritingEnd, QuietEnd,
         AwaitingRequest, AwaitingReply, OpShape, Idle, Started

LEMMA SeqStartRequest ==
  ASSUME TypeInv, FramesAgree, NEW size \in RequestSizes, NEW follow \in Follow,
         StartRequest(size, follow)
  PROVE  FramesAgree'
<1>1. /\ toClient = <<>> /\ srv.state = "read"
      /\ IF toServer = <<>> THEN srv.seq = 0
         ELSE Ends(LastOf(toServer)) /\ LastOf(toServer).follow = "nothing"
  BY DEF StartRequest, FramesAgree, QuietEnd
<1>2. /\ op' = Started("write") /\ op'.kind = "write" /\ op'.total = 0
      /\ sequence_number' = 0
      /\ UNCHANGED <<awaiting, error, toServer, toClient, srv>>
  BY DEF StartRequest, Started
<1>3. requests' # <<>> /\ Len(LastOf(requests').body) = size
  <2>1. requests \in Seq(Message) /\ size \in Nat
    BY SizesAssumption DEF TypeInv, TypeOK
  <2> DEFINE m == [body |-> Bytes(Len(requests) + 1, size), follow |-> follow]
  <2>2. m \in Message /\ Len(m.body) = size
    BY <2>1, BytesType DEF Message
  <2>3. requests' = Append(requests, m)
    BY DEF StartRequest
  <2> QED
    BY <2>1, <2>2, <2>3, AppendFacts
<1>4. awaiting = "nothing" /\ error = "none"
  BY DEF StartRequest
<1>5. Agreed' /\ RequestChain' /\ RequestHead'
  BY <1>2 DEF FramesAgree, Agreed, RequestChain, RequestHead
<1>6. WritingEnd' /\ QuietEnd'
  BY <1>1, <1>2, <1>4 DEF WritingEnd, QuietEnd
<1>7. AwaitingRequest' /\ AwaitingReply'
  BY <1>2, <1>4 DEF AwaitingRequest, AwaitingReply
<1>8. OpShape'
  <2>1. 0 \in 0..op'.total /\ op'.total = 0 * MaxPacket
    BY <1>2, MaxPacketAssumption
  <2>2. op'.total <= Len(LastOf(requests').body)
    BY <1>2, <1>3, SizesAssumption
  <2> QED
    BY <1>2, <1>3, <1>4, <2>1, <2>2 DEF OpShape
<1> QED
  BY <1>5, <1>6, <1>7, <1>8 DEF FramesAgree

LEMMA SeqWriteFrame ==
  ASSUME NoneExact, TypeInv, FramesAgree, WriteFrame
  PROVE  FramesAgree'
<1> DEFINE m == LastOf(requests)
           len == Len(m.body)
           size == compute_size_to_write(len, op.total)
           f == FrameOf(m, op.total, size, sequence_number)
<1>1. /\ op.kind = "write" /\ error = "none" /\ awaiting = "nothing"
      /\ toClient = <<>> /\ srv.state = "read"
  BY DEF WriteFrame, FramesAgree, WritingEnd, OpShape
<1>2. m \in Message /\ len \in RequestSizes /\ op.total \in Nat /\ op.total <= len /\ requests # <<>>
  BY <1>1, LastType DEF FramesAgree, OpShape, TypeInv, TypeOK, Op
<1>3. PICK j \in 0..op.total : op.total = j * MaxPacket
  BY <1>1 DEF FramesAgree, OpShape
<1>4. len \in Nat /\ size \in Nat /\ size <= MaxPacket /\ op.total + size <= len
  <2>1. len \in Nat
    BY <1>2, SizesAssumption
  <2> HIDE DEF len
  <2> QED
    BY <1>2, <2>1, WriteSize
<1>5. /\ f \in Frame /\ f.size = size /\ f.seq = sequence_number /\ f.follow = m.follow
  BY <1>2, <1>4, FrameType DEF FrameOf, TypeInv, TypeOK
<1>6. toServer \in Seq(Frame)
  BY DEF TypeInv, TypeOK
<1>7. /\ toServer' = Append(toServer, f) /\ sequence_number' = NextSeq(f.seq)
      /\ UNCHANGED <<error, toClient, srv, requests>>
  BY <1>5 DEF WriteFrame, logVars
<1>8. /\ toServer' # <<>> /\ LastOf(toServer') = f /\ Len(toServer') = Len(toServer) + 1
      /\ \A i \in 1..Len(toServer) : toServer'[i] = toServer[i]
      /\ toServer'[Len(toServer) + 1] = f
      /\ toServer # <<>> => toServer'[1] = toServer[1] /\ LastOf(toServer) = toServer[Len(toServer)]
      /\ toServer = <<>> => toServer'[1] = f
  <2> HIDE DEF f
  <2> QED
    BY <1>5, <1>6, <1>7, AppendFacts
<1>9. IF toServer = <<>>
        THEN f.seq = srv.seq
        ELSE IF op.total = 0
          THEN f.seq = 0 /\ Ends(LastOf(toServer)) /\ LastOf(toServer).follow = "nothing"
          ELSE f.seq = NextSeq(LastOf(toServer).seq) /\ ~Ends(LastOf(toServer))
  BY <1>1, <1>5 DEF FramesAgree, WritingEnd
<1>14. \/ op.total + size < len /\ op' = [op EXCEPT !.total = @ + size] /\ UNCHANGED awaiting
       \/ op.total + size >= len /\ op' = Idle /\ awaiting' = m.follow
  BY DEF WriteFrame
<1> HIDE DEF f
<1>10. RequestChain'
  <2> SUFFICES ASSUME NEW i \in 1..(Len(toServer') - 1)
               PROVE  /\ toServer'[i + 1].seq =
                           IF Ends(toServer'[i]) THEN 0 ELSE NextSeq(toServer'[i].seq)
                      /\ Ends(toServer'[i]) => toServer'[i].follow = "nothing"
    BY DEF RequestChain, Ends, NextSeq
  <2>1. CASE i < Len(toServer)
    <3>1. toServer'[i] = toServer[i] /\ toServer'[i + 1] = toServer[i + 1]
      BY <1>6, <1>8, <2>1
    <3> QED
      BY <1>6, <2>1, <3>1 DEF FramesAgree, RequestChain
  <2>2. CASE i = Len(toServer)
    <3>1. toServer # <<>> /\ toServer'[i] = LastOf(toServer) /\ toServer'[i + 1] = f
      BY <1>6, <1>8, <2>2
    <3> QED
      BY <1>9, <3>1
  <2> QED
    BY <1>6, <1>8, <2>1, <2>2
<1>11. RequestHead'
  BY <1>1, <1>7, <1>8, <1>9 DEF FramesAgree, RequestHead
<1>12. CASE op.total + size < len
  <2>1. op' = [op EXCEPT !.total = @ + size] /\ UNCHANGED awaiting
    <3> HIDE DEF size, len, m
    <3> QED
      BY <1>2, <1>4, <1>12, <1>14
  <2>2. size = MaxPacket
    BY <1>2, <1>4, <1>12, MaxPacketAssumption DEF compute_size_to_write
  <2>3. op'.kind = "write" /\ op'.total = op.total + MaxPacket
    BY <1>1, <2>1, <2>2 DEF TypeInv, TypeOK, Op
  <2>4. ~Ends(f) /\ op'.total # 0
    BY <1>2, <1>5, <2>2, <2>3, MaxPacketAssumption DEF Ends
  <2>5. WritingEnd' /\ QuietEnd' /\ AwaitingRequest' /\ AwaitingReply'
    BY <1>1, <1>7, <1>8, <2>1, <2>3, <2>4
    DEF WritingEnd, QuietEnd, AwaitingRequest, AwaitingReply, Ends, NextSeq
  <2>6. \E k \in 0..op'.total : op'.total = k * MaxPacket
    <3>1. op'.total = (j + 1) * MaxPacket /\ j + 1 \in 0..op'.total
      BY <1>2, <1>3, <2>3, MaxPacketAssumption
    <3> QED
      BY <3>1
  <2>7. OpShape'
    <3>1. op'.total <= len
      BY <1>4, <2>2, <2>3
    <3> QED
      BY <1>1, <1>2, <1>7, <2>3, <2>6, <3>1 DEF OpShape
  <2> QED
    BY <1>1, <1>7, <1>10, <1>11, <2>5, <2>7 DEF FramesAgree, Agreed
<1>13. CASE op.total + size >= len
  <2>1. op' = Idle /\ op'.kind = "idle" /\ awaiting' = m.follow
    <3> HIDE DEF size, len, m
    <3> QED
      BY <1>2, <1>4, <1>13, <1>14 DEF Idle, Started
  <2>2. Ends(f)
    <3>1. ~ExactMultiple(len)
      <4>1. requests \in Seq(Message)
        BY DEF TypeInv, TypeOK
      <4> QED
        BY <1>2, <4>1 DEF NoneExact, LastOf
    <3> HIDE DEF len
    <3> QED
      BY <1>2, <1>3, <1>5, <1>13, <3>1, LastFrameIsShort DEF Ends
  <2>3. f.follow \in Follow
    BY <1>5 DEF Frame
  <2>4. WritingEnd' /\ QuietEnd' /\ AwaitingRequest' /\ AwaitingReply' /\ OpShape'
    BY <1>1, <1>5, <1>7, <1>8, <2>1, <2>2, <2>3
    DEF WritingEnd, QuietEnd, AwaitingRequest, AwaitingReply, OpShape, Ends, NextSeq, Follow
  <2> QED
    BY <1>1, <1>7, <1>10, <1>11, <2>4 DEF FramesAgree, Agreed
<1> QED
  BY <1>2, <1>4, <1>12, <1>13

LEMMA SeqStartRead ==
  ASSUME TypeInv, FramesAgree, StartRead
  PROVE  FramesAgree'
<1>1. /\ op.kind = "idle" /\ awaiting = "reply" /\ error = "none"
      /\ op'.kind = "read_header"
      /\ UNCHANGED <<sequence_number, awaiting, error, toServer, toClient, srv, requests>>
  BY DEF StartRead, Started, logVars
<1> QED
  BY <1>1 DEF FramesAgree, Agreed, RequestChain, RequestHead, WritingEnd, QuietEnd,
              AwaitingRequest, AwaitingReply, ReplyChain, OpShape, Ends, NextSeq

\* A header read always finds the number it expects.
LEMMA ExpectedHeader ==
  ASSUME TypeInv, FramesAgree, op.kind = "read_header", toClient # <<>>
  PROVE  /\ toClient[1].seq = sequence_number /\ Head(toClient) = toClient[1]
         /\ toServer = <<>> /\ awaiting = "reply" /\ error = "none"
<1>1. awaiting = "reply" /\ error = "none" /\ toServer = <<>>
  BY DEF FramesAgree, OpShape, AwaitingRequest
<1>2. toClient[1].seq = sequence_number
  BY <1>1 DEF FramesAgree, AwaitingReply
<1>3. Head(toClient) = toClient[1]
  BY TailFacts DEF TypeInv, TypeOK
<1> QED
  BY <1>1, <1>2, <1>3

LEMMA SeqReadHeader ==
  ASSUME TypeInv, FramesAgree, ReadHeader
  PROVE  FramesAgree'
<1>1. /\ op.kind = "read_header" /\ toClient # <<>> /\ awaiting = "reply" /\ error = "none"
      /\ toServer = <<>> /\ toClient[1].seq = sequence_number
      /\ Head(toClient) = toClient[1]
  BY ExpectedHeader DEF ReadHeader
<1>2. op'.kind = "read_body" /\ op'.size = toClient[1].size
  BY <1>1 DEF ReadHeader, TypeInv, TypeOK, Op
<1>3. /\ sequence_number' = NextSeq(toClient[1].seq)
      /\ UNCHANGED <<awaiting, error, toServer, toClient, srv, requests>>
  BY <1>1 DEF ReadHeader, logVars
<1> QED
  BY <1>1, <1>2, <1>3
  DEF FramesAgree, Agreed, RequestChain, RequestHead, WritingEnd, QuietEnd,
      AwaitingRequest, AwaitingReply, ReplyChain, OpShape, Ends, NextSeq

LEMMA SeqReadBody ==
  ASSUME TypeInv, FramesAgree, ReadBody
  PROVE  FramesAgree'
<1> DEFINE f == toClient[1]
<1>1. /\ op.kind = "read_body" /\ toClient # <<>> /\ awaiting = "reply" /\ error = "none"
      /\ toServer = <<>> /\ op.size = f.size
  BY DEF ReadBody, FramesAgree, OpShape, AwaitingRequest
<1>2. /\ toClient \in Seq(Frame) /\ Head(toClient) = f /\ f \in Frame
      /\ toClient' = Tail(toClient)
      /\ UNCHANGED <<sequence_number, error, toServer, srv, requests>>
  BY <1>1, TailFacts DEF ReadBody, TypeInv, TypeOK
<1>3. /\ Len(toClient') = Len(toClient) - 1
      /\ \A i \in 1..Len(toClient') : toClient'[i] = toClient[i + 1]
      /\ toClient' = <<>> => LastOf(toClient) = f
      /\ toClient' # <<>> => LastOf(toClient') = LastOf(toClient) /\ Len(toClient) > 1
  BY <1>1, <1>2, TailFacts
<1>4. /\ ReplyChain /\ sequence_number = NextSeq(f.seq)
      /\ IF Ends(LastOf(toClient)) /\ LastOf(toClient).follow = "nothing"
           THEN srv.state = "read" /\ srv.seq = 0
           ELSE srv.state \in {"answer", "write"} /\ srv.seq = NextSeq(LastOf(toClient).seq)
  BY <1>1 DEF FramesAgree, AwaitingReply
<1>5. toClient' # <<>> => /\ toClient'[1] = toClient[2] /\ toClient[2].seq = NextSeq(f.seq)
                          /\ Ends(f) => f.follow = "reply"
  BY <1>2, <1>3, <1>4 DEF ReplyChain
<1>6. ReplyChain'
  <2> SUFFICES ASSUME NEW i \in 1..(Len(toClient') - 1)
               PROVE  /\ toClient'[i + 1].seq = NextSeq(toClient'[i].seq)
                      /\ Ends(toClient'[i]) => toClient'[i].follow = "reply"
    BY DEF ReplyChain, NextSeq, Ends
  <2>1. i + 1 \in 1..(Len(toClient) - 1) /\ i \in 1..Len(toClient') /\ i + 1 \in 1..Len(toClient')
    BY <1>2, <1>3
  <2> QED
    BY <1>3, <1>4, <2>1 DEF ReplyChain
<1>7. Agreed' /\ RequestChain' /\ RequestHead'
  BY <1>1, <1>2 DEF FramesAgree, Agreed, RequestChain, RequestHead
<1>8. AwaitingReply' \/ awaiting' # "reply"
  <2>1. op'.kind \in {"read_header", "idle"}
    <3>1. op' = [op EXCEPT !.kind = "read_header", !.total = @ + op.size] => op'.kind = "read_header"
      BY DEF TypeInv, TypeOK, Op
    <3>2. Idle.kind = "idle"
      BY DEF Idle, Started
    <3> QED
      BY <3>1, <3>2 DEF ReadBody
  <2>2. CASE toClient' = <<>>
    <3>1. ~(Ends(f) /\ f.follow = "nothing") => srv.state \in {"answer", "write"}
                                                /\ srv.seq = sequence_number
      BY <1>3, <1>4, <2>2
    <3>2. awaiting' = "reply" => ~(Ends(f) /\ f.follow = "nothing")
      BY <1>1, <1>2 DEF ReadBody, Ends
    <3> QED
      BY <1>2, <1>6, <2>2, <3>1, <3>2 DEF AwaitingReply
  <2>3. CASE toClient' # <<>>
    <3>1. sequence_number' = toClient'[1].seq /\ LastOf(toClient') = LastOf(toClient)
      BY <1>2, <1>3, <1>4, <1>5, <2>3
    <3> QED
      BY <1>2, <1>4, <1>6, <2>1, <2>3, <3>1 DEF AwaitingReply, Ends, NextSeq
  <2> QED
    BY <2>2, <2>3
<1>9. CASE op.size = MaxPacket
  <2>1. op'.kind = "read_header" /\ UNCHANGED awaiting
    BY <1>9 DEF ReadBody, TypeInv, TypeOK, Op
  <2> QED
    BY <1>1, <1>2, <1>7, <1>8, <2>1
    DEF FramesAgree, WritingEnd, QuietEnd, AwaitingRequest, OpShape
<1>10. CASE op.size # MaxPacket
  <2>1. op'.kind = "idle" /\ awaiting' = f.follow /\ Ends(f) /\ f.follow \in Follow
    BY <1>1, <1>2, <1>10 DEF ReadBody, Idle, Started, Ends, Frame
  <2>2. CASE f.follow = "reply"
    BY <1>1, <1>2, <1>7, <1>8, <2>1, <2>2
    DEF FramesAgree, WritingEnd, QuietEnd, AwaitingRequest, OpShape
  <2>3. CASE f.follow = "nothing"
    <3>1. toClient' = <<>> /\ srv.state = "read" /\ srv.seq = 0
      BY <1>3, <1>4, <1>5, <2>1, <2>3
    <3> QED
      BY <1>1, <1>2, <1>7, <2>1, <2>3, <3>1
      DEF FramesAgree, WritingEnd, QuietEnd, AwaitingRequest, AwaitingReply, OpShape
  <2> QED
    BY <2>1, <2>2, <2>3 DEF Follow
<1> QED
  BY <1>9, <1>10

LEMMA SeqTransferError ==
  ASSUME TypeInv, FramesAgree, TransferError
  PROVE  FramesAgree'
<1>1. /\ op'.kind = "idle" /\ error' = "io"
      /\ UNCHANGED <<awaiting, toServer, toClient, srv>>
  BY DEF TransferError, Idle, Started
<1> QED
  BY <1>1 DEF FramesAgree, Agreed, RequestChain, RequestHead, WritingEnd, QuietEnd,
              AwaitingRequest, AwaitingReply, OpShape

LEMMA SeqServerRead ==
  ASSUME TypeInv, FramesAgree, ServerRead
  PROVE  FramesAgree'
<1> DEFINE f == toServer[1]
<1>1. /\ toServer \in Seq(Frame) /\ toServer # <<>> /\ Head(toServer) = f /\ f \in Frame
      /\ toServer' = Tail(toServer) /\ f.seq = srv.seq /\ srv.state = "read"
      /\ UNCHANGED <<sequence_number, op, awaiting, error, toClient, requests>>
  BY TailFacts DEF ServerRead, TypeInv, TypeOK, clientVars
<1>2. /\ Len(toServer') = Len(toServer) - 1
      /\ \A i \in 1..Len(toServer') : toServer'[i] = toServer[i + 1]
      /\ toServer' = <<>> => LastOf(toServer) = f
      /\ toServer' # <<>> => LastOf(toServer') = LastOf(toServer) /\ Len(toServer) > 1
  BY <1>1, TailFacts
<1>3. toServer' # <<>> => /\ toServer'[1] = toServer[2]
                          /\ toServer[2].seq = IF Ends(f) THEN 0 ELSE NextSeq(f.seq)
                          /\ Ends(f) => f.follow = "nothing"
  BY <1>1, <1>2 DEF FramesAgree, RequestChain
<1>4. IF Ends(f)
        THEN IF f.follow = "reply"
               THEN srv'.state = "answer" /\ srv'.seq = NextSeq(f.seq)
               ELSE srv'.state = "read" /\ srv'.seq = 0
        ELSE srv'.state = "read" /\ srv'.seq = NextSeq(f.seq)
  <2>1. CASE Ends(f)
    <3>1. srv' = AfterMessage(f.follow)
      BY <1>1, <2>1 DEF ServerRead, Ends
    <3> QED
      BY <1>1, <2>1, <3>1 DEF AfterMessage
  <2>2. CASE ~Ends(f)
    <3>1. srv' = [srv EXCEPT !.seq = NextSeq(@), !.buf = srv.buf \o f.body]
      BY <1>1, <2>2 DEF ServerRead, Ends
    <3> QED
      BY <1>1, <2>2, <3>1 DEF TypeInv, TypeOK, Srv
  <2> QED
    BY <2>1, <2>2
<1>5. RequestChain'
  <2> SUFFICES ASSUME NEW i \in 1..(Len(toServer') - 1)
               PROVE  /\ toServer'[i + 1].seq =
                           IF Ends(toServer'[i]) THEN 0 ELSE NextSeq(toServer'[i].seq)
                      /\ Ends(toServer'[i]) => toServer'[i].follow = "nothing"
    BY DEF RequestChain, NextSeq, Ends
  <2>1. i + 1 \in 1..(Len(toServer) - 1) /\ i \in 1..Len(toServer') /\ i + 1 \in 1..Len(toServer')
    BY <1>1, <1>2
  <2> QED
    BY <1>2, <2>1 DEF FramesAgree, RequestChain
<1>6. RequestHead' /\ Agreed'
  <2>1. toServer' # <<>> => srv'.state = "read" /\ srv'.seq = toServer'[1].seq
    BY <1>3, <1>4
  <2>2. srv'.state # "refused"
    BY <1>4
  <2> QED
    BY <1>1, <2>1, <2>2 DEF RequestHead, Agreed, FramesAgree
<1>7. WritingEnd'
  <2> SUFFICES ASSUME op.kind = "write"
               PROVE  WritingEnd'
    BY <1>1 DEF WritingEnd
  <2>1. /\ awaiting = "nothing" /\ toClient = <<>>
        /\ IF op.total = 0
             THEN sequence_number = 0 /\ Ends(LastOf(toServer)) /\ LastOf(toServer).follow = "nothing"
             ELSE sequence_number = NextSeq(LastOf(toServer).seq) /\ ~Ends(LastOf(toServer))
    BY <1>1 DEF FramesAgree, WritingEnd
  <2>2. CASE toServer' = <<>>
    <3>1. srv'.state = "read" /\ srv'.seq = sequence_number
      BY <1>2, <1>4, <2>1, <2>2
    <3> QED
      BY <1>1, <2>1, <2>2, <3>1 DEF WritingEnd
  <2>3. CASE toServer' # <<>>
    <3>1. srv'.state = "read" /\ LastOf(toServer') = LastOf(toServer)
      BY <1>2, <1>3, <1>4, <2>3
    <3> QED
      BY <1>1, <2>1, <2>3, <3>1 DEF WritingEnd, Ends, NextSeq
  <2> QED
    BY <2>2, <2>3
<1>8. QuietEnd'
  <2> SUFFICES ASSUME op.kind = "idle", awaiting = "nothing", error = "none"
               PROVE  QuietEnd'
    BY <1>1 DEF QuietEnd
  <2>1. /\ toClient = <<>> /\ Ends(LastOf(toServer)) /\ LastOf(toServer).follow = "nothing"
    BY <1>1 DEF FramesAgree, QuietEnd
  <2>2. CASE toServer' = <<>>
    <3>1. srv'.state = "read" /\ srv'.seq = 0
      BY <1>2, <1>4, <2>1, <2>2
    <3> QED
      BY <1>1, <2>1, <2>2, <3>1 DEF QuietEnd
  <2>3. CASE toServer' # <<>>
    <3>1. srv'.state = "read" /\ LastOf(toServer') = LastOf(toServer)
      BY <1>2, <1>3, <1>4, <2>3
    <3> QED
      BY <1>1, <2>1, <2>3, <3>1 DEF QuietEnd, Ends
  <2> QED
    BY <2>2, <2>3
<1>9. AwaitingRequest' /\ AwaitingReply'
  <2> SUFFICES ASSUME awaiting = "reply", error = "none"
               PROVE  AwaitingRequest' /\ AwaitingReply'
    BY <1>1 DEF AwaitingRequest, AwaitingReply
  <2>1. /\ toClient = <<>> /\ op.kind # "read_body"
        /\ Ends(LastOf(toServer)) /\ LastOf(toServer).follow = "reply"
        /\ sequence_number = NextSeq(LastOf(toServer).seq)
    BY <1>1 DEF FramesAgree, AwaitingRequest
  <2>2. CASE toServer' = <<>>
    <3>1. srv'.state = "answer" /\ srv'.seq = sequence_number
      BY <1>2, <1>4, <2>1, <2>2
    <3>2. toClient' = <<>> /\ ReplyChain'
      BY <1>1, <2>1 DEF ReplyChain
    <3> QED
      BY <1>1, <2>2, <3>1, <3>2 DEF AwaitingRequest, AwaitingReply
  <2>3. CASE toServer' # <<>>
    BY <1>1, <1>2, <2>1, <2>3 DEF AwaitingRequest, AwaitingReply, Ends, NextSeq
  <2> QED
    BY <2>2, <2>3
<1>10. OpShape'
  BY <1>1 DEF FramesAgree, OpShape
<1> QED
  BY <1>5, <1>6, <1>7, <1>8, <1>9, <1>10 DEF FramesAgree

LEMMA SeqServerAnswer ==
  ASSUME TypeInv, FramesAgree, NEW size \in ReplySizes, NEW follow \in Follow,
         ServerAnswer(size, follow)
  PROVE  FramesAgree'
<1>1. /\ srv.state = "answer" /\ srv'.state = "write" /\ srv'.seq = srv.seq
      /\ UNCHANGED <<sequence_number, op, awaiting, error, toServer, toClient, requests>>
  BY DEF ServerAnswer, TypeInv, TypeOK, Srv, clientVars
<1> QED
  BY <1>1 DEF FramesAgree, Agreed, RequestChain, RequestHead, WritingEnd, QuietEnd,
              AwaitingRequest, AwaitingReply, ReplyChain, OpShape, Ends, NextSeq

LEMMA SeqServerWrite ==
  ASSUME TypeInv, FramesAgree, ServerWrite
  PROVE  FramesAgree'
<1> DEFINE m == LastOf(replies)
           size == compute_size_to_write(Len(m.body), srv.off)
           f == FrameOf(m, srv.off, size, srv.seq)
<1>1. /\ srv.state = "write" /\ toServer = <<>>
      /\ UNCHANGED <<sequence_number, op, awaiting, error, toServer, requests>>
  BY DEF ServerWrite, FramesAgree, RequestHead, clientVars, logVars
<1>2. f.seq = srv.seq /\ f.size = size /\ f.follow = m.follow
  BY DEF FrameOf
<1>3. f \in Frame /\ m.follow \in Follow
  <2>1. m \in Message /\ srv.off \in Nat /\ srv.off <= Len(m.body) /\ Len(m.body) \in Nat
    <3>1. m \in Message /\ srv.off <= Len(m.body)
      BY <1>1, LastType DEF TypeInv, TypeOK, WriteInRange
    <3>2. srv.off \in Nat
      BY DEF TypeInv, TypeOK, Srv
    <3> QED
      BY <3>1, <3>2 DEF Message
  <2>2. size \in Nat /\ srv.off + size <= Len(m.body)
    <3> HIDE DEF m
    <3> QED
      BY <2>1, WriteSize
  <2> QED
    BY <2>1, <2>2, FrameType DEF TypeInv, TypeOK, Srv, Message
<1>4. toClient \in Seq(Frame) /\ toClient' = Append(toClient, f)
  BY DEF ServerWrite, TypeInv, TypeOK
<1>5. IF Ends(f)
        THEN IF f.follow = "reply"
               THEN srv'.state = "answer" /\ srv'.seq = NextSeq(f.seq)
               ELSE srv'.state = "read" /\ srv'.seq = 0
        ELSE srv'.state = "write" /\ srv'.seq = NextSeq(f.seq)
  <2>1. CASE size = MaxPacket
    <3>1. srv' = [srv EXCEPT !.seq = NextSeq(@), !.off = @ + size]
      BY <2>1 DEF ServerWrite
    <3>2. srv'.state = "write" /\ srv'.seq = NextSeq(srv.seq)
      BY <1>1, <3>1 DEF TypeInv, TypeOK, Srv
    <3> HIDE DEF f
    <3> QED
      BY <1>2, <2>1, <3>2 DEF Ends
  <2>2. CASE size # MaxPacket
    <3>1. srv' = AfterMessage(m.follow)
      BY <2>2 DEF ServerWrite
    <3> HIDE DEF f, size
    <3> QED
      BY <1>2, <2>2, <3>1 DEF AfterMessage, Ends
  <2> QED
    BY <2>1, <2>2
<1> HIDE DEF f
<1>6. /\ toClient' # <<>> /\ LastOf(toClient') = f /\ Len(toClient') = Len(toClient) + 1
      /\ \A i \in 1..Len(toClient) : toClient'[i] = toClient[i]
      /\ toClient'[Len(toClient) + 1] = f
      /\ toClient # <<>> => toClient'[1] = toClient[1] /\ LastOf(toClient) = toClient[Len(toClient)]
      /\ toClient = <<>> => toClient'[1] = f
  BY <1>3, <1>4, AppendFacts
<1>7. Agreed' /\ RequestChain' /\ RequestHead'
  BY <1>1, <1>5 DEF FramesAgree, Agreed, RequestChain, RequestHead
<1>8. WritingEnd' /\ QuietEnd' /\ AwaitingRequest'
  BY <1>1 DEF FramesAgree, WritingEnd, QuietEnd, AwaitingRequest
<1>9. OpShape'
  <2>1. op.kind = "read_body" => toClient'[1] = toClient[1]
    BY <1>6 DEF FramesAgree, OpShape
  <2> QED
    BY <1>1, <1>6, <2>1 DEF FramesAgree, OpShape
<1>10. AwaitingReply'
  <2> SUFFICES ASSUME awaiting = "reply", error = "none" PROVE AwaitingReply'
    BY <1>1 DEF AwaitingReply
  <2>1. ReplyChain /\ (toClient # <<>> =>
            IF op.kind = "read_body" THEN sequence_number = NextSeq(toClient[1].seq)
                                     ELSE sequence_number = toClient[1].seq)
    BY <1>1 DEF FramesAgree, AwaitingReply
  <2>2. IF toClient = <<>>
          THEN f.seq = sequence_number /\ op.kind # "read_body"
          ELSE /\ f.seq = NextSeq(LastOf(toClient).seq)
               /\ Ends(LastOf(toClient)) => LastOf(toClient).follow = "reply"
    <3>1. toClient # <<>> => LastOf(toClient).follow \in Follow
      BY <1>4, LastType DEF Frame
    <3> QED
      BY <1>1, <1>2, <3>1 DEF FramesAgree, AwaitingReply, OpShape, Follow
  <2>3. ReplyChain'
    <3> SUFFICES ASSUME NEW i \in 1..(Len(toClient') - 1)
                 PROVE  /\ toClient'[i + 1].seq = NextSeq(toClient'[i].seq)
                        /\ Ends(toClient'[i]) => toClient'[i].follow = "reply"
      BY DEF ReplyChain, NextSeq, Ends
    <3>1. CASE i < Len(toClient)
      <4>1. toClient'[i] = toClient[i] /\ toClient'[i + 1] = toClient[i + 1]
        BY <1>4, <1>6, <3>1
      <4> QED
        BY <1>4, <2>1, <3>1, <4>1 DEF ReplyChain
    <3>2. CASE i = Len(toClient)
      <4>1. toClient # <<>> /\ toClient'[i] = LastOf(toClient) /\ toClient'[i + 1] = f
        BY <1>4, <1>6, <3>2
      <4> QED
        BY <2>2, <4>1
    <3> QED
      BY <1>4, <1>6, <3>1, <3>2
  <2>4. IF op.kind = "read_body" THEN sequence_number = NextSeq(toClient'[1].seq)
                                 ELSE sequence_number = toClient'[1].seq
    BY <1>6, <2>1, <2>2
  <2>5. IF Ends(f) /\ f.follow = "nothing"
          THEN srv'.state = "read" /\ srv'.seq = 0
          ELSE srv'.state \in {"answer", "write"} /\ srv'.seq = NextSeq(f.seq)
    BY <1>2, <1>3, <1>5 DEF Follow
  <2> QED
    BY <1>1, <1>6, <2>3, <2>4, <2>5 DEF AwaitingReply, Ends, NextSeq
<1> QED
  BY <1>7, <1>8, <1>9, <1>10 DEF FramesAgree

\* An exact multiple stays among the requests.
LEMMA RequestsGrow ==
  ASSUME TypeInv, [Next]_vars, NoneExact'
  PROVE  NoneExact
<1>1. requests \in Seq(Message)
  BY DEF TypeInv, TypeOK
<1>2. CASE UNCHANGED requests
  BY <1>2 DEF NoneExact, ExactMultiple
<1>3. CASE \E size \in RequestSizes, follow \in Follow : StartRequest(size, follow)
  <2>1. PICK size \in RequestSizes, follow \in Follow : StartRequest(size, follow)
    BY <1>3
  <2> DEFINE m == [body |-> Bytes(Len(requests) + 1, size), follow |-> follow]
  <2>2. requests' = Append(requests, m)
    BY <2>1 DEF StartRequest
  <2>3. Len(requests') = Len(requests) + 1 /\ \A i \in 1..Len(requests) : requests'[i] = requests[i]
    <3> HIDE DEF m
    <3> QED
      BY <1>1, <2>2
  <2> QED
    BY <1>1, <2>3 DEF NoneExact, ExactMultiple
<1> QED
  BY <1>2, <1>3
  DEF Next, Client, Server, vars, logVars, clientVars, WriteFrame, StartRead, ReadHeader, HeaderMismatch,
      ReadBody, TransferError, ServerRead, ServerMismatch, ServerAnswer, ServerWrite

LEMMA SeqNext ==
  ASSUME TypeInv, SeqAgreement, [Next]_vars
  PROVE  SeqAgreement'
<1> SUFFICES ASSUME NoneExact' PROVE FramesAgree'
  BY DEF SeqAgreement
<1>0. NoneExact /\ FramesAgree
  BY RequestsGrow DEF SeqAgreement
<1>1. CASE HeaderMismatch
  BY <1>0, <1>1, ExpectedHeader DEF HeaderMismatch
<1>2. CASE ServerMismatch
  <2>1. toServer # <<>> /\ Head(toServer) = toServer[1]
    BY <1>2, TailFacts DEF ServerMismatch, TypeInv, TypeOK
  <2> QED
    BY <1>0, <1>2, <2>1 DEF ServerMismatch, FramesAgree, RequestHead
<1>3. CASE UNCHANGED vars
  BY <1>0, <1>3 DEF vars, clientVars, logVars, FramesAgree, Agreed, RequestChain, RequestHead,
              WritingEnd, QuietEnd, AwaitingRequest, AwaitingReply, ReplyChain, OpShape, Ends, NextSeq
<1> QED
  BY <1>0, <1>1, <1>2, <1>3, SeqStartRequest, SeqWriteFrame, SeqStartRead, SeqReadHeader, SeqReadBody,
     SeqTransferError, SeqServerRead, SeqServerAnswer, SeqServerWrite
  DEF Next, Client, Server

(***************************************************************************)
(* The numbers of the frames in flight lead from one end to the other, and *)
(* both ends agree about whose turn it is, until a request is a positive   *)
(* multiple of MAX_PACKET_SIZE: what the sequence number that write stamps *)
(* on a header and the one that process_header_read expects come to.       *)
(***************************************************************************)
THEOREM FramesInSequence == Spec => []SeqAgreement
<1>1. Init => SeqAgreement
  BY SeqInit DEF SeqAgreement
<1>2. TypeInv /\ SeqAgreement /\ [Next]_vars => SeqAgreement'
  BY SeqNext
<1> QED
  BY <1>1, <1>2, TypeInvariant, PTL DEF Spec

(***************************************************************************)
(* Two conforming ends never disagree about a sequence number: splitting   *)
(* and joining messages, wrapping around after any number of values, and   *)
(* any number of requests without a reply in flight included, until a      *)
(* request is a positive multiple of MAX_PACKET_SIZE.                      *)
(***************************************************************************)
THEOREM SequenceNumbersAgree == Spec => []NoFalseMismatch
<1>1. SeqAgreement => NoFalseMismatch
  BY DEF SeqAgreement, FramesAgree, NoFalseMismatch
<1> QED
  BY <1>1, FramesInSequence, PTL

-----------------------------------------------------------------------------
(* Whose turn it is, whatever the sequence numbers are and whether or not a *)
(* request fills its last frame, as long as no operation has failed and the *)
(* server has not refused a frame.                                          *)

\* The caller waits for an answer to a request that the server sees the end of.
Waits == awaiting = "reply" /\ ~ExactMultiple(Len(LastOf(requests).body))

\* A write stops short of the end of its request.
TurnShape ==
  /\ op.kind # "idle" => error = "none"
  /\ op.kind \in {"read_header", "read_body"} => awaiting = "reply"
  /\ op.kind = "write" =>
       /\ awaiting = "nothing"
       /\ Len(LastOf(requests).body) \in RequestSizes
       /\ op.total < Len(LastOf(requests).body) \/ op.total = 0
       /\ \E j \in 0..op.total : op.total = j * MaxPacket

RequestTurn ==
  /\ \A i \in 1..(Len(toServer) - 1) : Ends(toServer[i]) => toServer[i].follow = "nothing"
  /\ toServer # <<>> => srv.state = "read"

\* Nobody has anything to answer.
QuietTurn ==
  ~Waits =>
    /\ toClient = <<>> /\ srv.state = "read"
    /\ \A i \in 1..Len(toServer) : Ends(toServer[i]) => toServer[i].follow = "nothing"

\* The end of the request is on its way, the server answers it, or the last
\* reply to it is on its way.
WaitingTurn ==
  Waits =>
    IF toServer # <<>>
      THEN toClient = <<>> /\ Ends(LastOf(toServer)) /\ LastOf(toServer).follow = "reply"
      ELSE /\ \A i \in 1..(Len(toClient) - 1) : Ends(toClient[i]) => toClient[i].follow = "reply"
           /\ IF toClient # <<>> /\ Ends(LastOf(toClient)) /\ LastOf(toClient).follow = "nothing"
                THEN srv.state = "read"
                ELSE srv.state \in {"answer", "write"}

Unbroken == error = "none" /\ srv.state # "refused"

Turns == TurnShape /\ (Unbroken => RequestTurn /\ QuietTurn /\ WaitingTurn)

LEMMA TurnsInit == Init => Turns
<1> SUFFICES ASSUME Init PROVE Turns
  OBVIOUS
<1> QED
  BY DEF Init, Turns, TurnShape, RequestTurn, QuietTurn, WaitingTurn, Waits, Idle, Started

\* The counterpart of LastFrameIsShort.
LEMMA LastFrameIsFull ==
  ASSUME NEW len \in RequestSizes, ExactMultiple(len), NEW j \in Nat,
         j * MaxPacket < len \/ j * MaxPacket = 0
  PROVE  compute_size_to_write(len, j * MaxPacket) = MaxPacket
<1>1. len \in Nat /\ MaxPacket \in Nat \ {0} /\ j * MaxPacket \in Nat
  BY SizesAssumption, MaxPacketAssumption
<1>2. PICK k \in 1..len : len = k * MaxPacket
  BY DEF ExactMultiple
<1>3. j * MaxPacket < len
  BY <1>1, <1>2
<1>4. ~(k <= j)
  BY <1>1, <1>2, <1>3
<1>5. (j + 1) * MaxPacket = j * MaxPacket + MaxPacket /\ (j + 1) * MaxPacket <= k * MaxPacket
  <2>1. j + 1 <= k
    BY <1>2, <1>4
  <2> QED
    BY <1>1, <1>2, <2>1
<1>6. ~(len - j * MaxPacket < MaxPacket)
  BY <1>1, <1>2, <1>5
<1> QED
  BY <1>6 DEF compute_size_to_write

LEMMA TurnsStartRequest ==
  ASSUME TypeInv, Turns, NEW size \in RequestSizes, NEW follow \in Follow, StartRequest(size, follow)
  PROVE  Turns'
<1>1. /\ op.kind = "idle" /\ awaiting = "nothing" /\ error = "none"
      /\ op'.kind = "write" /\ op'.total = 0
      /\ UNCHANGED <<awaiting, error, toServer, toClient, srv>>
  BY DEF StartRequest, Started
<1>2. Len(LastOf(requests').body) = size
  <2>1. requests \in Seq(Message) /\ size \in Nat
    BY SizesAssumption DEF TypeInv, TypeOK
  <2> DEFINE m == [body |-> Bytes(Len(requests) + 1, size), follow |-> follow]
  <2>2. m \in Message /\ Len(m.body) = size
    BY <2>1, BytesType DEF Message
  <2>3. requests' = Append(requests, m)
    BY DEF StartRequest
  <2> QED
    BY <2>1, <2>2, <2>3, AppendFacts
<1>3. TurnShape'
  <2>1. 0 \in 0..op'.total /\ op'.total = 0 * MaxPacket
    BY <1>1, MaxPacketAssumption
  <2> QED
    BY <1>1, <1>2, <2>1 DEF TurnShape
<1>4. ~Waits /\ ~Waits'
  BY <1>1 DEF Waits
<1> QED
  BY <1>1, <1>3, <1>4 DEF Turns, Unbroken, RequestTurn, QuietTurn, WaitingTurn, Ends

LEMMA TurnsWriteFrame ==
  ASSUME TypeInv, Turns, WriteFrame
  PROVE  Turns'
<1> DEFINE m == LastOf(requests)
           len == Len(m.body)
           size == compute_size_to_write(len, op.total)
           f == FrameOf(m, op.total, size, sequence_number)
<1>1. /\ op.kind = "write" /\ error = "none" /\ awaiting = "nothing" /\ ~Waits
      /\ UNCHANGED <<error, toClient, srv, requests>>
  BY DEF WriteFrame, logVars, Turns, TurnShape, Waits
<1>2. /\ m \in Message /\ len \in RequestSizes /\ op.total \in Nat /\ op.total <= len /\ len \in Nat
      /\ op.total < len \/ op.total = 0
  <2>1. m \in Message
    BY <1>1, LastType DEF TypeInv, TypeOK, WriteInRange
  <2>2. len \in RequestSizes /\ (op.total < len \/ op.total = 0) /\ op.total \in Nat
    BY <1>1 DEF Turns, TurnShape, TypeInv, TypeOK, Op
  <2>3. len \in Nat
    BY <2>2, SizesAssumption
  <2> HIDE DEF len, m
  <2> QED
    BY <2>1, <2>2, <2>3
<1>3. PICK j \in 0..op.total : op.total = j * MaxPacket
  BY <1>1 DEF Turns, TurnShape
<1>4. size \in Nat /\ size <= MaxPacket /\ op.total + size <= len
  <2> HIDE DEF len
  <2> QED
    BY <1>2, WriteSize
<1>5. f \in Frame /\ f.size = size /\ f.follow = m.follow
  BY <1>2, <1>4, FrameType DEF FrameOf, TypeInv, TypeOK
<1>6. toServer \in Seq(Frame) /\ toServer' = Append(toServer, f)
  BY DEF TypeInv, TypeOK, WriteFrame
<1>7. \/ op.total + size < len /\ op' = [op EXCEPT !.total = @ + size] /\ UNCHANGED awaiting
      \/ op.total + size >= len /\ op' = Idle /\ awaiting' = m.follow
  BY DEF WriteFrame
<1>8. Ends(f) <=> size # MaxPacket
  BY <1>5 DEF Ends
<1> HIDE DEF f
<1>9. /\ toServer' # <<>> /\ LastOf(toServer') = f /\ Len(toServer') = Len(toServer) + 1
      /\ \A i \in 1..Len(toServer) : toServer'[i] = toServer[i]
      /\ toServer'[Len(toServer) + 1] = f
  BY <1>5, <1>6, AppendFacts
<1>10. Unbroken =>
         /\ toClient = <<>> /\ srv.state = "read"
         /\ \A i \in 1..Len(toServer) : Ends(toServer[i]) => toServer[i].follow = "nothing"
  BY <1>1 DEF Turns, QuietTurn
<1>11. (Unbroken <=> Unbroken') /\ (Unbroken => RequestTurn')
  <2>1. Unbroken <=> Unbroken'
    BY <1>1 DEF Unbroken
  <2>2. ASSUME Unbroken, NEW i \in 1..(Len(toServer') - 1)
        PROVE  Ends(toServer'[i]) => toServer'[i].follow = "nothing"
    <3>1. i \in 1..Len(toServer)
      BY <1>6, <1>9
    <3> QED
      BY <1>9, <1>10, <2>2, <3>1
  <2> QED
    BY <1>1, <1>10, <2>1, <2>2 DEF RequestTurn, Ends
<1>12. Waits' => Ends(f) /\ f.follow = "reply"
  <2> SUFFICES ASSUME Waits' PROVE Ends(f) /\ f.follow = "reply"
    OBVIOUS
  <2>1. op.total + size >= len /\ m.follow = "reply" /\ ~ExactMultiple(len)
    BY <1>1, <1>7 DEF Waits, ExactMultiple
  <2>2. size # MaxPacket
    <3> HIDE DEF len
    <3> QED
      BY <1>2, <1>3, <2>1, LastFrameIsShort
  <2> QED
    BY <1>5, <1>8, <2>1, <2>2
<1>13. ~Waits' => (Ends(f) => f.follow = "nothing")
  <2> SUFFICES ASSUME ~Waits', Ends(f) PROVE f.follow = "nothing"
    OBVIOUS
  <2>1. size # MaxPacket
    BY <1>8
  <2>2. size = len - op.total
    BY <2>1 DEF compute_size_to_write
  <2>3. awaiting' = m.follow
    <3> HIDE DEF len, size, m
    <3> QED
      BY <1>2, <1>7, <2>2
  <2>4. ~ExactMultiple(len)
    <3> HIDE DEF len
    <3> QED
      BY <1>2, <1>3, <2>1, LastFrameIsFull
  <2>5. awaiting' # "reply"
    BY <1>1, <2>4 DEF Waits, ExactMultiple
  <2>6. f.follow \in Follow
    BY <1>5 DEF Frame
  <2> QED
    BY <1>5, <2>3, <2>5, <2>6 DEF Follow
<1>14. Unbroken => QuietTurn'
  <2> SUFFICES ASSUME Unbroken, ~Waits'
               PROVE  /\ toClient' = <<>> /\ srv'.state = "read"
                      /\ \A i \in 1..Len(toServer') : Ends(toServer'[i]) => toServer'[i].follow = "nothing"
    BY DEF QuietTurn, Ends
  <2>1. ASSUME NEW i \in 1..Len(toServer') PROVE Ends(toServer'[i]) => toServer'[i].follow = "nothing"
    <3>1. CASE i \in 1..Len(toServer)
      BY <1>9, <1>10, <3>1
    <3>2. CASE i = Len(toServer) + 1
      BY <1>9, <1>13, <3>2
    <3> QED
      BY <1>6, <1>9, <3>1, <3>2
  <2> QED
    BY <1>1, <1>10, <2>1
<1>15. Unbroken => WaitingTurn'
  BY <1>1, <1>9, <1>10, <1>12 DEF WaitingTurn, Ends
<1>16. TurnShape'
  <2>1. CASE op.total + size < len /\ op' = [op EXCEPT !.total = @ + size] /\ UNCHANGED awaiting
    <3>1. size = MaxPacket
      BY <1>2, <1>4, <2>1, MaxPacketAssumption DEF compute_size_to_write
    <3>2. op'.kind = "write" /\ op'.total = op.total + MaxPacket /\ op'.total < len
      BY <1>1, <2>1, <3>1 DEF TypeInv, TypeOK, Op
    <3>3. op'.total = (j + 1) * MaxPacket /\ j + 1 \in 0..op'.total
      BY <1>2, <1>3, <3>2, MaxPacketAssumption
    <3> QED
      BY <1>1, <1>2, <2>1, <3>2, <3>3 DEF TurnShape
  <2>2. CASE op' = Idle
    BY <2>2 DEF TurnShape, Idle, Started
  <2> QED
    BY <1>7, <2>1, <2>2
<1> QED
  BY <1>11, <1>14, <1>15, <1>16 DEF Turns

\* Steps of the client that neither take nor add a frame.
LEMMA TurnsClient ==
  ASSUME TypeInv, Turns, StartRead \/ ReadHeader \/ HeaderMismatch \/ TransferError
  PROVE  Turns'
<1>1. UNCHANGED <<awaiting, toServer, toClient, srv, requests>> /\ (error' = "none" => error = "none")
  BY DEF StartRead, ReadHeader, HeaderMismatch, TransferError, logVars
<1>2. TurnShape'
  <2>1. CASE StartRead
    BY <2>1 DEF StartRead, Started, TurnShape
  <2>2. CASE ReadHeader
    <3>1. op.kind = "read_header" /\ op'.kind = "read_body" /\ UNCHANGED <<awaiting, error>>
      BY <2>2 DEF ReadHeader, TypeInv, TypeOK, Op
    <3> QED
      BY <3>1 DEF Turns, TurnShape
  <2>3. CASE HeaderMismatch \/ TransferError
    BY <2>3 DEF HeaderMismatch, TransferError, Idle, Started, TurnShape
  <2> QED
    BY <2>1, <2>2, <2>3
<1>3. (Unbroken' => Unbroken) /\ (Waits <=> Waits')
  BY <1>1 DEF Unbroken, Waits, LastOf, ExactMultiple
<1>4. Unbroken' => RequestTurn' /\ QuietTurn' /\ WaitingTurn'
  BY <1>1, <1>3 DEF Turns, RequestTurn, QuietTurn, WaitingTurn, Ends, LastOf
<1> QED
  BY <1>2, <1>4 DEF Turns

LEMMA TurnsReadBody ==
  ASSUME TypeInv, Turns, ReadBody
  PROVE  Turns'
<1> DEFINE f == toClient[1]
<1>1. /\ op.kind = "read_body" /\ error = "none" /\ awaiting = "reply"
      /\ UNCHANGED <<error, toServer, srv, requests>>
  BY DEF ReadBody, Turns, TurnShape
<1>2. toClient # <<>> /\ op.size = f.size /\ toClient \in Seq(Frame) /\ f \in Frame
  <2>1. toClient # <<>> /\ toClient \in Seq(Frame) /\ op.size = Len(f.body)
    BY <1>1 DEF TypeInv, TypeOK, WriteInRange
  <2>2. f \in Frame /\ f.size = Len(f.body)
    BY <2>1 DEF TypeInv, WriteInRange
  <2> QED
    BY <2>1, <2>2
<1>3. /\ toClient' = Tail(toClient) /\ Head(toClient) = f
      /\ Len(toClient') = Len(toClient) - 1
      /\ \A i \in 1..Len(toClient') : toClient'[i] = toClient[i + 1]
      /\ toClient' = <<>> => LastOf(toClient) = f
      /\ toClient' # <<>> => LastOf(toClient') = LastOf(toClient) /\ Len(toClient) > 1
      /\ Len(toClient) \in Nat
  <2>1. toClient' = Tail(toClient)
    BY DEF ReadBody
  <2> QED
    BY <1>2, <2>1, TailFacts
<1>4. IF Ends(f) THEN op' = Idle /\ awaiting' = f.follow
                 ELSE op' = [op EXCEPT !.kind = "read_header", !.total = @ + op.size] /\ awaiting' = awaiting
  BY <1>2, <1>3 DEF ReadBody, Ends
<1>5. f.follow \in Follow
  BY <1>2 DEF Frame
<1> HIDE DEF f
<1>6. TurnShape'
  <2>1. CASE Ends(f)
    BY <1>4, <2>1 DEF TurnShape, Idle, Started
  <2>2. CASE ~Ends(f)
    <3>1. op'.kind = "read_header"
      BY <1>4, <2>2 DEF TypeInv, TypeOK, Op
    <3> QED
      BY <1>1, <1>4, <2>2, <3>1 DEF TurnShape
  <2> QED
    BY <2>1, <2>2
<1>7. Unbroken' => RequestTurn' /\ QuietTurn' /\ WaitingTurn'
  <2> SUFFICES ASSUME Unbroken' PROVE RequestTurn' /\ QuietTurn' /\ WaitingTurn'
    OBVIOUS
  <2>1. Unbroken /\ RequestTurn /\ QuietTurn /\ WaitingTurn
    BY <1>1 DEF Unbroken, Turns
  <2>2. Waits /\ toServer = <<>>
    BY <1>2, <2>1 DEF QuietTurn, WaitingTurn
  <2>3. /\ \A i \in 1..(Len(toClient) - 1) : Ends(toClient[i]) => toClient[i].follow = "reply"
        /\ IF Ends(LastOf(toClient)) /\ LastOf(toClient).follow = "nothing"
             THEN srv.state = "read"
             ELSE srv.state \in {"answer", "write"}
    BY <1>2, <2>1, <2>2 DEF WaitingTurn
  <2>4. RequestTurn'
    BY <1>1, <2>1 DEF RequestTurn, Ends
  <2>5. \A i \in 1..(Len(toClient') - 1) : Ends(toClient'[i]) => toClient'[i].follow = "reply"
    <3> SUFFICES ASSUME NEW i \in 1..(Len(toClient') - 1)
                 PROVE  Ends(toClient'[i]) => toClient'[i].follow = "reply"
      OBVIOUS
    <3>1. i + 1 \in 1..(Len(toClient) - 1) /\ toClient'[i] = toClient[i + 1]
      BY <1>3
    <3> QED
      BY <2>3, <3>1
  <2>6. awaiting' = "nothing" => Ends(f) /\ f.follow = "nothing" /\ toClient' = <<>> /\ srv.state = "read"
    <3> SUFFICES ASSUME awaiting' = "nothing"
                 PROVE  Ends(f) /\ f.follow = "nothing" /\ toClient' = <<>> /\ srv.state = "read"
      OBVIOUS
    <3>1. Ends(f) /\ f.follow = "nothing"
      BY <1>1, <1>4
    <3>2. toClient' = <<>>
      <4>1. ~(Len(toClient) > 1)
        <5> SUFFICES ASSUME Len(toClient) > 1 PROVE FALSE
          OBVIOUS
        <5>1. 1 \in 1..(Len(toClient) - 1)
          BY <1>3
        <5> QED
          BY <2>3, <3>1, <5>1 DEF f
      <4> QED
        BY <1>3, <4>1
    <3> QED
      BY <1>3, <2>3, <3>1, <3>2
  <2>7. awaiting' \in Follow
    BY <1>1, <1>4, <1>5 DEF Follow
  <2>8. CASE awaiting' = "nothing"
    <3>1. ~Waits'
      BY <2>8 DEF Waits
    <3> QED
      BY <1>1, <2>2, <2>4, <2>6, <2>8, <3>1 DEF QuietTurn, WaitingTurn
  <2>9. CASE awaiting' = "reply"
    <3>1. Waits'
      BY <1>1, <2>2, <2>9 DEF Waits, ExactMultiple, LastOf
    <3>2. CASE toClient' = <<>>
      <4>1. ~(Ends(f) /\ f.follow = "nothing")
        BY <1>4, <2>9
      <4>2. srv.state \in {"answer", "write"}
        BY <1>3, <2>3, <3>2, <4>1
      <4> QED
        BY <1>1, <2>2, <2>4, <2>5, <3>1, <3>2, <4>2 DEF QuietTurn, WaitingTurn, Ends
    <3>3. CASE toClient' # <<>>
      <4>1. LastOf(toClient') = LastOf(toClient)
        BY <1>3, <3>3
      <4> QED
        BY <1>1, <2>2, <2>3, <2>4, <2>5, <3>1, <3>3, <4>1 DEF QuietTurn, WaitingTurn, Ends
    <3> QED
      BY <3>2, <3>3
  <2> QED
    BY <2>7, <2>8, <2>9 DEF Follow
<1> QED
  BY <1>6, <1>7 DEF Turns

LEMMA TurnsServerRead ==
  ASSUME TypeInv, Turns, ServerRead
  PROVE  Turns'
<1> DEFINE f == toServer[1]
<1>1. /\ srv.state = "read" /\ toServer # <<>> /\ toServer \in Seq(Frame) /\ Head(toServer) = f
      /\ UNCHANGED <<sequence_number, op, awaiting, error, toClient, requests>>
  BY TailFacts DEF ServerRead, clientVars, TypeInv, TypeOK
<1>2. /\ toServer' = Tail(toServer)
      /\ Len(toServer') = Len(toServer) - 1 /\ Len(toServer) \in Nat /\ Len(toServer) > 0
      /\ \A i \in 1..Len(toServer') : toServer'[i] = toServer[i + 1]
      /\ toServer' = <<>> => LastOf(toServer) = f
      /\ toServer' # <<>> => LastOf(toServer') = LastOf(toServer) /\ Len(toServer) > 1
  <2>1. toServer' = Tail(toServer)
    BY DEF ServerRead
  <2> QED
    BY <1>1, <2>1, TailFacts
<1>3. srv'.state = IF Ends(f) /\ f.follow = "reply" THEN "answer" ELSE "read"
  <2>1. CASE Ends(f)
    <3>1. srv' = AfterMessage(f.follow)
      BY <1>1, <2>1 DEF ServerRead, Ends
    <3> QED
      BY <2>1, <3>1 DEF AfterMessage
  <2>2. CASE ~Ends(f)
    <3>1. srv' = [srv EXCEPT !.seq = NextSeq(@), !.buf = srv.buf \o f.body]
      BY <1>1, <2>2 DEF ServerRead, Ends
    <3> QED
      BY <1>1, <2>2, <3>1 DEF TypeInv, TypeOK, Srv
  <2> QED
    BY <2>1, <2>2
<1> HIDE DEF f
<1>4. TurnShape' /\ (Unbroken' => Unbroken) /\ (Waits' <=> Waits)
  BY <1>1 DEF Turns, TurnShape, Unbroken, Waits, LastOf, ExactMultiple
<1>5. Unbroken' => RequestTurn' /\ QuietTurn' /\ WaitingTurn'
  <2> SUFFICES ASSUME Unbroken PROVE RequestTurn' /\ QuietTurn' /\ WaitingTurn'
    BY <1>4
  <2>1. RequestTurn /\ QuietTurn /\ WaitingTurn
    BY DEF Turns
  <2>2. \A i \in 1..(Len(toServer') - 1) : Ends(toServer'[i]) => toServer'[i].follow = "nothing"
    <3> SUFFICES ASSUME NEW i \in 1..(Len(toServer') - 1)
                 PROVE  Ends(toServer'[i]) => toServer'[i].follow = "nothing"
      OBVIOUS
    <3>1. i + 1 \in 1..(Len(toServer) - 1) /\ toServer'[i] = toServer[i + 1]
      BY <1>2
    <3> QED
      BY <2>1, <3>1 DEF RequestTurn
  <2>3. toServer' # <<>> => srv'.state = "read"
    <3> SUFFICES ASSUME toServer' # <<>> PROVE ~(Ends(f) /\ f.follow = "reply")
      BY <1>3
    <3>1. 1 \in 1..(Len(toServer) - 1)
      BY <1>2
    <3> QED
      BY <2>1, <3>1 DEF RequestTurn, f
  <2>4. RequestTurn'
    BY <2>2, <2>3 DEF RequestTurn, Ends
  <2>5. CASE ~Waits
    <3>1. toClient = <<>> /\ \A i \in 1..Len(toServer) : Ends(toServer[i]) => toServer[i].follow = "nothing"
      BY <2>1, <2>5 DEF QuietTurn
    <3>2. \A i \in 1..Len(toServer') : Ends(toServer'[i]) => toServer'[i].follow = "nothing"
      <4> SUFFICES ASSUME NEW i \in 1..Len(toServer')
                   PROVE  Ends(toServer'[i]) => toServer'[i].follow = "nothing"
        OBVIOUS
      <4>1. i + 1 \in 1..Len(toServer) /\ toServer'[i] = toServer[i + 1]
        BY <1>2
      <4> QED
        BY <3>1, <4>1
    <3>3. srv'.state = "read"
      <4>1. 1 \in 1..Len(toServer)
        BY <1>2
      <4> QED
        BY <1>3, <3>1, <4>1 DEF f
    <3> QED
      BY <1>1, <1>4, <2>4, <2>5, <3>1, <3>2, <3>3 DEF QuietTurn, WaitingTurn, Ends
  <2>6. CASE Waits
    <3>1. toClient = <<>> /\ Ends(LastOf(toServer)) /\ LastOf(toServer).follow = "reply"
      BY <1>1, <2>1, <2>6 DEF WaitingTurn
    <3>2. CASE toServer' = <<>>
      <4>1. srv'.state = "answer"
        BY <1>2, <1>3, <3>1, <3>2
      <4> QED
        BY <1>1, <1>4, <2>4, <2>6, <3>1, <3>2, <4>1 DEF QuietTurn, WaitingTurn
    <3>3. CASE toServer' # <<>>
      BY <1>1, <1>2, <1>4, <2>4, <2>6, <3>1, <3>3 DEF QuietTurn, WaitingTurn, Ends
    <3> QED
      BY <3>2, <3>3
  <2> QED
    BY <2>5, <2>6
<1> QED
  BY <1>4, <1>5 DEF Turns

LEMMA TurnsServerAnswer ==
  ASSUME TypeInv, Turns, NEW size \in ReplySizes, NEW follow \in Follow, ServerAnswer(size, follow)
  PROVE  Turns'
<1>1. /\ srv.state = "answer" /\ srv'.state = "write"
      /\ UNCHANGED <<op, awaiting, error, toServer, toClient, requests>>
  BY DEF ServerAnswer, TypeInv, TypeOK, Srv, clientVars
<1>2. TurnShape' /\ (Unbroken' => Unbroken) /\ (Waits' <=> Waits)
  BY <1>1 DEF Turns, TurnShape, Unbroken, Waits, LastOf, ExactMultiple
<1>3. Unbroken => RequestTurn' /\ QuietTurn' /\ WaitingTurn'
  BY <1>1, <1>2 DEF Turns, RequestTurn, QuietTurn, WaitingTurn, Ends, LastOf
<1> QED
  BY <1>2, <1>3 DEF Turns

LEMMA TurnsServerWrite ==
  ASSUME TypeInv, Turns, ServerWrite
  PROVE  Turns'
<1> DEFINE m == LastOf(replies)
           size == compute_size_to_write(Len(m.body), srv.off)
           f == FrameOf(m, srv.off, size, srv.seq)
<1>1. /\ srv.state = "write"
      /\ UNCHANGED <<sequence_number, op, awaiting, error, toServer, requests>>
  BY DEF ServerWrite, clientVars, logVars
<1>2. f.size = size /\ f.follow = m.follow
  BY DEF FrameOf
<1>3. f \in Frame /\ m.follow \in Follow
  <2>1. m \in Message /\ srv.off \in Nat /\ srv.off <= Len(m.body) /\ Len(m.body) \in Nat
    <3>1. m \in Message /\ srv.off <= Len(m.body)
      BY <1>1, LastType DEF TypeInv, TypeOK, WriteInRange
    <3>2. srv.off \in Nat
      BY DEF TypeInv, TypeOK, Srv
    <3> QED
      BY <3>1, <3>2 DEF Message
  <2>2. size \in Nat /\ srv.off + size <= Len(m.body)
    <3> HIDE DEF m
    <3> QED
      BY <2>1, WriteSize
  <2> QED
    BY <2>1, <2>2, FrameType DEF TypeInv, TypeOK, Srv, Message
<1>4. toClient \in Seq(Frame) /\ toClient' = Append(toClient, f)
  BY DEF ServerWrite, TypeInv, TypeOK
<1>5. IF Ends(f) /\ f.follow = "nothing" THEN srv'.state = "read" ELSE srv'.state \in {"answer", "write"}
  <2>1. CASE size = MaxPacket
    <3>1. srv' = [srv EXCEPT !.seq = NextSeq(@), !.off = @ + size]
      BY <2>1 DEF ServerWrite
    <3>2. srv'.state = "write"
      BY <1>1, <3>1 DEF TypeInv, TypeOK, Srv
    <3> HIDE DEF f
    <3> QED
      BY <1>2, <2>1, <3>2 DEF Ends
  <2>2. CASE size # MaxPacket
    <3>1. srv' = AfterMessage(m.follow)
      BY <2>2 DEF ServerWrite
    <3> HIDE DEF f, size
    <3> QED
      BY <1>2, <1>3, <2>2, <3>1 DEF AfterMessage, Ends, Follow
  <2> QED
    BY <2>1, <2>2
<1> HIDE DEF f
<1>6. /\ toClient' # <<>> /\ LastOf(toClient') = f /\ Len(toClient') = Len(toClient) + 1
      /\ \A i \in 1..Len(toClient) : toClient'[i] = toClient[i]
      /\ toClient # <<>> => LastOf(toClient) = toClient[Len(toClient)]
      /\ Len(toClient) \in Nat
  BY <1>3, <1>4, AppendFacts
<1>7. TurnShape' /\ (Unbroken' => Unbroken) /\ (Waits' <=> Waits)
  <2>1. Unbroken' => Unbroken
    BY <1>1 DEF Unbroken
  <2>2. TurnShape' /\ (Waits' <=> Waits)
    BY <1>1 DEF Turns, TurnShape, Waits, LastOf, ExactMultiple
  <2> QED
    BY <2>1, <2>2
<1>8. Unbroken => RequestTurn' /\ QuietTurn' /\ WaitingTurn'
  <2> SUFFICES ASSUME Unbroken PROVE RequestTurn' /\ QuietTurn' /\ WaitingTurn'
    OBVIOUS
  <2>1. RequestTurn /\ QuietTurn /\ WaitingTurn
    BY DEF Turns
  <2>2. Waits /\ toServer = <<>>
    BY <1>1, <2>1 DEF RequestTurn, QuietTurn
  <2>3. \A i \in 1..(Len(toClient) - 1) : Ends(toClient[i]) => toClient[i].follow = "reply"
    BY <2>1, <2>2 DEF WaitingTurn
  <2>4. toClient # <<>> => (Ends(LastOf(toClient)) => LastOf(toClient).follow = "reply")
    <3>1. toClient # <<>> => LastOf(toClient).follow \in Follow
      BY <1>4, LastType DEF Frame
    <3> QED
      BY <1>1, <2>1, <2>2, <3>1 DEF WaitingTurn, Follow
  <2>5. \A i \in 1..(Len(toClient') - 1) : Ends(toClient'[i]) => toClient'[i].follow = "reply"
    <3> SUFFICES ASSUME NEW i \in 1..(Len(toClient') - 1)
                 PROVE  Ends(toClient'[i]) => toClient'[i].follow = "reply"
      OBVIOUS
    <3>1. CASE i = Len(toClient)
      <4>1. toClient # <<>> /\ toClient'[i] = LastOf(toClient)
        BY <1>6, <3>1
      <4> QED
        BY <2>4, <4>1
    <3>2. CASE i < Len(toClient)
      <4>1. i \in 1..(Len(toClient) - 1) /\ toClient'[i] = toClient[i]
        BY <1>6, <3>2
      <4> QED
        BY <2>3, <4>1
    <3> QED
      BY <1>6, <3>1, <3>2
  <2> QED
    BY <1>1, <1>5, <1>6, <1>7, <2>2, <2>5 DEF RequestTurn, QuietTurn, WaitingTurn, Ends
<1> QED
  BY <1>7, <1>8 DEF Turns

LEMMA TurnsNext ==
  ASSUME TypeInv, Turns, [Next]_vars
  PROVE  Turns'
<1>1. CASE ServerMismatch
  <2>1. srv'.state = "refused" /\ UNCHANGED <<op, awaiting, error, requests>>
    BY <1>1 DEF ServerMismatch, clientVars, TypeInv, TypeOK, Srv
  <2> QED
    BY <2>1 DEF Turns, TurnShape, Unbroken, LastOf
<1>2. CASE UNCHANGED vars
  <2>1. UNCHANGED <<op, awaiting, error, toServer, toClient, srv, requests>>
    BY <1>2 DEF vars, clientVars, logVars
  <2> QED
    BY <2>1 DEF Turns, TurnShape, Unbroken, RequestTurn, QuietTurn, WaitingTurn, Waits, ExactMultiple,
                Ends, LastOf
<1> QED
  BY <1>1, <1>2, TurnsStartRequest, TurnsWriteFrame, TurnsClient, TurnsReadBody, TurnsServerRead,
     TurnsServerAnswer, TurnsServerWrite
  DEF Next, Client, Server

(***************************************************************************)
(* When a caller waits for a reply that nobody is going to send, because   *)
(* the server still waits for a part of the request, the request is a      *)
(* positive multiple of MAX_PACKET_SIZE: the frame that channel::write     *)
(* leaves out is the only one it ever owes the server.                     *)
(***************************************************************************)
THEOREM NobodyStarves == Spec => []StarvesOnlyAtExactMultiple
<1>1. Turns => StarvesOnlyAtExactMultiple
  BY DEF Turns, StarvesOnlyAtExactMultiple, PeerStarves, WaitingTurn, Waits, Unbroken
<1>2. TypeInv /\ Turns /\ [Next]_vars => Turns'
  BY TurnsNext
<1> QED
  BY <1>1, <1>2, TurnsInit, TypeInvariant, PTL DEF Spec

-----------------------------------------------------------------------------
(***************************************************************************)
(* The refinement: frames, headers, sequence numbers and partial reads     *)
(* amount to a reliable queue of whole messages in each direction, as      *)
(* MessageChannel has it, for all message sizes but those of               *)
(* NoRequestWraps.                                                         *)
(***************************************************************************)

(***************************************************************************)
(* A request of a positive multiple of MaxPacket * SeqMod bytes (4 GB less *)
(* 256 bytes in the code) lacks its closing frame, and the server then     *)
(* waits for number 0, which is the number of the next request: it would   *)
(* take that request for the rest of this one.                             *)
(***************************************************************************)
NoRequestWraps ==
  \A size \in RequestSizes : \A k \in 1..size : size # k * (MaxPacket * SeqMod)

-----------------------------------------------------------------------------
(* Where a frame belongs: the message of the log it is part of, and how     *)
(* many frames of that message come before it.                              *)

Position == Nat \X Nat
Off(p) == p[2] * MaxPacket
Piece(k, off, size) == [i \in 1..size |-> <<k, off + i>>]

\* The position of the frame after that at p.  The server closes a message
\* that fills its last frame, the client does not.
After(log, p, closes) ==
  LET len == Len(log[p[1]].body) IN
  IF Off(p) + MaxPacket < len \/ (closes /\ Off(p) + MaxPacket = len)
    THEN <<p[1], p[2] + 1>>
    ELSE <<p[1] + 1, 0>>

\* Frame f is the one at position p of the log.
IsFrame(log, p, f, closes) ==
  /\ p[1] \in 1..Len(log) /\ Off(p) <= Len(log[p[1]].body)
  /\ f.size = compute_size_to_write(Len(log[p[1]].body), Off(p))
  /\ f.body = Piece(p[1], Off(p), f.size) /\ f.follow = log[p[1]].follow
  /\ ~closes => f.seq = p[2] % SeqMod

\* The frames are those of the log from the position first on, up to but not
\* including the one at last; at[i] is the position of the i-th.
Placed(frames, log, at, closes) ==
  \A i \in 1..Len(frames) :
    IsFrame(log, at[i], frames[i], closes) /\ at[i + 1] = After(log, at[i], closes)

InFlight(frames, log, first, last, closes) ==
  \E at \in [1..(Len(frames) + 1) -> Position] :
    at[1] = first /\ at[Len(frames) + 1] = last /\ Placed(frames, log, at, closes)

-----------------------------------------------------------------------------
(* Bytes and numbers *)

LEMMA OffType ==
  ASSUME NEW p \in Position
  PROVE  /\ p[1] \in Nat /\ p[2] \in Nat /\ Off(p) \in Nat /\ p = <<p[1], p[2]>>
         /\ Off(<<p[1], p[2] + 1>>) = Off(p) + MaxPacket
         /\ Off(<<p[1] + 1, 0>>) = 0
<1>1. p[1] \in Nat /\ p[2] \in Nat /\ p = <<p[1], p[2]>> /\ MaxPacket \in Nat
  BY MaxPacketAssumption DEF Position
<1>2. (p[2] + 1) * MaxPacket = p[2] * MaxPacket + MaxPacket /\ p[2] * MaxPacket \in Nat /\ 0 * MaxPacket = 0
  BY <1>1
<1> QED
  BY <1>1, <1>2 DEF Off

LEMMA AfterType ==
  ASSUME NEW log, NEW p \in Position, NEW closes
  PROVE  After(log, p, closes) \in Position
  BY OffType DEF After, Position

\* A message with one more part.
LEMMA BytesAndPiece ==
  ASSUME NEW k \in Nat, NEW off \in Nat, NEW size \in Nat
  PROVE  Bytes(k, off) \o Piece(k, off, size) = Bytes(k, off + size)
<1>1. Bytes(k, off) \in Seq(Byte) /\ Len(Bytes(k, off)) = off
  BY BytesType
<1>2. Piece(k, off, size) \in Seq(Byte) /\ Len(Piece(k, off, size)) = size
  BY DEF Piece, Byte
<1> QED
  BY <1>1, <1>2 DEF Bytes, Piece

LEMMA JoinFacts ==
  ASSUME NEW S, NEW s \in Seq(S), NEW t \in Seq(S)
  PROVE  Len(s \o t) = Len(s) + Len(t) /\ \A i \in 1..Len(s) : (s \o t)[i] = s[i]
OBVIOUS

LEMMA NoBytes ==
  ASSUME NEW k \in Nat
  PROVE  Bytes(k, 0) = <<>> /\ Piece(k, 0, 0) = <<>>
  BY DEF Bytes, Piece

LEMMA Remainder ==
  ASSUME NEW m \in Nat \ {0}, NEW q \in Nat, NEW r \in Nat, r < m
  PROVE  (m * q + r) % m = r
OBVIOUS

\* The number after that of a frame is that of the next frame.
LEMMA NextSeqOfFrame ==
  ASSUME NEW a \in Nat
  PROVE  NextSeq(a % SeqMod) = (a + 1) % SeqMod
<1> DEFINE q == a \div SeqMod
           r == a % SeqMod
<1>1. a = SeqMod * q + r /\ r \in Nat /\ r < SeqMod /\ q \in Nat /\ SeqMod \in Nat \ {0}
  BY SeqModAssumption
<1> HIDE DEF q
<1>2. NextSeq(r) = (r + 1) % SeqMod
  BY DEF NextSeq
<1> HIDE DEF r
<1>3. CASE r + 1 < SeqMod
  <2>1. (SeqMod * q + (r + 1)) % SeqMod = r + 1 /\ (SeqMod * 0 + (r + 1)) % SeqMod = r + 1
    BY <1>1, <1>3, Remainder
  <2>2. (a + 1) % SeqMod = (r + 1) % SeqMod
    BY <1>1, <2>1
  <2> QED
    BY <1>2, <2>2 DEF r
<1>4. CASE r + 1 = SeqMod
  <2>1. (SeqMod * (q + 1) + 0) % SeqMod = 0 /\ (SeqMod * 1 + 0) % SeqMod = 0
    BY <1>1, Remainder
  <2>2. a + 1 = SeqMod * (q + 1) + 0 /\ r + 1 = SeqMod * 1 + 0
    BY <1>1, <1>4
  <2>3. (a + 1) % SeqMod = (r + 1) % SeqMod
    BY <2>1, <2>2
  <2> QED
    BY <1>2, <2>3 DEF r
<1> QED
  BY <1>1, <1>3, <1>4

-----------------------------------------------------------------------------
(* Frames in flight *)

LEMMA IsFrameGrows ==
  ASSUME NEW log \in Seq(Message), NEW m \in Message, NEW p \in Position, NEW f, NEW closes \in BOOLEAN,
         IsFrame(log, p, f, closes)
  PROVE  /\ IsFrame(Append(log, m), p, f, closes)
         /\ After(Append(log, m), p, closes) = After(log, p, closes)
<1>1. p[1] \in 1..Len(log)
  BY DEF IsFrame
<1>2. Append(log, m)[p[1]] = log[p[1]] /\ p[1] \in 1..Len(Append(log, m))
  BY <1>1
<1> QED
  BY <1>2 DEF IsFrame, After

LEMMA InFlightGrows ==
  ASSUME NEW log \in Seq(Message), NEW m \in Message, NEW frames \in Seq(Frame), NEW first, NEW last,
         NEW closes \in BOOLEAN, InFlight(frames, log, first, last, closes)
  PROVE  InFlight(frames, Append(log, m), first, last, closes)
<1>1. PICK at \in [1..(Len(frames) + 1) -> Position] :
        at[1] = first /\ at[Len(frames) + 1] = last /\ Placed(frames, log, at, closes)
  BY DEF InFlight
<1>2. Placed(frames, Append(log, m), at, closes)
  <2> SUFFICES ASSUME NEW i \in 1..Len(frames)
               PROVE  /\ IsFrame(Append(log, m), at[i], frames[i], closes)
                      /\ at[i + 1] = After(Append(log, m), at[i], closes)
    BY DEF Placed
  <2>1. at[i] \in Position
    BY <1>1
  <2> QED
    BY <1>1, <2>1, IsFrameGrows DEF Placed
<1> QED
  BY <1>1, <1>2 DEF InFlight

LEMMA InFlightType ==
  ASSUME NEW log, NEW frames \in Seq(Frame), NEW first, NEW last, NEW closes,
         InFlight(frames, log, first, last, closes)
  PROVE  first \in Position /\ last \in Position /\ (frames = <<>> => first = last)
<1>1. PICK at \in [1..(Len(frames) + 1) -> Position] :
        at[1] = first /\ at[Len(frames) + 1] = last
  BY DEF InFlight
<1>2. 1 \in 1..(Len(frames) + 1) /\ Len(frames) + 1 \in 1..(Len(frames) + 1)
  OBVIOUS
<1> QED
  BY <1>1, <1>2

LEMMA InFlightEmpty ==
  ASSUME NEW log, NEW p \in Position, NEW closes
  PROVE  InFlight(<<>>, log, p, p, closes)
<1> DEFINE at == [i \in 1..1 |-> p]
<1>1. at \in [1..(Len(<<>>) + 1) -> Position] /\ at[1] = p /\ at[Len(<<>>) + 1] = p
  OBVIOUS
<1>2. Placed(<<>>, log, at, closes)
  BY DEF Placed
<1> QED
  BY <1>1, <1>2 DEF InFlight

LEMMA InFlightAppend ==
  ASSUME NEW log, NEW frames \in Seq(Frame), NEW f \in Frame, NEW first, NEW last, NEW closes,
         InFlight(frames, log, first, last, closes), IsFrame(log, last, f, closes)
  PROVE  InFlight(Append(frames, f), log, first, After(log, last, closes), closes)
<1>1. PICK at \in [1..(Len(frames) + 1) -> Position] :
        at[1] = first /\ at[Len(frames) + 1] = last /\ Placed(frames, log, at, closes)
  BY DEF InFlight
<1> DEFINE n == Len(frames)
           next == After(log, last, closes)
           longer == [i \in 1..(n + 2) |-> IF i <= n + 1 THEN at[i] ELSE next]
<1>2. n \in Nat /\ Len(Append(frames, f)) = n + 1 /\ Append(frames, f)[n + 1] = f
      /\ \A i \in 1..n : Append(frames, f)[i] = frames[i]
  OBVIOUS
<1>3. next \in Position
  BY InFlightType, AfterType
<1> HIDE DEF n, next
<1>4. /\ longer \in [1..(n + 2) -> Position]
      /\ \A i \in 1..(n + 1) : longer[i] = at[i]
      /\ longer[n + 2] = next
  BY <1>1, <1>2, <1>3 DEF n
<1> HIDE DEF longer
<1>5. Placed(Append(frames, f), log, longer, closes)
  <2> SUFFICES ASSUME NEW i \in 1..(n + 1)
               PROVE  /\ IsFrame(log, longer[i], Append(frames, f)[i], closes)
                      /\ longer[i + 1] = After(log, longer[i], closes)
    BY <1>2 DEF Placed
  <2>1. CASE i <= n
    <3>1. i \in 1..n /\ longer[i] = at[i] /\ longer[i + 1] = at[i + 1]
      BY <1>2, <1>4, <2>1
    <3> QED
      BY <1>1, <1>2, <3>1 DEF Placed, n
  <2>2. CASE i = n + 1
    <3>1. longer[i] = last /\ longer[i + 1] = next /\ Append(frames, f)[i] = f
      BY <1>1, <1>2, <1>4, <2>2 DEF n
    <3> QED
      BY <3>1 DEF next
  <2> QED
    BY <1>2, <2>1, <2>2
<1>6. longer[1] = first /\ longer[Len(Append(frames, f)) + 1] = next
  BY <1>1, <1>2, <1>4
<1>7. longer \in [1..(Len(Append(frames, f)) + 1) -> Position]
  BY <1>2, <1>4
<1> QED
  BY <1>5, <1>6, <1>7 DEF InFlight, next

LEMMA InFlightTail ==
  ASSUME NEW log, NEW frames \in Seq(Frame), frames # <<>>, NEW first, NEW last, NEW closes,
         InFlight(frames, log, first, last, closes)
  PROVE  /\ IsFrame(log, first, Head(frames), closes)
         /\ InFlight(Tail(frames), log, After(log, first, closes), last, closes)
<1>1. PICK at \in [1..(Len(frames) + 1) -> Position] :
        at[1] = first /\ at[Len(frames) + 1] = last /\ Placed(frames, log, at, closes)
  BY DEF InFlight
<1> DEFINE n == Len(frames)
           rest == [i \in 1..n |-> at[i + 1]]
<1>2. n \in Nat \ {0} /\ Len(Tail(frames)) = n - 1 /\ Head(frames) = frames[1]
      /\ \A i \in 1..(n - 1) : Tail(frames)[i] = frames[i + 1]
  BY TailFacts
<1>3. IsFrame(log, first, frames[1], closes) /\ at[1 + 1] = After(log, first, closes)
  BY <1>1, <1>2 DEF Placed
<1> HIDE DEF n
<1>4. rest \in [1..n -> Position] /\ \A i \in 1..n : rest[i] = at[i + 1]
  BY <1>1, <1>2 DEF n
<1> HIDE DEF rest
<1>5. Placed(Tail(frames), log, rest, closes)
  <2> SUFFICES ASSUME NEW i \in 1..(n - 1)
               PROVE  /\ IsFrame(log, rest[i], Tail(frames)[i], closes)
                      /\ rest[i + 1] = After(log, rest[i], closes)
    BY <1>2 DEF Placed
  <2>1. /\ rest[i] = at[i + 1] /\ rest[i + 1] = at[(i + 1) + 1] /\ Tail(frames)[i] = frames[i + 1]
        /\ i + 1 \in 1..n
    BY <1>2, <1>4
  <2> QED
    BY <1>1, <2>1 DEF Placed, n
<1>6. rest[1] = After(log, first, closes) /\ rest[Len(Tail(frames)) + 1] = last
  BY <1>1, <1>2, <1>3, <1>4 DEF n
<1>7. rest \in [1..(Len(Tail(frames)) + 1) -> Position]
  BY <1>2, <1>4
<1>8. InFlight(Tail(frames), log, After(log, first, closes), last, closes)
  BY <1>5, <1>6, <1>7 DEF InFlight
<1> QED
  BY <1>2, <1>3, <1>8

-----------------------------------------------------------------------------
(* The inductive invariant *)

\* What the logs hold, and how many replies there can be: only replies that
\* are the last of their request are not counted by MaxReplies.
LogShape ==
  /\ op.kind # "idle" => error = "none"
  /\ Len(served) <= Len(requests) /\ Len(requests) <= MaxRequests
  /\ \A k \in 1..Len(requests) : requests[k].body = Bytes(k, Len(requests[k].body))
                                  /\ Len(requests[k].body) \in RequestSizes
  /\ \A k \in 1..Len(replies) : replies[k].body = Bytes(k, Len(replies[k].body))
  /\ srv.state = "read" => Len(replies) <= MaxReplies + Len(served)
  /\ srv.state = "answer" => Len(replies) + 1 <= MaxReplies + Len(served)
  /\ srv.state = "write" =>
       /\ Len(replies) <= MaxReplies + Len(served)
       /\ LastOf(replies).follow = "reply" => Len(replies) + 1 <= MaxReplies + Len(served)

\* The server has read q frames of its request.  The first frame on its way is
\* the next one, unless the request filled its last frame: then the server
\* waits for one more and the first frame on its way is of the next request.
ServerReads(p) ==
  \E q \in Nat :
    /\ srv.seq = q % SeqMod
    /\ srv.buf = Bytes(Len(served) + 1, q * MaxPacket)
    /\ \/ p = <<Len(served) + 1, q>>
       \/ /\ p = <<Len(served) + 2, 0>> /\ q > 0 /\ Len(served) < Len(requests)
          /\ Len(requests[Len(served) + 1].body) = q * MaxPacket

\* The frame that the client writes next.
ClientWrites(p) ==
  IF op.kind = "write"
    THEN p[1] = Len(requests) /\ op.total = Off(p) /\ sequence_number = p[2] % SeqMod
    ELSE p = <<Len(requests) + 1, 0>>

RequestsFaithful ==
  \E first, last :
    /\ InFlight(toServer, requests, first, last, FALSE)
    /\ srv.state = "read" => ServerReads(first)
    /\ srv.state \in {"answer", "write"} => first = <<Len(served) + 1, 0>>
    /\ error = "none" => ClientWrites(last)

\* The frame that the client reads next, and what it has of its message.
ClientReads(p) ==
  /\ p[1] = Len(delivered) + 1
  /\ op.kind \in {"idle", "write"} => p[2] = 0
  /\ op.kind \in {"read_header", "read_body"} => op.total = Off(p)
  /\ op.kind = "read_header" => buffer = Bytes(p[1], op.total)
  /\ op.kind = "read_body" =>
       /\ toClient # <<>> /\ op.size = toClient[1].size /\ Len(buffer) = op.total + op.size
       /\ \A i \in 1..op.total : buffer[i] = <<p[1], i>>

\* The frame that the server writes next.
ServerWrites(p) ==
  IF srv.state = "write"
    THEN p[1] = Len(replies) /\ srv.off = Off(p)
    ELSE p = <<Len(replies) + 1, 0>>

RepliesFaithful ==
  error = "none" =>
    \E first, last :
      /\ InFlight(toClient, replies, first, last, TRUE)
      /\ ClientReads(first) /\ ServerWrites(last)

Faithful == LogShape /\ RequestsFaithful /\ RepliesFaithful

LEMMA FaithfulInit == Init => Faithful
<1> SUFFICES ASSUME Init PROVE Faithful
  OBVIOUS
<1>1. LogShape
  BY BoundsAssumption DEF Init, LogShape, Idle, Started
<1>2. <<1, 0>> \in Position
  BY DEF Position
<1>3. RequestsFaithful
  <2>1. InFlight(toServer, requests, <<1, 0>>, <<1, 0>>, FALSE)
    BY <1>2, InFlightEmpty DEF Init
  <2>2. ServerReads(<<1, 0>>)
    <3>1. 0 % SeqMod = 0 /\ 0 * MaxPacket = 0 /\ Bytes(Len(served) + 1, 0) = <<>>
      BY SeqModAssumption, MaxPacketAssumption, NoBytes DEF Init
    <3> QED
      BY <3>1 DEF Init, ServerReads
  <2>3. ClientWrites(<<1, 0>>)
    BY DEF Init, ClientWrites, Idle, Started
  <2> QED
    BY <2>1, <2>2, <2>3 DEF Init, RequestsFaithful
<1>4. RepliesFaithful
  <2>1. InFlight(toClient, replies, <<1, 0>>, <<1, 0>>, TRUE)
    BY <1>2, InFlightEmpty DEF Init
  <2>2. ClientReads(<<1, 0>>) /\ ServerWrites(<<1, 0>>)
    BY DEF Init, ClientReads, ServerWrites, Idle, Started
  <2> QED
    BY <2>1, <2>2 DEF RepliesFaithful
<1> QED
  BY <1>1, <1>3, <1>4 DEF Faithful

\* The frame that FrameOf cuts out of a message of the log is the one at its
\* position.
Cuts(log, p, m, off, seq) ==
  /\ log \in Seq(Message) /\ p \in Position /\ p[1] \in 1..Len(log) /\ m = log[p[1]] /\ off = Off(p)
  /\ m.body = Bytes(p[1], Len(m.body)) /\ off <= Len(m.body) /\ seq \in 0..(SeqMod - 1)

LEMMA CutFrame ==
  ASSUME NEW log, NEW p, NEW m, NEW off, NEW seq, Cuts(log, p, m, off, seq)
  PROVE  LET size == compute_size_to_write(Len(m.body), off)
             f == FrameOf(m, off, size, seq)
         IN  /\ IsFrame(log, p, f, TRUE) /\ f \in Frame
             /\ seq = p[2] % SeqMod => IsFrame(log, p, f, FALSE)
<1> DEFINE len == Len(m.body)
           size == compute_size_to_write(len, off)
           f == FrameOf(m, off, size, seq)
<1>1. m \in Message /\ len \in Nat /\ off \in Nat /\ p[1] \in Nat
  <2>1. m \in Message
    BY DEF Cuts
  <2>2. m.body \in Seq(Byte)
    BY <2>1 DEF Message
  <2>3. p[1] \in Nat /\ off \in Nat
    BY OffType DEF Cuts
  <2> QED
    BY <2>1, <2>2, <2>3
<1>2. size \in Nat /\ off + size <= len
  <2>1. off <= len
    BY DEF Cuts
  <2> QED
    BY <1>1, <2>1, WriteSize
<1> HIDE DEF size
<1>3. f.body = Piece(p[1], off, size) /\ f.size = size /\ f.follow = m.follow /\ f.seq = seq
  <2>1. SubSeq(Bytes(p[1], len), off + 1, off + size) = Piece(p[1], off, size)
    <3> HIDE DEF len
    <3> QED
      BY <1>1, <1>2 DEF Bytes, Piece
  <2>2. m.body = Bytes(p[1], len)
    BY DEF Cuts
  <2>3. f.body = SubSeq(m.body, off + 1, off + size)
    BY DEF FrameOf
  <2>4. f.size = size /\ f.follow = m.follow /\ f.seq = seq
    BY DEF FrameOf
  <2> QED
    BY <2>1, <2>2, <2>3, <2>4, Zenon
<1>4. f \in Frame
  <2>1. seq \in 0..(SeqMod - 1) /\ off + size <= Len(m.body)
    BY <1>2 DEF Cuts
  <2> QED
    BY <1>1, <1>2, <2>1, FrameType
<1>5. IsFrame(log, p, f, TRUE) /\ (seq = p[2] % SeqMod => IsFrame(log, p, f, FALSE))
  <2>1. /\ p[1] \in 1..Len(log) /\ m = log[p[1]] /\ off = Off(p) /\ off <= len
        /\ size = compute_size_to_write(len, off)
    BY DEF Cuts, size
  <2> HIDE DEF f
  <2> QED
    BY <1>3, <2>1 DEF IsFrame
<1> QED
  BY <1>3, <1>4, <1>5 DEF size

-----------------------------------------------------------------------------
(* Steps that take or add a request frame *)

\* A number the server waits for in vain: it is 0 only after a multiple of
\* SeqMod frames.
LEMMA WrapsAt ==
  ASSUME NEW q \in Nat, q > 0, q % SeqMod = 0
  PROVE  \E k \in 1..(q * MaxPacket) : q * MaxPacket = k * (MaxPacket * SeqMod)
<1> DEFINE k == q \div SeqMod
<1>1. SeqMod \in Nat \ {0} /\ MaxPacket \in Nat \ {0}
  BY SeqModAssumption, MaxPacketAssumption
<1>2. k \in Nat /\ q = SeqMod * k
  BY <1>1
<1> HIDE DEF k
<1>3. k > 0 /\ k <= q
  BY <1>1, <1>2
<1>4. q <= q * MaxPacket
  BY <1>1
<1>5. q * MaxPacket = k * (MaxPacket * SeqMod)
  BY <1>1, <1>2
<1>6. k \in 1..(q * MaxPacket)
  BY <1>1, <1>2, <1>3, <1>4
<1> QED
  BY <1>5, <1>6

\* The server accepts a frame of its request only.
LEMMA AcceptsItsOwn ==
  ASSUME NoRequestWraps, TypeInv, LogShape, toServer # <<>>, Head(toServer).seq = srv.seq,
         NEW first, NEW last, InFlight(toServer, requests, first, last, FALSE),
         NEW q \in Nat, srv.seq = q % SeqMod,
         \/ first = <<Len(served) + 1, q>>
         \/ /\ first = <<Len(served) + 2, 0>> /\ q > 0 /\ Len(served) < Len(requests)
            /\ Len(requests[Len(served) + 1].body) = q * MaxPacket
  PROVE  first = <<Len(served) + 1, q>>
<1> SUFFICES ASSUME first = <<Len(served) + 2, 0>>, q > 0, Len(served) < Len(requests),
                    Len(requests[Len(served) + 1].body) = q * MaxPacket
             PROVE  FALSE
  OBVIOUS
<1>1. IsFrame(requests, first, Head(toServer), FALSE)
  BY InFlightTail DEF TypeInv, TypeOK
<1>2. q % SeqMod = 0
  <2>1. first[2] = 0 /\ Head(toServer).seq = first[2] % SeqMod
    BY <1>1 DEF IsFrame
  <2> QED
    BY <2>1, SeqModAssumption
<1>3. Len(served) + 1 \in 1..Len(requests)
  BY DEF TypeInv, TypeOK
<1>4. q * MaxPacket \in RequestSizes
  BY <1>3 DEF LogShape
<1> QED
  BY <1>2, <1>4, WrapsAt DEF NoRequestWraps

LEMMA AfterMessageReads ==
  ASSUME NEW follow \in Follow, srv' = AfterMessage(follow), NEW p, p = <<Len(served') + 1, 0>>,
         served' \in Seq(Message)
  PROVE  /\ srv'.state \in {"read", "answer"}
         /\ srv'.state = "answer" <=> follow = "reply"
         /\ srv'.state = "read" => ServerReads(p)'
<1>1. 0 % SeqMod = 0 /\ 0 * MaxPacket = 0
  BY SeqModAssumption, MaxPacketAssumption
<1>2. Bytes(Len(served') + 1, 0) = <<>>
  BY NoBytes
<1>3. srv'.state = "read" => srv'.seq = 0 /\ srv'.buf = <<>>
  BY DEF AfterMessage
<1>4. srv'.state \in {"read", "answer"} /\ (srv'.state = "answer" <=> follow = "reply")
  BY DEF AfterMessage, Follow
<1> QED
  BY <1>1, <1>2, <1>3, <1>4 DEF ServerReads, Bytes

\* What is left of a request goes on where the server is, and a request that
\* the server has read to its end is the next of the log.
LEMMA TakeRequestFrame ==
  ASSUME NoRequestWraps, TypeInv, LogShape, RequestsFaithful, ServerRead
  PROVE  /\ RequestsFaithful'
         /\ \/ /\ UNCHANGED served /\ srv'.state = "read"
            \/ /\ Len(served) + 1 \in 1..Len(requests)
               /\ served' = Append(served, requests[Len(served) + 1])
               /\ srv'.state \in {"read", "answer"}
<1>1. PICK first, last :
        /\ InFlight(toServer, requests, first, last, FALSE)
        /\ srv.state = "read" => ServerReads(first)
        /\ error = "none" => ClientWrites(last)
  BY DEF RequestsFaithful
<1> DEFINE f == Head(toServer)
           k == Len(served) + 1
           m == requests[k]
           len == Len(m.body)
<1> PICK next : next = After(requests, first, FALSE)
  OBVIOUS
<1>2. /\ srv.state = "read" /\ toServer # <<>> /\ f.seq = srv.seq /\ toServer' = Tail(toServer)
      /\ UNCHANGED <<op, sequence_number, error, requests>>
  BY DEF ServerRead, clientVars
<1>3. PICK q \in Nat : first = <<k, q>> /\ srv.buf = Bytes(k, q * MaxPacket) /\ srv.seq = q % SeqMod
  BY <1>1, <1>2, AcceptsItsOwn DEF ServerReads
<1>4. /\ IsFrame(requests, first, f, FALSE)
      /\ InFlight(toServer', requests, next, last, FALSE)
  BY <1>1, <1>2, InFlightTail DEF TypeInv, TypeOK
<1>5. first \in Position /\ Off(first) = q * MaxPacket /\ Off(first) \in Nat /\ first[1] = k /\ first[2] = q
  <2>1. first \in Position
    BY <1>1, InFlightType DEF TypeInv, TypeOK
  <2>2. first[1] = k /\ first[2] = q
    BY <1>3
  <2> QED
    BY <2>1, <2>2, OffType DEF Off
<1>6. /\ k \in 1..Len(requests) /\ m \in Message /\ len \in Nat /\ m.body = Bytes(k, len)
      /\ m = [body |-> m.body, follow |-> m.follow] /\ m.follow \in Follow
      /\ Len(served) \in Nat /\ k \in Nat
  <2>1. k \in 1..Len(requests) /\ Len(served) \in Nat /\ k \in Nat
    BY <1>4, <1>5 DEF IsFrame, TypeInv, TypeOK
  <2>2. m \in Message
    BY <2>1 DEF TypeInv, TypeOK
  <2>3. m.body = Bytes(k, len)
    BY <2>1 DEF LogShape
  <2> HIDE DEF m, k
  <2> QED
    BY <2>1, <2>2, <2>3 DEF Message
<1>7. /\ f.size = compute_size_to_write(len, Off(first)) /\ f.follow = m.follow
      /\ f.body = Piece(k, Off(first), f.size) /\ Off(first) <= len
  BY <1>4, <1>5 DEF IsFrame
<1>8. f.size \in Nat /\ f.size <= MaxPacket /\ Off(first) + f.size <= len
  BY <1>5, <1>6, <1>7, WriteSize
<1>9. srv.buf \o f.body = Bytes(k, Off(first) + f.size)
  <2>1. srv.buf = Bytes(k, Off(first)) /\ f.body = Piece(k, Off(first), f.size)
    BY <1>3, <1>5, <1>7
  <2>2. k \in Nat /\ Off(first) \in Nat /\ f.size \in Nat
    BY <1>5, <1>6, <1>8
  <2> HIDE DEF f, k
  <2>3. Bytes(k, Off(first)) \o Piece(k, Off(first), f.size) = Bytes(k, Off(first) + f.size)
    BY <2>2, BytesAndPiece
  <2> QED
    BY <2>1, <2>3
<1>10. error' = "none" => ClientWrites(last)'
  BY <1>1, <1>2 DEF ClientWrites
<1> HIDE DEF f, m
<1>11. CASE f.size = MaxPacket
  <2>1. srv' = [srv EXCEPT !.seq = NextSeq(@), !.buf = srv.buf \o f.body] /\ UNCHANGED served
    BY <1>11 DEF ServerRead, f
  <2>2. /\ srv'.state = "read" /\ srv'.seq = (q + 1) % SeqMod
        /\ srv'.buf = Bytes(k, (q + 1) * MaxPacket)
    <3>1. NextSeq(srv.seq) = (q + 1) % SeqMod
      BY <1>3, NextSeqOfFrame
    <3>2. (q + 1) * MaxPacket = Off(first) + f.size
      BY <1>5, <1>11, MaxPacketAssumption
    <3> QED
      BY <1>2, <1>9, <2>1, <3>1, <3>2 DEF TypeInv, TypeOK, Srv
  <2>3. \/ next = <<k, q + 1>>
        \/ next = <<k + 1, 0>> /\ len = (q + 1) * MaxPacket
    <3>1. Off(first) + MaxPacket = (q + 1) * MaxPacket /\ Off(first) + MaxPacket <= len
          /\ MaxPacket \in Nat
      BY <1>5, <1>8, <1>11, MaxPacketAssumption
    <3>2. CASE Off(first) + MaxPacket < len
      BY <1>5, <3>2 DEF After, m
    <3>3. CASE ~(Off(first) + MaxPacket < len)
      <4>1. len = (q + 1) * MaxPacket
        BY <1>5, <1>6, <3>1, <3>3
      <4> QED
        BY <1>5, <3>3, <4>1 DEF After, m
    <3> QED
      BY <3>2, <3>3
  <2>4. ServerReads(next)'
    <3>1. q + 1 \in Nat /\ q + 1 > 0 /\ Len(served) < Len(requests) /\ k + 1 = Len(served) + 2
      BY <1>6
    <3>2. \/ next = <<Len(served') + 1, q + 1>>
          \/ /\ next = <<Len(served') + 2, 0>> /\ Len(served') < Len(requests')
             /\ Len(requests'[Len(served') + 1].body) = (q + 1) * MaxPacket
      BY <1>2, <2>1, <2>3, <3>1 DEF m
    <3> QED
      BY <2>1, <2>2, <3>1, <3>2 DEF ServerReads, Bytes
  <2>5. RequestsFaithful'
    BY <1>2, <1>4, <1>10, <2>2, <2>4 DEF RequestsFaithful
  <2> QED
    BY <2>1, <2>2, <2>5
<1>12. CASE f.size # MaxPacket
  <2>1. served' = Append(served, [body |-> srv.buf \o f.body, follow |-> f.follow])
        /\ srv' = AfterMessage(f.follow)
    BY <1>12 DEF ServerRead, f
  <2>2. f.size = len - Off(first) /\ len - Off(first) < MaxPacket
    BY <1>7, <1>12 DEF compute_size_to_write
  <2>3. srv.buf \o f.body = m.body
    BY <1>5, <1>6, <1>9, <2>2
  <2>4. served' = Append(served, m)
    BY <1>6, <1>7, <2>1, <2>3
  <2>5. served' \in Seq(Message) /\ Len(served') = k
    BY <1>6, <2>4 DEF TypeInv, TypeOK
  <2>6. next = <<Len(served') + 1, 0>>
    <3>1. ~(Off(first) + MaxPacket < len)
      BY <1>5, <1>6, <2>2, MaxPacketAssumption
    <3> QED
      BY <1>5, <2>5, <3>1 DEF After, m
  <2>7. srv'.state \in {"read", "answer"} /\ (srv'.state = "read" => ServerReads(next)')
    BY <1>6, <1>7, <2>1, <2>5, <2>6, AfterMessageReads
  <2>8. RequestsFaithful'
    <3> QED
      BY <1>2, <1>4, <1>10, <2>6, <2>7 DEF RequestsFaithful
  <2> QED
    BY <1>6, <2>4, <2>7, <2>8 DEF m
<1> QED
  BY <1>11, <1>12

\* A new request is written from its first frame on.
LEMMA AddRequest ==
  ASSUME TypeInv, LogShape, RequestsFaithful,
         NEW size \in RequestSizes, NEW follow \in Follow, StartRequest(size, follow)
  PROVE  RequestsFaithful'
<1> DEFINE m == [body |-> Bytes(Len(requests) + 1, size), follow |-> follow]
<1>1. PICK first, last :
        /\ InFlight(toServer, requests, first, last, FALSE)
        /\ srv.state = "read" => ServerReads(first)
        /\ srv.state \in {"answer", "write"} => first = <<Len(served) + 1, 0>>
        /\ error = "none" => ClientWrites(last)
  BY DEF RequestsFaithful
<1>2. /\ op.kind = "idle" /\ error = "none" /\ sequence_number' = 0 /\ op' = Started("write")
      /\ requests' = Append(requests, m)
      /\ UNCHANGED <<error, toServer, srv, served>>
  BY DEF StartRequest
<1>3. m \in Message /\ requests \in Seq(Message) /\ Len(requests) \in Nat
  BY BytesType, SizesAssumption DEF Message, TypeInv, TypeOK
<1> HIDE DEF m
<1>4. Len(requests') = Len(requests) + 1 /\ \A i \in 1..Len(requests) : requests'[i] = requests[i]
  BY <1>2, <1>3
<1>5. InFlight(toServer, requests', first, last, FALSE)
  BY <1>1, <1>2, <1>3, InFlightGrows DEF TypeInv, TypeOK
<1>6. srv.state = "read" => ServerReads(first)'
  <2> SUFFICES ASSUME srv.state = "read" PROVE ServerReads(first)'
    OBVIOUS
  <2>1. PICK q \in Nat :
          /\ srv.seq = q % SeqMod
          /\ srv.buf = Bytes(Len(served) + 1, q * MaxPacket)
          /\ \/ first = <<Len(served) + 1, q>>
             \/ /\ first = <<Len(served) + 2, 0>> /\ q > 0 /\ Len(served) < Len(requests)
                /\ Len(requests[Len(served) + 1].body) = q * MaxPacket
    BY <1>1 DEF ServerReads
  <2>2. Len(served) < Len(requests) =>
          Len(served) < Len(requests') /\ requests'[Len(served) + 1] = requests[Len(served) + 1]
    <3>1. Len(served) \in Nat
      BY DEF TypeInv, TypeOK
    <3> QED
      BY <1>3, <1>4, <3>1
  <2> QED
    BY <1>2, <2>1, <2>2 DEF ServerReads, Bytes
<1>7. ClientWrites(last)'
  <2>1. last = <<Len(requests) + 1, 0>>
    BY <1>1, <1>2 DEF ClientWrites
  <2>2. last[1] = Len(requests') /\ last[2] = 0 /\ Off(last) = 0 /\ 0 % SeqMod = 0
    BY <1>4, <2>1, MaxPacketAssumption, SeqModAssumption DEF Off
  <2>3. op'.kind = "write" /\ op'.total = 0
    BY <1>2 DEF Started
  <2> QED
    BY <1>2, <2>2, <2>3 DEF ClientWrites, Off
<1> QED
  BY <1>1, <1>2, <1>5, <1>6, <1>7 DEF RequestsFaithful

\* The frame that the client writes is the next of its request, and the last
\* one is where the request ends.
LEMMA AddRequestFrame ==
  ASSUME TypeInv, LogShape, RequestsFaithful, WriteFrame
  PROVE  RequestsFaithful'
<1>1. PICK first, last :
        /\ InFlight(toServer, requests, first, last, FALSE)
        /\ srv.state = "read" => ServerReads(first)
        /\ srv.state \in {"answer", "write"} => first = <<Len(served) + 1, 0>>
        /\ error = "none" => ClientWrites(last)
  BY DEF RequestsFaithful
<1> DEFINE m == LastOf(requests)
           len == Len(m.body)
           size == compute_size_to_write(len, op.total)
           f == FrameOf(m, op.total, size, sequence_number)
<1>0. PICK next : next = After(requests, last, FALSE)
  OBVIOUS
<1>2. /\ op.kind = "write" /\ error = "none" /\ toServer' = Append(toServer, f)
      /\ sequence_number' = NextSeq(sequence_number)
      /\ UNCHANGED <<error, srv, requests, served>>
  BY DEF WriteFrame, logVars, LogShape
<1>3. last \in Position /\ last[1] = Len(requests) /\ op.total = Off(last)
      /\ sequence_number = last[2] % SeqMod
  BY <1>1, <1>2, InFlightType DEF ClientWrites, TypeInv, TypeOK
<1>4. /\ last[1] \in 1..Len(requests) /\ m = requests[last[1]] /\ requests \in Seq(Message)
      /\ Len(requests) \in Nat
  BY <1>2, <1>3 DEF TypeInv, TypeOK, WriteInRange, LastOf
<1>5. m.body = Bytes(last[1], len) /\ len \in Nat /\ Off(last) \in Nat /\ Off(last) <= len
  <2>1. m.body = Bytes(last[1], len) /\ op.total <= len
    BY <1>2, <1>4 DEF LogShape, TypeInv, WriteInRange
  <2>2. m \in Message
    BY <1>4
  <2>3. m.body \in Seq(Byte)
    BY <2>2 DEF Message
  <2>4. Off(last) \in Nat
    BY <1>3, OffType
  <2> QED
    BY <1>3, <2>1, <2>3, <2>4
<1>6. IsFrame(requests, last, f, FALSE) /\ f \in Frame /\ f.size = size
  <2>1. sequence_number \in 0..(SeqMod - 1)
    BY DEF TypeInv, TypeOK
  <2>2. Cuts(requests, last, m, op.total, sequence_number)
    <3> HIDE DEF m
    <3> QED
      BY <1>3, <1>4, <1>5, <2>1 DEF Cuts
  <2>3. sequence_number = last[2] % SeqMod
    BY <1>3
  <2> HIDE DEF m
  <2>4. f.size = size
    BY DEF FrameOf
  <2>5. f \in Frame
    BY <2>2, CutFrame, Zenon
  <2>6. IsFrame(requests, last, f, FALSE)
    BY <2>2, <2>3, CutFrame, Zenon
  <2> QED
    BY <2>4, <2>5, <2>6
<1>7. InFlight(toServer', requests', first, next, FALSE)
  <2> HIDE DEF f
  <2> QED
    BY <1>0, <1>1, <1>2, <1>6, InFlightAppend DEF TypeInv, TypeOK
<1>8. srv.state = "read" => ServerReads(first)'
  BY <1>1, <1>2 DEF ServerReads, Bytes
<1>9. ClientWrites(next)'
  <2>1. size \in Nat /\ size <= MaxPacket /\ (size = MaxPacket \/ size = len - Off(last))
        /\ Off(last) + size <= len /\ MaxPacket \in Nat \ {0}
    <3> HIDE DEF m, len
    <3> QED
      BY <1>3, <1>5, WriteSize, MaxPacketAssumption DEF compute_size_to_write
  <2>2. CASE Off(last) + size < len
    <3>1. op' = [op EXCEPT !.total = @ + size]
      BY <1>3, <1>5, <2>1, <2>2 DEF WriteFrame
    <3>2. op'.kind = "write" /\ op'.total = Off(last) + size
      BY <1>2, <1>3, <3>1 DEF TypeInv, TypeOK, Op
    <3>3. size = MaxPacket
      BY <1>5, <2>1, <2>2
    <3>4. next = <<last[1], last[2] + 1>>
      BY <1>0, <1>4, <2>2, <3>3 DEF After
    <3>5. Off(next) = op'.total /\ next[1] = Len(requests) /\ next[2] = last[2] + 1 /\ last[2] \in Nat
      <4>1. Off(<<last[1], last[2] + 1>>) = Off(last) + MaxPacket /\ last[2] \in Nat
        BY <1>3, OffType
      <4>2. next[1] = last[1] /\ next[2] = last[2] + 1
        BY <3>4
      <4> HIDE DEF size
      <4>3. Off(next) = op'.total
        BY <3>2, <3>3, <3>4, <4>1
      <4> QED
        BY <1>3, <4>1, <4>2, <4>3, Zenon
    <3>6. sequence_number' = next[2] % SeqMod
      BY <1>2, <1>3, <3>5, NextSeqOfFrame
    <3> QED
      BY <1>2, <3>2, <3>5, <3>6 DEF ClientWrites, Off
  <2>3. CASE ~(Off(last) + size < len)
    <3>1. op' = Idle
      BY <1>3, <1>5, <2>1, <2>3 DEF WriteFrame
    <3>2. ~(Off(last) + MaxPacket < len)
      BY <1>5, <2>1, <2>3
    <3>3. next = <<last[1] + 1, 0>>
      BY <1>0, <1>4, <3>2 DEF After
    <3> QED
      BY <1>2, <1>3, <3>1, <3>3 DEF ClientWrites, Idle, Started
  <2> QED
    BY <2>2, <2>3
<1> QED
  BY <1>1, <1>2, <1>7, <1>8, <1>9 DEF RequestsFaithful

\* A step of the client that neither starts nor continues a write.
LEMMA RequestsStay ==
  ASSUME TypeInv, RequestsFaithful, UNCHANGED <<toServer, requests, served, srv>>,
         error' = "none" => /\ error = "none"
                            /\ \/ op.kind # "write" /\ op'.kind # "write"
                               \/ UNCHANGED <<op, sequence_number>>
  PROVE  RequestsFaithful'
<1>1. PICK first, last :
        /\ InFlight(toServer, requests, first, last, FALSE)
        /\ srv.state = "read" => ServerReads(first)
        /\ srv.state \in {"answer", "write"} => first = <<Len(served) + 1, 0>>
        /\ error = "none" => ClientWrites(last)
  BY DEF RequestsFaithful
<1>2. srv.state = "read" => ServerReads(first)'
  BY <1>1 DEF ServerReads, Bytes
<1>3. error' = "none" => ClientWrites(last)'
  BY <1>1 DEF ClientWrites, Off
<1> QED
  BY <1>1, <1>2, <1>3 DEF RequestsFaithful

\* A step of the server that does not touch the requests.
LEMMA RequestsServed ==
  ASSUME TypeInv, RequestsFaithful,
         ServerMismatch \/ ServerWrite \/ \E size \in ReplySizes, follow \in Follow : ServerAnswer(size, follow)
  PROVE  RequestsFaithful'
<1>1. PICK first, last :
        /\ InFlight(toServer, requests, first, last, FALSE)
        /\ srv.state = "read" => ServerReads(first)
        /\ srv.state \in {"answer", "write"} => first = <<Len(served) + 1, 0>>
        /\ error = "none" => ClientWrites(last)
  BY DEF RequestsFaithful
<1>2. UNCHANGED <<op, sequence_number, error, toServer, requests, served>>
  BY DEF ServerMismatch, ServerWrite, ServerAnswer, clientVars, logVars
<1>3. error' = "none" => ClientWrites(last)'
  BY <1>1, <1>2 DEF ClientWrites
<1>4. /\ srv'.state = "read" => ServerReads(first)'
      /\ srv'.state \in {"answer", "write"} => first = <<Len(served') + 1, 0>>
  <2>1. CASE ServerMismatch
    BY <2>1 DEF ServerMismatch, TypeInv, TypeOK, Srv
  <2>2. CASE \E size \in ReplySizes, follow \in Follow : ServerAnswer(size, follow)
    <3>1. srv.state = "answer" /\ srv'.state = "write"
      BY <2>2 DEF ServerAnswer, TypeInv, TypeOK, Srv
    <3> QED
      BY <1>1, <1>2, <3>1
  <2>3. CASE ServerWrite
    <3> DEFINE m == LastOf(replies)
               size == compute_size_to_write(Len(m.body), srv.off)
    <3>1. srv.state = "write" /\ first = <<Len(served') + 1, 0>> /\ served' \in Seq(Message)
      BY <1>1, <1>2, <2>3 DEF ServerWrite, TypeInv, TypeOK
    <3>2. CASE size = MaxPacket
      <4>1. srv' = [srv EXCEPT !.seq = NextSeq(@), !.off = @ + size]
        BY <2>3, <3>2 DEF ServerWrite
      <4>2. srv'.state = "write"
        BY <3>1, <4>1 DEF TypeInv, TypeOK, Srv
      <4> QED
        BY <3>1, <4>2
    <3>3. CASE size # MaxPacket
      <4>1. srv' = AfterMessage(m.follow)
        BY <2>3, <3>3 DEF ServerWrite
      <4>2. m \in Message
        BY <3>1, LastType DEF TypeInv, TypeOK, WriteInRange
      <4>3. m.follow \in Follow
        BY <4>2 DEF Message
      <4> QED
        BY <3>1, <4>1, <4>3, AfterMessageReads
    <3> QED
      BY <3>2, <3>3
  <2> QED
    BY <2>1, <2>2, <2>3
<1> QED
  BY <1>1, <1>2, <1>3, <1>4 DEF RequestsFaithful

-----------------------------------------------------------------------------
(* Steps that take or add a reply frame *)

\* A step of the client that reads nothing.
LEMMA RepliesStay ==
  ASSUME TypeInv, RepliesFaithful, UNCHANGED <<toClient, replies, srv, delivered>>,
         error' = "none" => /\ error = "none"
                            /\ \/ op.kind \in {"idle", "write"} /\ op'.kind \in {"idle", "write"}
                               \/ UNCHANGED <<op, buffer>>
  PROVE  RepliesFaithful'
<1> SUFFICES ASSUME error' = "none" PROVE RepliesFaithful'
  BY DEF RepliesFaithful
<1>1. PICK first, last :
        InFlight(toClient, replies, first, last, TRUE) /\ ClientReads(first) /\ ServerWrites(last)
  BY DEF RepliesFaithful
<1>2. ClientReads(first)'
  BY <1>1 DEF ClientReads, Off, Bytes
<1>3. ServerWrites(last)'
  BY <1>1 DEF ServerWrites, Off
<1> QED
  BY <1>1, <1>2, <1>3 DEF RepliesFaithful

\* A read starts with the first frame of a message.
LEMMA BeginReply ==
  ASSUME TypeInv, RepliesFaithful, StartRead
  PROVE  RepliesFaithful'
<1>1. PICK first, last :
        InFlight(toClient, replies, first, last, TRUE) /\ ClientReads(first) /\ ServerWrites(last)
  BY DEF RepliesFaithful, StartRead
<1>2. /\ op.kind = "idle" /\ op' = Started("read_header") /\ buffer' = <<>>
      /\ UNCHANGED <<toClient, replies, srv, delivered, error>>
  BY DEF StartRead, logVars
<1>3. op'.kind = "read_header" /\ op'.total = 0
  BY <1>2 DEF Started
<1>4. first[1] = Len(delivered') + 1 /\ first[2] = 0 /\ Off(first) = 0 /\ Bytes(first[1], 0) = <<>>
  <2>1. first[1] = Len(delivered) + 1 /\ first[2] = 0 /\ Len(delivered) \in Nat
    BY <1>1, <1>2 DEF ClientReads, TypeInv, TypeOK
  <2> QED
    BY <1>2, <2>1, MaxPacketAssumption, NoBytes DEF Off
<1>5. ClientReads(first)'
  BY <1>2, <1>3, <1>4 DEF ClientReads, Off, Bytes
<1>6. ServerWrites(last)'
  BY <1>1, <1>2 DEF ServerWrites, Off
<1> QED
  BY <1>1, <1>2, <1>5, <1>6 DEF RepliesFaithful

\* The header makes room for the body behind what was read before.
LEMMA HeaderOfReply ==
  ASSUME TypeInv, RepliesFaithful, LogShape, ReadHeader
  PROVE  RepliesFaithful'
<1> DEFINE size == Head(toClient).size
           zeros == [i \in 1..size |-> ZeroByte]
<1>1. /\ op.kind = "read_header" /\ toClient # <<>> /\ error = "none"
      /\ op' = [op EXCEPT !.kind = "read_body", !.size = size] /\ buffer' = buffer \o zeros
      /\ UNCHANGED <<toClient, replies, srv, delivered, error>>
  BY DEF ReadHeader, logVars, LogShape
<1>2. PICK first, last :
        InFlight(toClient, replies, first, last, TRUE) /\ ClientReads(first) /\ ServerWrites(last)
  BY <1>1 DEF RepliesFaithful
<1>3. size \in Nat /\ Head(toClient) = toClient[1] /\ zeros \in Seq(Byte) /\ Len(zeros) = size
  <2>1. Head(toClient) = toClient[1] /\ Head(toClient) \in Frame
    BY <1>1 DEF TypeInv, TypeOK
  <2>2. size \in Nat
    BY <2>1 DEF Frame
  <2> HIDE DEF size
  <2> QED
    BY <2>1, <2>2, ZeroFill
<1>4. op'.kind = "read_body" /\ op'.size = size /\ op'.total = op.total /\ op.total \in Nat
  <2> HIDE DEF size
  <2> QED
    BY <1>1 DEF TypeInv, TypeOK, Op
<1>5. /\ first[1] = Len(delivered) + 1 /\ op.total = Off(first) /\ buffer = Bytes(first[1], op.total)
      /\ first[1] \in Nat /\ buffer \in Seq(Byte)
  BY <1>1, <1>2 DEF ClientReads, TypeInv, TypeOK
<1> HIDE DEF zeros, size
<1>6. Len(buffer') = op.total + size /\ \A i \in 1..op.total : buffer'[i] = <<first[1], i>>
  <2>1. Len(buffer) = op.total /\ \A i \in 1..op.total : buffer[i] = <<first[1], i>>
    <3>1. Len(Bytes(first[1], op.total)) = op.total
      BY <1>4, <1>5, BytesType
    <3>2. \A i \in 1..op.total : Bytes(first[1], op.total)[i] = <<first[1], i>>
      BY DEF Bytes
    <3> QED
      BY <1>5, <3>1, <3>2
  <2>2. /\ buffer' = buffer \o zeros /\ buffer \in Seq(Byte) /\ zeros \in Seq(Byte)
        /\ Len(zeros) = size /\ size \in Nat /\ op.total \in Nat
    <3>1. buffer' = buffer \o zeros
      BY <1>1
    <3>2. buffer \in Seq(Byte) /\ op.total \in Nat
      BY <1>4, <1>5
    <3> QED
      BY <1>3, <3>1, <3>2
  <2>3. Len(buffer') = op.total + size /\ \A i \in 1..op.total : buffer'[i] = buffer[i]
    <3>1. Len(buffer) = op.total
      BY <2>1
    <3> QED
      BY <2>2, <3>1, JoinFacts
  <2> QED
    BY <2>1, <2>3
<1>7. ClientReads(first)'
  BY <1>1, <1>3, <1>4, <1>5, <1>6 DEF ClientReads, Off, size
<1>8. ServerWrites(last)'
  BY <1>1, <1>2 DEF ServerWrites, Off
<1> QED
  BY <1>1, <1>2, <1>7, <1>8 DEF RepliesFaithful

\* The body completes what was read before it; the message is whole, and the
\* next of the log, when the frame is not full.
LEMMA TakeReplyFrame ==
  ASSUME TypeInv, LogShape, RepliesFaithful, ReadBody
  PROVE  /\ RepliesFaithful'
         /\ \/ UNCHANGED delivered
            \/ /\ Len(delivered) + 1 \in 1..Len(replies)
               /\ delivered' = Append(delivered, replies[Len(delivered) + 1])
<1> DEFINE f == Head(toClient)
           k == Len(delivered) + 1
           m == replies[k]
           len == Len(m.body)
<1>1. /\ op.kind = "read_body" /\ error = "none" /\ toClient' = Tail(toClient)
      /\ UNCHANGED <<replies, srv, error>>
  BY DEF ReadBody, LogShape
<1>2. PICK first, last :
        InFlight(toClient, replies, first, last, TRUE) /\ ClientReads(first) /\ ServerWrites(last)
  BY <1>1 DEF RepliesFaithful
<1>3. PICK next : next = After(replies, first, TRUE)
  OBVIOUS
<1>4. /\ first[1] = k /\ op.total = Off(first) /\ toClient # <<>> /\ op.size = toClient[1].size
      /\ Len(buffer) = op.total + op.size /\ \A i \in 1..op.total : buffer[i] = <<k, i>>
  BY <1>1, <1>2 DEF ClientReads
<1>5. f = toClient[1] /\ IsFrame(replies, first, f, TRUE) /\ InFlight(toClient', replies, next, last, TRUE)
  <2>1. toClient \in Seq(Frame) /\ f = toClient[1]
    BY <1>4 DEF TypeInv, TypeOK
  <2>2. IsFrame(replies, first, f, TRUE) /\ InFlight(Tail(toClient), replies, next, last, TRUE)
    BY <1>2, <1>3, <1>4, <2>1, InFlightTail
  <2> QED
    BY <1>1, <2>1, <2>2
<1>6. /\ k \in 1..Len(replies) /\ m \in Message /\ len \in Nat /\ m.body = Bytes(k, len)
      /\ m = [body |-> m.body, follow |-> m.follow] /\ k \in Nat /\ Len(delivered) \in Nat
  <2>1. k \in 1..Len(replies) /\ Len(delivered) \in Nat /\ k \in Nat
    BY <1>4, <1>5 DEF IsFrame, TypeInv, TypeOK
  <2>2. m \in Message
    BY <2>1 DEF TypeInv, TypeOK
  <2>3. m.body = Bytes(k, len)
    BY <2>1 DEF LogShape
  <2> HIDE DEF m, k
  <2> QED
    BY <2>1, <2>2, <2>3 DEF Message
<1>7. /\ f.size = compute_size_to_write(len, op.total) /\ f.follow = m.follow /\ op.total <= len
      /\ f.body = Piece(k, op.total, f.size) /\ f.size = op.size
  BY <1>4, <1>5 DEF IsFrame
<1>8. /\ op.size \in Nat /\ op.total \in Nat /\ op.size <= MaxPacket
      /\ op.total + op.size <= len /\ MaxPacket \in Nat \ {0}
  <2>1. op.size \in Nat /\ op.total \in Nat
    BY DEF TypeInv, TypeOK, Op
  <2> QED
    BY <1>6, <1>7, <2>1, WriteSize, MaxPacketAssumption
<1> HIDE DEF f, m, k
<1>9. buffer' = Bytes(k, op.total + op.size)
  <2>1. buffer' = [i \in 1..Len(buffer) |->
          IF i \in (op.total + 1)..(op.total + op.size) THEN f.body[i - op.total] ELSE buffer[i]]
    BY DEF ReadBody, f
  <2>2. ASSUME NEW i \in 1..(op.total + op.size)
        PROVE  (IF i \in (op.total + 1)..(op.total + op.size) THEN f.body[i - op.total] ELSE buffer[i])
                 = <<k, i>>
    <3>1. CASE i \in (op.total + 1)..(op.total + op.size)
      <4>1. i - op.total \in 1..op.size /\ op.total + (i - op.total) = i
        BY <1>8, <3>1
      <4>2. f.body[i - op.total] = <<k, op.total + (i - op.total)>>
        BY <1>7, <4>1 DEF Piece
      <4> QED
        BY <3>1, <4>1, <4>2
    <3>2. CASE i \notin (op.total + 1)..(op.total + op.size)
      <4>1. i \in 1..op.total
        BY <1>8, <3>2
      <4> QED
        BY <1>4, <3>2, <4>1
    <3> QED
      BY <3>1, <3>2
  <2> QED
    BY <1>4, <2>1, <2>2 DEF Bytes
<1>10. ServerWrites(last)'
  BY <1>1, <1>2 DEF ServerWrites, Off
<1>11. first \in Position
  BY <1>2, InFlightType DEF TypeInv, TypeOK
<1>12. CASE op.size = MaxPacket
  <2>1. op' = [op EXCEPT !.kind = "read_header", !.total = @ + op.size] /\ UNCHANGED delivered
    BY <1>12 DEF ReadBody
  <2>2. op'.kind = "read_header" /\ op'.total = op.total + op.size
    BY <2>1 DEF TypeInv, TypeOK, Op
  <2>3. next = <<k, first[2] + 1>>
    <3>1. op.total + MaxPacket < len \/ op.total + MaxPacket = len
      BY <1>6, <1>8, <1>12
    <3> QED
      BY <1>3, <1>4, <3>1 DEF After, m
  <2>4. next[1] = k /\ Off(next) = op.total + op.size
    <3>1. Off(<<first[1], first[2] + 1>>) = Off(first) + MaxPacket /\ first[2] \in Nat
      BY <1>11, OffType
    <3>2. next[1] = k
      BY <2>3, <3>1
    <3> QED
      BY <1>4, <1>12, <2>3, <3>1, <3>2
  <2>5. ClientReads(next)'
    BY <1>9, <2>1, <2>2, <2>4 DEF ClientReads, Off, Bytes, k
  <2> QED
    BY <1>1, <1>5, <1>10, <2>1, <2>5 DEF RepliesFaithful
<1>13. CASE op.size # MaxPacket
  <2>1. op' = Idle /\ delivered' = Append(delivered, [body |-> buffer', follow |-> f.follow])
    BY <1>13 DEF ReadBody, f
  <2>2. op.size = len - op.total /\ len - op.total < MaxPacket
    BY <1>7, <1>13 DEF compute_size_to_write
  <2>3. delivered' = Append(delivered, m)
    <3>1. buffer' = m.body
      BY <1>6, <1>8, <1>9, <2>2
    <3> QED
      BY <1>6, <1>7, <2>1, <3>1
  <2>4. Len(delivered') = k
    BY <1>6, <2>3 DEF TypeInv, TypeOK, k
  <2>5. next = <<k + 1, 0>>
    <3>1. ~(op.total + MaxPacket < len) /\ ~(op.total + MaxPacket = len)
      BY <1>6, <1>8, <2>2
    <3> QED
      BY <1>3, <1>4, <3>1 DEF After, m
  <2>6. ClientReads(next)'
    <3>1. next[1] = Len(delivered') + 1 /\ next[2] = 0
      BY <1>6, <2>4, <2>5
    <3>2. op'.kind = "idle"
      BY <2>1 DEF Idle, Started
    <3> QED
      BY <3>1, <3>2 DEF ClientReads
  <2>7. RepliesFaithful'
    BY <1>1, <1>5, <1>10, <2>6 DEF RepliesFaithful
  <2> QED
    BY <1>6, <2>3, <2>7 DEF m, k
<1> QED
  BY <1>12, <1>13

\* The server starts to write a message: the frames in flight stay what they
\* were, and the next one is the first of the new message.
LEMMA NewReply ==
  ASSUME TypeInv, NEW m \in Message, replies' = Append(replies, m), srv.state # "write",
         NEW first, NEW last, InFlight(toClient, replies, first, last, TRUE), ServerWrites(last)
  PROVE  /\ InFlight(toClient, replies', first, last, TRUE)
         /\ last \in Position /\ last[1] = Len(replies') /\ Off(last) = 0 /\ last[1] \in 1..Len(replies')
         /\ replies' \in Seq(Message) /\ replies'[last[1]] = m /\ LastOf(replies') = m
         /\ last = <<Len(replies'), 0>> /\ last[1] \in Nat
<1>1. replies \in Seq(Message) /\ Len(replies) \in Nat /\ toClient \in Seq(Frame)
  BY DEF TypeInv, TypeOK
<1>2. replies' \in Seq(Message) /\ LastOf(replies') = m /\ Len(replies') = Len(replies) + 1
      /\ replies'[Len(replies) + 1] = m
  BY <1>1, AppendFacts
<1>3. InFlight(toClient, replies', first, last, TRUE)
  BY <1>1, InFlightGrows
<1>4. last = <<Len(replies) + 1, 0>>
  BY DEF ServerWrites
<1>5. last[1] = Len(replies) + 1 /\ last[2] = 0 /\ last \in Position
  BY <1>1, <1>4 DEF Position
<1>6. Off(last) = 0
  BY <1>5, MaxPacketAssumption DEF Off
<1>7. last[1] = Len(replies') /\ last[1] \in 1..Len(replies') /\ last[1] \in Nat /\ replies'[last[1]] = m
  BY <1>1, <1>2, <1>5
<1>8. last = <<Len(replies'), 0>>
  BY <1>2, <1>4
<1> QED
  BY <1>2, <1>3, <1>5, <1>6, <1>7, <1>8

LEMMA RefusalIsReply ==
  ASSUME TypeInv, RepliesFaithful, ServerMismatch
  PROVE  RepliesFaithful'
<1> SUFFICES ASSUME error' = "none" PROVE RepliesFaithful'
  BY DEF RepliesFaithful
<1> DEFINE f == FrameOf(Refusal, 0, 0, srv.seq)
<1>1. /\ srv.state = "read" /\ srv'.state = "refused" /\ error = "none"
      /\ replies' = Append(replies, Refusal) /\ toClient' = Append(toClient, f)
      /\ UNCHANGED <<op, buffer, delivered, error>>
  BY DEF ServerMismatch, clientVars, TypeInv, TypeOK, Srv
<1>2. PICK first, last :
        InFlight(toClient, replies, first, last, TRUE) /\ ClientReads(first) /\ ServerWrites(last)
  BY <1>1 DEF RepliesFaithful
<1>3. PICK next : next = After(replies', last, TRUE)
  OBVIOUS
<1>4. Refusal \in Message /\ Refusal.body = <<>> /\ Len(Refusal.body) = 0 /\ compute_size_to_write(0, 0) = 0
  BY MaxPacketAssumption DEF Refusal, Message, Follow, compute_size_to_write
<1>5. /\ InFlight(toClient, replies', first, last, TRUE)
      /\ last \in Position /\ last[1] = Len(replies') /\ Off(last) = 0 /\ last[1] \in 1..Len(replies')
      /\ replies' \in Seq(Message) /\ replies'[last[1]] = Refusal /\ last[1] \in Nat
  BY <1>1, <1>2, <1>4, NewReply
<1>6. IsFrame(replies', last, f, TRUE) /\ f \in Frame
  <2>1. replies'[last[1]].body = Bytes(last[1], Len(replies'[last[1]].body))
    BY <1>4, <1>5, NoBytes
  <2>2. Off(last) <= Len(replies'[last[1]].body)
    BY <1>4, <1>5
  <2>3. srv.seq \in 0..(SeqMod - 1)
    BY DEF TypeInv, TypeOK, Srv
  <2>5. Cuts(replies', last, Refusal, 0, srv.seq)
    BY <1>4, <1>5, <2>1, <2>2, <2>3 DEF Cuts
  <2>6. f = FrameOf(Refusal, 0, compute_size_to_write(Len(Refusal.body), 0), srv.seq)
    BY <1>4
  <2> HIDE DEF f
  <2> QED
    BY <2>5, <2>6, CutFrame, Zenon
<1> HIDE DEF f
<1>7. InFlight(toClient', replies', first, next, TRUE)
  BY <1>1, <1>3, <1>5, <1>6, InFlightAppend DEF TypeInv, TypeOK
<1>8. ServerWrites(next)'
  <2>1. next = <<last[1] + 1, 0>>
    <3>1. ~(Off(last) + MaxPacket < 0) /\ ~(Off(last) + MaxPacket = 0)
      BY <1>5, MaxPacketAssumption
    <3> QED
      BY <1>3, <1>4, <1>5, <3>1 DEF After
  <2> QED
    BY <1>1, <1>5, <2>1 DEF ServerWrites
<1>9. ClientReads(first)'
  <2>1. toClient # <<>> => toClient' # <<>> /\ toClient'[1] = toClient[1]
    <3>1. toClient \in Seq(Frame) /\ toClient' = Append(toClient, f)
      BY <1>1 DEF TypeInv, TypeOK
    <3>2. f \in Frame
      BY <1>6
    <3> QED
      BY <3>1, <3>2, AppendFacts
  <2> QED
    BY <1>1, <1>2, <2>1 DEF ClientReads, Off, Bytes
<1> QED
  BY <1>7, <1>8, <1>9 DEF RepliesFaithful

LEMMA AddReply ==
  ASSUME TypeInv, RepliesFaithful, NEW size \in ReplySizes, NEW follow \in Follow,
         ServerAnswer(size, follow)
  PROVE  RepliesFaithful'
<1> SUFFICES ASSUME error' = "none" PROVE RepliesFaithful'
  BY DEF RepliesFaithful
<1> DEFINE m == [body |-> Bytes(Len(replies) + 1, size), follow |-> follow]
<1>1. /\ srv.state = "answer" /\ srv'.state = "write" /\ srv'.off = 0 /\ error = "none"
      /\ replies' = Append(replies, m)
      /\ UNCHANGED <<op, buffer, delivered, error, toClient>>
  BY DEF ServerAnswer, clientVars, TypeInv, TypeOK, Srv
<1>2. PICK first, last :
        InFlight(toClient, replies, first, last, TRUE) /\ ClientReads(first) /\ ServerWrites(last)
  BY <1>1 DEF RepliesFaithful
<1>3. m \in Message
  BY BytesType, SizesAssumption DEF Message, TypeInv, TypeOK
<1> HIDE DEF m
<1>4. InFlight(toClient, replies', first, last, TRUE) /\ last[1] = Len(replies') /\ Off(last) = 0
  BY <1>1, <1>2, <1>3, NewReply
<1>5. ServerWrites(last)'
  BY <1>1, <1>4 DEF ServerWrites, Off
<1>6. ClientReads(first)'
  BY <1>1, <1>2 DEF ClientReads, Off, Bytes
<1> QED
  BY <1>1, <1>4, <1>5, <1>6 DEF RepliesFaithful

\* The frame that the server writes is the next of its reply, and the last one
\* is where the reply ends.
LEMMA AddReplyFrame ==
  ASSUME TypeInv, LogShape, RepliesFaithful, ServerWrite
  PROVE  RepliesFaithful'
<1> SUFFICES ASSUME error' = "none" PROVE RepliesFaithful'
  BY DEF RepliesFaithful
<1> DEFINE m == LastOf(replies)
           len == Len(m.body)
           size == compute_size_to_write(len, srv.off)
           f == FrameOf(m, srv.off, size, srv.seq)
<1>1. /\ srv.state = "write" /\ error = "none" /\ toClient' = Append(toClient, f)
      /\ UNCHANGED <<op, buffer, delivered, error, replies>>
  BY DEF ServerWrite, clientVars, logVars
<1>2. PICK first, last :
        InFlight(toClient, replies, first, last, TRUE) /\ ClientReads(first) /\ ServerWrites(last)
  BY <1>1 DEF RepliesFaithful
<1>3. PICK next : next = After(replies, last, TRUE)
  OBVIOUS
<1>4. last \in Position /\ last[1] = Len(replies) /\ srv.off = Off(last)
  BY <1>1, <1>2, InFlightType DEF ServerWrites, TypeInv, TypeOK
<1>5. /\ last[1] \in 1..Len(replies) /\ m = replies[last[1]] /\ replies \in Seq(Message)
      /\ Len(replies) \in Nat
  BY <1>1, <1>4 DEF TypeInv, TypeOK, WriteInRange, LastOf
<1>6. m.body = Bytes(last[1], len) /\ len \in Nat /\ Off(last) \in Nat /\ Off(last) <= len
  <2>1. m.body = Bytes(last[1], len) /\ srv.off <= len
    BY <1>1, <1>5 DEF LogShape, TypeInv, WriteInRange
  <2>2. m \in Message
    BY <1>5
  <2>3. m.body \in Seq(Byte)
    BY <2>2 DEF Message
  <2>4. Off(last) \in Nat
    BY <1>4, OffType
  <2> QED
    BY <1>4, <2>1, <2>3, <2>4
<1>7. IsFrame(replies, last, f, TRUE) /\ f \in Frame
  <2>1. srv.seq \in 0..(SeqMod - 1)
    BY DEF TypeInv, TypeOK, Srv
  <2>2. Cuts(replies, last, m, srv.off, srv.seq)
    <3> HIDE DEF m
    <3> QED
      BY <1>4, <1>5, <1>6, <2>1 DEF Cuts
  <2> HIDE DEF m
  <2> QED
    BY <2>2, CutFrame, Zenon
<1>8. InFlight(toClient', replies', first, next, TRUE)
  <2> HIDE DEF f
  <2> QED
    BY <1>1, <1>2, <1>3, <1>7, InFlightAppend DEF TypeInv, TypeOK
<1>9. ClientReads(first)'
  <2> HIDE DEF f
  <2>1. toClient # <<>> => toClient' # <<>> /\ toClient'[1] = toClient[1]
    BY <1>1, <1>7, AppendFacts DEF TypeInv, TypeOK
  <2> QED
    BY <1>1, <1>2, <2>1 DEF ClientReads, Off, Bytes
<1>10. ServerWrites(next)'
  <2>1. /\ size \in Nat /\ size <= MaxPacket /\ (size = MaxPacket \/ size = len - Off(last))
        /\ Off(last) + size <= len /\ MaxPacket \in Nat \ {0}
    <3> HIDE DEF m, len
    <3> QED
      BY <1>4, <1>6, WriteSize, MaxPacketAssumption DEF compute_size_to_write
  <2>2. CASE size = MaxPacket
    <3>1. srv' = [srv EXCEPT !.seq = NextSeq(@), !.off = @ + size]
      BY <2>2 DEF ServerWrite
    <3>2. srv'.state = "write" /\ srv'.off = Off(last) + size
      BY <1>1, <1>4, <3>1 DEF TypeInv, TypeOK, Srv
    <3>3. next = <<last[1], last[2] + 1>>
      <4>1. Off(last) + MaxPacket < len \/ Off(last) + MaxPacket = len
        BY <1>6, <2>1, <2>2
      <4> QED
        BY <1>3, <1>5, <4>1 DEF After
    <3>4. next[1] = Len(replies) /\ srv'.off = Off(next)
      <4>1. Off(<<last[1], last[2] + 1>>) = Off(last) + MaxPacket /\ last[2] \in Nat
        BY <1>4, OffType
      <4>2. next[1] = last[1]
        BY <3>3
      <4> HIDE DEF size
      <4>3. Off(next) = srv'.off
        BY <2>2, <3>2, <3>3, <4>1
      <4> QED
        BY <1>4, <4>2, <4>3
    <3> QED
      BY <1>1, <3>2, <3>4 DEF ServerWrites, Off
  <2>3. CASE size # MaxPacket
    <3>1. srv' = AfterMessage(m.follow)
      BY <2>3 DEF ServerWrite
    <3>2. srv'.state # "write"
      BY <3>1 DEF AfterMessage
    <3>3. next = <<last[1] + 1, 0>>
      <4>1. ~(Off(last) + MaxPacket < len) /\ ~(Off(last) + MaxPacket = len)
        BY <1>6, <2>1, <2>3
      <4> QED
        BY <1>3, <1>5, <4>1 DEF After
    <3> QED
      BY <1>1, <1>4, <3>2, <3>3 DEF ServerWrites
  <2> QED
    BY <2>2, <2>3
<1> QED
  BY <1>8, <1>9, <1>10 DEF RepliesFaithful

LEMMA RepliesWait ==
  ASSUME TypeInv, RepliesFaithful, ServerRead, srv'.state # "write"
  PROVE  RepliesFaithful'
<1> SUFFICES ASSUME error' = "none" PROVE RepliesFaithful'
  BY DEF RepliesFaithful
<1>1. srv.state = "read" /\ UNCHANGED <<toClient, replies, delivered, op, buffer, error>>
  BY DEF ServerRead, clientVars
<1>2. PICK first, last :
        InFlight(toClient, replies, first, last, TRUE) /\ ClientReads(first) /\ ServerWrites(last)
  BY <1>1 DEF RepliesFaithful
<1>3. ClientReads(first)'
  BY <1>1, <1>2 DEF ClientReads, Off, Bytes
<1>4. ServerWrites(last)'
  BY <1>1, <1>2 DEF ServerWrites
<1> QED
  BY <1>1, <1>2, <1>3, <1>4 DEF RepliesFaithful

-----------------------------------------------------------------------------
(* What the logs hold *)

LEMMA LogStartRequest ==
  ASSUME TypeInv, LogShape, NEW size \in RequestSizes, NEW follow \in Follow, StartRequest(size, follow)
  PROVE  LogShape'
<1> DEFINE m == [body |-> Bytes(Len(requests) + 1, size), follow |-> follow]
<1>1. /\ error = "none" /\ Len(requests) < MaxRequests /\ requests' = Append(requests, m)
      /\ UNCHANGED <<error, srv, served, replies>>
  BY DEF StartRequest
<1>2. requests \in Seq(Message) /\ Len(requests) \in Nat /\ Len(served) \in Nat /\ MaxRequests \in Nat
  BY BoundsAssumption DEF TypeInv, TypeOK
<1>3. m \in Message /\ m.body = Bytes(Len(requests) + 1, Len(m.body)) /\ Len(m.body) = size
  BY <1>2, BytesType, SizesAssumption DEF Message
<1> HIDE DEF m
<1>4. /\ Len(requests') = Len(requests) + 1 /\ requests'[Len(requests) + 1] = m
      /\ \A i \in 1..Len(requests) : requests'[i] = requests[i]
  BY <1>1, <1>2, <1>3, AppendFacts
<1>5. \A k \in 1..Len(requests') : requests'[k].body = Bytes(k, Len(requests'[k].body))
                                   /\ Len(requests'[k].body) \in RequestSizes
  <2> SUFFICES ASSUME NEW k \in 1..Len(requests')
               PROVE  requests'[k].body = Bytes(k, Len(requests'[k].body))
                      /\ Len(requests'[k].body) \in RequestSizes
    OBVIOUS
  <2>1. CASE k = Len(requests) + 1
    BY <1>3, <1>4, <2>1
  <2>2. CASE k \in 1..Len(requests)
    BY <1>4, <2>2 DEF LogShape
  <2> QED
    BY <1>2, <1>4, <2>1, <2>2
<1>6. Len(served) <= Len(requests') /\ Len(requests') <= MaxRequests
  BY <1>1, <1>2, <1>4 DEF LogShape
<1> QED
  BY <1>1, <1>5, <1>6 DEF LogShape, Bytes

\* A reply that is added keeps the shape of the log of replies.
LEMMA LogReply ==
  ASSUME TypeInv, LogShape, NEW m \in Message, m.body = Bytes(Len(replies) + 1, Len(m.body)),
         replies' = Append(replies, m)
  PROVE  /\ Len(replies') = Len(replies) + 1 /\ LastOf(replies') = m /\ Len(replies) \in Nat
         /\ \A k \in 1..Len(replies') : replies'[k].body = Bytes(k, Len(replies'[k].body))
<1>1. replies \in Seq(Message) /\ Len(replies) \in Nat
  BY DEF TypeInv, TypeOK
<1>2. /\ Len(replies') = Len(replies) + 1 /\ replies'[Len(replies) + 1] = m /\ LastOf(replies') = m
      /\ \A i \in 1..Len(replies) : replies'[i] = replies[i]
  BY <1>1, AppendFacts
<1>3. \A k \in 1..Len(replies') : replies'[k].body = Bytes(k, Len(replies'[k].body))
  <2> SUFFICES ASSUME NEW k \in 1..Len(replies')
               PROVE  replies'[k].body = Bytes(k, Len(replies'[k].body))
    OBVIOUS
  <2>1. CASE k = Len(replies) + 1
    BY <1>2, <2>1
  <2>2. CASE k \in 1..Len(replies)
    BY <1>2, <2>2 DEF LogShape
  <2> QED
    BY <1>1, <1>2, <2>1, <2>2
<1> QED
  BY <1>1, <1>2, <1>3

LEMMA LogServer ==
  ASSUME TypeInv, LogShape,
         ServerMismatch \/ ServerWrite \/ \E size \in ReplySizes, follow \in Follow : ServerAnswer(size, follow)
  PROVE  LogShape'
<1>1. UNCHANGED <<op, error, requests, served>>
  BY DEF ServerMismatch, ServerWrite, ServerAnswer, clientVars, logVars
<1>2. Len(served) \in Nat /\ MaxReplies \in Nat /\ Len(replies) \in Nat
  BY BoundsAssumption DEF TypeInv, TypeOK
<1>3. CASE ServerMismatch
  <2>1. srv'.state = "refused" /\ replies' = Append(replies, Refusal)
    BY <1>3 DEF ServerMismatch, TypeInv, TypeOK, Srv
  <2>2. Refusal \in Message /\ Refusal.body = Bytes(Len(replies) + 1, Len(Refusal.body))
    <3>1. Refusal \in Message /\ Refusal.body = <<>> /\ Len(Refusal.body) = 0
      BY DEF Refusal, Message, Follow
    <3> QED
      BY <1>2, <3>1, NoBytes
  <2>3. \A k \in 1..Len(replies') : replies'[k].body = Bytes(k, Len(replies'[k].body))
    BY <2>1, <2>2, LogReply
  <2> QED
    BY <1>1, <2>1, <2>3 DEF LogShape, Bytes
<1>4. CASE \E size \in ReplySizes, follow \in Follow : ServerAnswer(size, follow)
  <2>1. PICK size \in ReplySizes, follow \in Follow : ServerAnswer(size, follow)
    BY <1>4
  <2> DEFINE m == [body |-> Bytes(Len(replies) + 1, size), follow |-> follow]
  <2>2. /\ srv.state = "answer" /\ srv'.state = "write" /\ replies' = Append(replies, m)
        /\ follow = "reply" => Len(replies) + 1 < MaxReplies
    <3>1. srv'.state = "write"
      BY <2>1 DEF ServerAnswer, TypeInv, TypeOK, Srv
    <3>2. srv.state = "answer" /\ (follow = "reply" => Len(replies) + 1 < MaxReplies)
      BY <2>1 DEF ServerAnswer
    <3>3. replies' = Append(replies, m)
      BY <2>1 DEF ServerAnswer
    <3> QED
      BY <3>1, <3>2, <3>3
  <2>3. m \in Message /\ m.body = Bytes(Len(replies) + 1, Len(m.body)) /\ m.follow = follow
    <3>1. Bytes(Len(replies) + 1, size) \in Seq(Byte) /\ Len(Bytes(Len(replies) + 1, size)) = size
      BY <1>2, BytesType, SizesAssumption
    <3> QED
      BY <3>1 DEF Message
  <2> HIDE DEF m
  <2>4. /\ Len(replies') = Len(replies) + 1 /\ LastOf(replies') = m
        /\ \A k \in 1..Len(replies') : replies'[k].body = Bytes(k, Len(replies'[k].body))
    BY <2>2, <2>3, LogReply
  <2>5. /\ Len(replies') <= MaxReplies + Len(served)
        /\ LastOf(replies').follow = "reply" => Len(replies') + 1 <= MaxReplies + Len(served)
    BY <1>2, <2>2, <2>3, <2>4 DEF LogShape
  <2> QED
    BY <1>1, <2>2, <2>4, <2>5 DEF LogShape, Bytes, LastOf
<1>5. CASE ServerWrite
  <2> DEFINE m == LastOf(replies)
             size == compute_size_to_write(Len(m.body), srv.off)
  <2>1. srv.state = "write" /\ UNCHANGED replies
    BY <1>5 DEF ServerWrite, logVars
  <2>2. CASE size = MaxPacket
    <3>1. srv' = [srv EXCEPT !.seq = NextSeq(@), !.off = @ + size]
      BY <1>5, <2>2 DEF ServerWrite
    <3>2. srv'.state = "write"
      BY <2>1, <3>1 DEF TypeInv, TypeOK, Srv
    <3> QED
      BY <1>1, <2>1, <3>2 DEF LogShape, Bytes, LastOf
  <2>3. CASE size # MaxPacket
    <3>1. srv' = AfterMessage(m.follow)
      BY <1>5, <2>3 DEF ServerWrite
    <3>2. IF m.follow = "reply" THEN srv'.state = "answer" ELSE srv'.state = "read"
      BY <3>1 DEF AfterMessage
    <3> QED
      BY <1>1, <2>1, <3>2 DEF LogShape, Bytes
  <2> QED
    BY <2>2, <2>3
<1> QED
  BY <1>3, <1>4, <1>5

\* A request more has been served: one more reply can be the last of its request.
LEMMA LogServerRead ==
  ASSUME NoRequestWraps, TypeInv, LogShape, RequestsFaithful, ServerRead
  PROVE  LogShape'
<1>1. srv.state = "read" /\ UNCHANGED <<op, error, requests, replies>>
  BY DEF ServerRead, clientVars
<1>2. Len(served) \in Nat /\ MaxReplies \in Nat /\ Len(replies) \in Nat /\ Len(requests) \in Nat
  BY BoundsAssumption DEF TypeInv, TypeOK
<1>3. CASE UNCHANGED served /\ srv'.state = "read"
  BY <1>1, <1>3 DEF LogShape, Bytes
<1>4. CASE /\ Len(served) + 1 \in 1..Len(requests)
           /\ served' = Append(served, requests[Len(served) + 1])
           /\ srv'.state \in {"read", "answer"}
  <2>1. Len(served') = Len(served) + 1
    <3>1. served \in Seq(Message) /\ requests[Len(served) + 1] \in Message
      BY <1>4 DEF TypeInv, TypeOK
    <3> QED
      BY <1>4, <3>1, AppendFacts
  <2>2. Len(replies) <= MaxReplies + Len(served)
    BY <1>1 DEF LogShape
  <2>3. Len(replies') + 1 <= MaxReplies + Len(served') /\ Len(served') <= Len(requests')
    BY <1>1, <1>2, <1>4, <2>1, <2>2
  <2>4. Len(replies') <= MaxReplies + Len(served')
    BY <1>1, <1>2, <2>1, <2>2
  <2> QED
    BY <1>1, <1>4, <2>3, <2>4 DEF LogShape, Bytes
<1> QED
  BY <1>3, <1>4, TakeRequestFrame

LEMMA LogStays ==
  ASSUME LogShape, UNCHANGED <<srv, requests, served, replies>>, op'.kind # "idle" => error' = "none"
  PROVE  LogShape'
BY DEF LogShape, Bytes, LastOf

-----------------------------------------------------------------------------
LEMMA FaithfulNext ==
  ASSUME NoRequestWraps, TypeInv, Faithful, [Next]_vars
  PROVE  Faithful'
<1> USE DEF Faithful
<1>1. ASSUME NEW size \in RequestSizes, NEW follow \in Follow, StartRequest(size, follow)
      PROVE  Faithful'
  <2>1. /\ op.kind = "idle" /\ op'.kind = "write"
        /\ UNCHANGED <<toClient, replies, srv, delivered, error>> /\ error = "none"
    BY <1>1 DEF StartRequest, Started
  <2> QED
    BY <1>1, <2>1, LogStartRequest, AddRequest, RepliesStay
<1>2. CASE WriteFrame
  <2>1. /\ op.kind = "write" /\ error = "none" /\ op'.kind \in {"idle", "write"}
        /\ UNCHANGED <<toClient, replies, srv, delivered, error, requests, served>>
    <3>1. /\ op.kind = "write" /\ UNCHANGED <<toClient, replies, srv, delivered, error, requests, served>>
          /\ op' = Idle \/ \E n : op' = [op EXCEPT !.total = n]
      BY <1>2 DEF WriteFrame, logVars
    <3>2. op'.kind \in {"idle", "write"}
      BY <3>1 DEF Idle, Started, TypeInv, TypeOK, Op
    <3> QED
      BY <3>1, <3>2 DEF LogShape
  <2> QED
    BY <1>2, <2>1, LogStays, AddRequestFrame, RepliesStay
<1>3. CASE StartRead
  <2>1. /\ op.kind # "write" /\ op'.kind # "write" /\ error = "none"
        /\ UNCHANGED <<toServer, requests, served, srv, replies, error>>
    BY <1>3 DEF StartRead, Started, logVars
  <2> QED
    BY <1>3, <2>1, LogStays, RequestsStay, BeginReply
<1>4. CASE ReadHeader
  <2>1. /\ op.kind = "read_header" /\ op'.kind = "read_body"
        /\ UNCHANGED <<toServer, requests, served, srv, replies, error>>
    BY <1>4 DEF ReadHeader, logVars, TypeInv, TypeOK, Op
  <2>2. error = "none"
    BY <2>1 DEF LogShape
  <2> QED
    BY <1>4, <2>1, <2>2, LogStays, RequestsStay, HeaderOfReply
<1>5. CASE HeaderMismatch \/ TransferError
  <2>1. /\ op'.kind = "idle" /\ error' # "none"
        /\ UNCHANGED <<toServer, requests, served, srv, replies>>
    BY <1>5 DEF HeaderMismatch, TransferError, Idle, Started, logVars
  <2>2. RepliesFaithful'
    BY <2>1 DEF RepliesFaithful
  <2> QED
    BY <2>1, <2>2, LogStays, RequestsStay
<1>6. CASE ReadBody
  <2>1. /\ op.kind = "read_body" /\ op'.kind # "write"
        /\ UNCHANGED <<toServer, requests, served, srv, replies, error>>
    <3>1. /\ op.kind = "read_body" /\ UNCHANGED <<toServer, requests, served, srv, replies, error>>
          /\ op' = Idle \/ op' = [op EXCEPT !.kind = "read_header", !.total = @ + op.size]
      BY <1>6 DEF ReadBody
    <3>2. op'.kind # "write"
      <4>1. CASE op' = Idle
        BY <4>1 DEF Idle, Started
      <4>2. CASE op' = [op EXCEPT !.kind = "read_header", !.total = @ + op.size]
        BY <4>2 DEF TypeInv, TypeOK, Op
      <4> QED
        BY <3>1, <4>1, <4>2
    <3> QED
      BY <3>1, <3>2
  <2>2. error = "none"
    BY <2>1 DEF LogShape
  <2> QED
    BY <1>6, <2>1, <2>2, LogStays, RequestsStay, TakeReplyFrame
<1>7. CASE ServerRead
  <2>1. srv'.state # "write"
    BY <1>7, TakeRequestFrame
  <2> QED
    BY <1>7, <2>1, LogServerRead, TakeRequestFrame, RepliesWait
<1>8. CASE ServerMismatch
  BY <1>8, LogServer, RequestsServed, RefusalIsReply
<1>9. ASSUME NEW size \in ReplySizes, NEW follow \in Follow, ServerAnswer(size, follow)
      PROVE  Faithful'
  BY <1>9, LogServer, RequestsServed, AddReply
<1>10. CASE ServerWrite
  BY <1>10, LogServer, RequestsServed, AddReplyFrame
<1>11. CASE UNCHANGED vars
  <2>1. UNCHANGED <<sequence_number, buffer, op, error, toServer, toClient, srv, requests, served,
                    replies, delivered>>
    BY <1>11 DEF vars, clientVars, logVars
  <2>2. LogShape'
    BY <2>1, LogStays DEF LogShape
  <2>3. RequestsFaithful'
    BY <2>1, RequestsStay
  <2>4. RepliesFaithful'
    BY <2>1, RepliesStay
  <2> QED
    BY <2>2, <2>3, <2>4
<1> QED
  BY <1>1, <1>2, <1>3, <1>4, <1>5, <1>6, <1>7, <1>8, <1>9, <1>10, <1>11 DEF Next, Client, Server

-----------------------------------------------------------------------------
(* Every step is a step of MessageChannel, or changes no log *)

LEMMA RefineInit == Init => MC!Init
BY DEF Init, MC!Init

\* What is put in the queues is a message.
LEMMA SentIsMessage ==
  ASSUME NEW k \in 1..(MaxRequests + MaxReplies), NEW size \in RequestSizes \cup ReplySizes,
         NEW follow \in Follow
  PROVE  [body |-> Bytes(k, size), follow |-> follow] \in SentMessage
BY DEF SentMessage

LEMMA RefineNext ==
  ASSUME NoRequestWraps, TypeInv, Faithful, [Next]_vars
  PROVE  [MC!Next]_(MC!vars)
<1> USE DEF Faithful
<1>0. ASSUME UNCHANGED logVars PROVE [MC!Next]_(MC!vars)
  BY <1>0 DEF logVars, MC!vars
<1>1. ASSUME NEW size \in RequestSizes, NEW follow \in Follow, StartRequest(size, follow)
      PROVE  [MC!Next]_(MC!vars)
  <2> DEFINE m == [body |-> Bytes(Len(requests) + 1, size), follow |-> follow]
  <2>1. Len(requests) + 1 \in 1..(MaxRequests + MaxReplies)
    <3>1. Len(requests) < MaxRequests /\ Len(requests) \in Nat
      BY <1>1 DEF StartRequest, TypeInv, TypeOK
    <3> QED
      BY <3>1, BoundsAssumption
  <2>2. m \in SentMessage
    BY <2>1, SentIsMessage
  <2>3. requests' = Append(requests, m) /\ UNCHANGED <<served, replies, delivered>>
    BY <1>1 DEF StartRequest
  <2> HIDE DEF m
  <2> QED
    BY <2>2, <2>3 DEF MC!Next, MC!SendRequest
<1>2. CASE ServerRead
  <2>1. UNCHANGED <<requests, replies, delivered>>
    BY <1>2 DEF ServerRead
  <2>2. CASE UNCHANGED served
    BY <1>0, <2>1, <2>2 DEF logVars
  <2>3. CASE /\ Len(served) + 1 \in 1..Len(requests)
             /\ served' = Append(served, requests[Len(served) + 1])
    <3>1. Len(served) < Len(requests)
      BY <2>3 DEF TypeInv, TypeOK
    <3> QED
      BY <2>1, <2>3, <3>1 DEF MC!Next, MC!ServeRequest, MC!Deliver
  <2> QED
    BY <1>2, <2>2, <2>3, TakeRequestFrame
<1>3. CASE ServerMismatch
  <2>1. replies' = Append(replies, Refusal) /\ UNCHANGED <<requests, served, delivered>>
    BY <1>3 DEF ServerMismatch
  <2>2. Refusal \in SentMessage
    BY DEF SentMessage
  <2> QED
    BY <2>1, <2>2 DEF MC!Next, MC!SendReply
<1>4. ASSUME NEW size \in ReplySizes, NEW follow \in Follow, ServerAnswer(size, follow)
      PROVE  [MC!Next]_(MC!vars)
  <2> DEFINE m == [body |-> Bytes(Len(replies) + 1, size), follow |-> follow]
  <2>1. Len(replies) + 1 \in 1..(MaxRequests + MaxReplies)
    <3>1. Len(replies) + 1 <= MaxReplies + Len(served) /\ Len(served) <= MaxRequests
      BY <1>4, BoundsAssumption DEF ServerAnswer, LogShape, TypeInv, TypeOK
    <3>2. Len(replies) \in Nat /\ Len(served) \in Nat
      BY DEF TypeInv, TypeOK
    <3> QED
      BY <3>1, <3>2, BoundsAssumption
  <2>2. m \in SentMessage
    BY <2>1, SentIsMessage
  <2>3. replies' = Append(replies, m) /\ UNCHANGED <<requests, served, delivered>>
    BY <1>4 DEF ServerAnswer
  <2> HIDE DEF m
  <2> QED
    BY <2>2, <2>3 DEF MC!Next, MC!SendReply
<1>5. CASE ReadBody
  <2>1. UNCHANGED <<requests, served, replies>>
    BY <1>5 DEF ReadBody
  <2>2. CASE UNCHANGED delivered
    BY <1>0, <2>1, <2>2 DEF logVars
  <2>3. CASE /\ Len(delivered) + 1 \in 1..Len(replies)
             /\ delivered' = Append(delivered, replies[Len(delivered) + 1])
    <3>1. Len(delivered) < Len(replies)
      BY <2>3 DEF TypeInv, TypeOK
    <3> QED
      BY <2>1, <2>3, <3>1 DEF MC!Next, MC!DeliverReply, MC!Deliver
  <2> QED
    BY <1>5, <2>2, <2>3, TakeReplyFrame
<1>6. CASE WriteFrame \/ StartRead \/ ReadHeader \/ HeaderMismatch \/ TransferError \/ ServerWrite
           \/ UNCHANGED vars
  BY <1>0, <1>6 DEF WriteFrame, StartRead, ReadHeader, HeaderMismatch, TransferError, ServerWrite, vars
<1> QED
  BY <1>1, <1>2, <1>3, <1>4, <1>5, <1>6 DEF Next, Client, Server

(***************************************************************************)
(* The message layer hands over messages complete, unaltered, once and in  *)
(* order, in both directions: it implements MessageChannel.  Splitting     *)
(* into frames, joining them, and a frame that is refused or not read      *)
(* neither lose, repeat, mix up nor cut a message that is handed over, not *)
(* even when a request of an exact multiple of MAX_PACKET_SIZE lacks the   *)
(* frame that closes it.                                                   *)
(***************************************************************************)
THEOREM DeliversReliably ==
  ASSUME NoRequestWraps
  PROVE  Spec => ReliableMessages
<1>1. Init => Faithful
  BY FaithfulInit
<1>2. TypeInv /\ Faithful /\ [Next]_vars => Faithful'
  BY FaithfulNext
<1>3. TypeInv /\ Faithful /\ [Next]_vars => [MC!Next]_(MC!vars)
  BY RefineNext
<1> QED
  BY <1>1, <1>2, <1>3, TypeInvariant, RefineInit, PTL DEF Spec, ReliableMessages, MC!Spec
=============================================================================
