---------------------------- MODULE SessionProofs ----------------------------
(***************************************************************************)
(* What is left in the channel between requests, for every length and      *)
(* number of responses and however the user fetches: proofs about module   *)
(* Session.                                                                *)
(***************************************************************************)
EXTENDS Session, SequenceTheorems, FiniteSetTheorems, TLAPS

Results == [req : Nat, eof_received : BOOLEAN, rows : Seq(Nat), failed : BOOLEAN]
Requests == [kind : {"query", "execute", "prepare", "close"}, stmt : Nat]
ServerMessages == [req : Nat, pos : Nat, kind : Kinds, n : Nat]
AnyResponse == Responses \cup Preparations \cup {<<>>, <<"error">>}

-----------------------------------------------------------------------------
(* Types *)

\* The number after another one.
LEMMA NextSeqType ==
  ASSUME NEW s \in Nat
  PROVE  NextSeq(s) \in 0..(SeqMod - 1)
BY SeqModAssumption DEF NextSeq

\* A response is a sequence of kinds, and has so many definitions.
LEMMA ResponseType ==
  ASSUME NEW kinds \in AnyResponse
  PROVE  kinds \in Seq(Kinds) /\ Len(kinds) \in Nat /\ Definitions(kinds) \in Nat
<1>1. kinds \in Seq(Kinds)
  <2>1. <<>> \in Seq(Kinds) /\ <<"error">> \in Seq(Kinds)
    BY DEF Kinds
  <2> QED BY <2>1, ResponsesAssumption DEF AnyResponse
<1>2. Len(kinds) \in Nat
  BY <1>1, LenProperties
<1>3. IsFiniteSet(1..Len(kinds))
  BY <1>2, FS_Interval
<1> DEFINE definitions == {i \in 1..Len(kinds) : kinds[i] \in {"field", "bad_field", "meta"}}
<1>4. definitions \subseteq 1..Len(kinds)
  OBVIOUS
<1>5. IsFiniteSet(definitions)
  <2> HIDE DEF definitions
  <2> QED BY <1>3, <1>4, FS_Subset
<1>6. Cardinality(definitions) \in Nat
  <2> HIDE DEF definitions
  <2> QED BY <1>5, FS_CardinalityType
<1> QED BY <1>1, <1>2, <1>6 DEF Definitions

\* The messages of a response.
LEMMA MessagesType ==
  ASSUME NEW req \in Nat, NEW kinds \in AnyResponse
  PROVE  /\ Messages(req, kinds) \in Seq(ServerMessages)
         /\ Len(Messages(req, kinds)) = Len(kinds)
         /\ \A i \in 1..Len(kinds) :
              Messages(req, kinds)[i] = [req |-> req, pos |-> i, kind |-> kinds[i], n |-> Definitions(kinds)]
<1>1. kinds \in Seq(Kinds) /\ Len(kinds) \in Nat /\ Definitions(kinds) \in Nat
  BY ResponseType
<1>2. \A i \in 1..Len(kinds) :
        [req |-> req, pos |-> i, kind |-> kinds[i], n |-> Definitions(kinds)] \in ServerMessages
  BY <1>1 DEF ServerMessages
<1>3. Messages(req, kinds) \in [1..Len(kinds) -> ServerMessages]
  BY <1>2 DEF Messages
<1>4. Messages(req, kinds) \in Seq(ServerMessages)
  BY <1>1, <1>3
<1>5. Len(Messages(req, kinds)) = Len(kinds)
  BY <1>1, <1>3, <1>4, LenProperties
<1> QED BY <1>4, <1>5 DEF Messages

\* The operation, the error and the queues of a new session.
LEMMA TypeInit == Init => TypeOK
BY SeqModAssumption DEF Init, TypeOK, Idle, Op, Operation, Apis

\* The head of the queue and the rest of it.
LEMMA AcceptedType ==
  ASSUME TypeOK, NEW kind, Accepted(kind)
  PROVE  /\ Head(toClient) \in ServerMessages
         /\ toClient' \in Seq(ServerMessages)
         /\ sequence_number' \in 0..(SeqMod - 1)
         /\ UNCHANGED <<foreign, toServer, answers, prepared>>
<1>1. toClient \in Seq(ServerMessages) /\ toClient # <<>> /\ sequence_number \in Nat
  BY SeqModAssumption DEF TypeOK, Accepted, ServerMessages
<1>2. Head(toClient) \in ServerMessages /\ Tail(toClient) \in Seq(ServerMessages)
  BY <1>1, HeadTailProperties
<1> QED BY <1>1, <1>2, NextSeqType DEF Accepted

\* An operation that ends.
LEMMA FinishType ==
  ASSUME NEW e \in {"none", "server", "decode", "mismatch", "undefined", "io"}, Finish(e)
  PROVE  /\ op' \in Operation
         /\ error' \in {"none", "server", "decode", "mismatch", "undefined", "io", "wrong_num_params"}
BY DEF Finish, Idle, Op, Operation, Apis

\* A resultset changes.
LEMMA UpdateType ==
  ASSUME TypeOK, NEW k, NEW value, k \in 1..Len(results) => value \in Results,
         results' = [results EXCEPT ![k] = value]
  PROVE  results' \in Seq(Results)
<1>1. results \in Seq(Results)
  BY DEF TypeOK, Results
<1>2. CASE k \in 1..Len(results)
  BY <1>1, <1>2, ExceptSeq
<1>3. CASE k \notin 1..Len(results)
  <2>1. results' = results
    BY <1>1, <1>3
  <2> QED BY <1>1, <2>1
<1> QED BY <1>2, <1>3

\* Rows are added to those the user has.
LEMMA RowsType ==
  ASSUME TypeOK, NEW rows \in Seq(Nat), NEW k \in 1..Len(results)
  PROVE  results[k] \in Results /\ results[k].rows \o rows \in Seq(Nat)
<1>1. results[k] \in Results
  BY ElementOfSeq DEF TypeOK, Results
<1> QED BY <1>1, ConcatProperties DEF Results

LEMMA HandOverType ==
  ASSUME TypeOK, NEW rows \in Seq(Nat), HandOver(rows)
  PROVE  results' \in Seq(Results)
<1> DEFINE value == [results[op.rs] EXCEPT !.rows = @ \o rows]
<1>1. op.rs \in 1..Len(results) => value \in Results
  <2> SUFFICES ASSUME op.rs \in 1..Len(results) PROVE value \in Results
    OBVIOUS
  <2> DEFINE r == results[op.rs]
  <2>1. r \in Results /\ r.rows \o rows \in Seq(Nat)
    BY RowsType
  <2> HIDE DEF r
  <2>2. [r EXCEPT !.rows = r.rows \o rows] \in Results
    BY <2>1 DEF Results
  <2> QED BY <2>2 DEF r
<1>2. results' = [results EXCEPT ![op.rs] = value]
  BY DEF HandOver
<1> HIDE DEF value
<1> QED BY <1>1, <1>2, UpdateType

\* The server answers a request with a response.
LEMMA RespondType ==
  ASSUME TypeOK, toServer # <<>>, NEW kinds \in AnyResponse, Respond(kinds), prepared' \in SUBSET Nat
  PROVE  TypeOK'
<1>1. Len(answers) + 1 \in Nat
  BY LenProperties DEF TypeOK
<1>2. Messages(Len(answers) + 1, kinds) \in Seq(ServerMessages)
  BY <1>1, MessagesType
<1>3. toClient' \in Seq(ServerMessages)
  BY <1>2, ConcatProperties DEF TypeOK, Respond, ServerMessages
<1>4. answers' \in Seq(AnyResponse)
  BY AppendProperties DEF TypeOK, Respond, AnyResponse
<1>5. toServer' \in Seq(Requests)
  BY HeadTailProperties DEF TypeOK, Respond, Requests
<1> QED BY <1>3, <1>4, <1>5 DEF TypeOK, Respond, clientVars, ServerMessages, AnyResponse, Requests

\* Every step keeps the types.
LEMMA TypeStep ==
  ASSUME TypeOK, [Next]_vars
  PROVE  TypeOK'
<1>s. /\ results \in Seq(Results) /\ toServer \in Seq(Requests) /\ answers \in Seq(AnyResponse)
      /\ Len(answers) \in Nat /\ Len(toServer) \in Nat /\ Len(statements) \in Nat /\ Len(results) \in Nat
      /\ Requested \in Nat /\ op \in Operation
  BY LenProperties DEF TypeOK, Results, Requests, AnyResponse, Requested
<1>e. /\ \A s \in 1..Len(statements) : statements[s].id \in Nat
      /\ \A rs \in 1..Len(results) : results[rs].req \in Nat
  <2>1. \A s \in 1..Len(statements) : statements[s] \in [id : Nat]
    BY ElementOfSeq DEF TypeOK
  <2>2. \A rs \in 1..Len(results) : results[rs] \in Results
    BY <1>s, ElementOfSeq
  <2> QED BY <2>1, <2>2 DEF Results
<1>w. ASSUME NEW kind \in {"query", "execute", "prepare", "close"}, NEW stmt \in Nat, WriteRequest(kind, stmt)
      PROVE  /\ toServer' \in Seq(Requests)
             /\ sequence_number' \in 0..(SeqMod - 1)
             /\ error' = "none"
  <2>1. [kind |-> kind, stmt |-> stmt] \in Requests
    BY DEF Requests
  <2> QED BY <1>s, <1>w, <2>1, AppendProperties, NextSeqType DEF WriteRequest
<1>o. ASSUME NEW kind \in {"head", "prepare"}
      PROVE  Op(kind, Requested + 1, 0, 0, "error_code") \in Operation
  BY <1>s, <1>o DEF Op, Operation, Apis
<1>1. CASE Query
  BY <1>1, <1>w, <1>o DEF Query, TypeOK, Requests
<1>2. CASE Prepare
  BY <1>2, <1>w, <1>o DEF Prepare, TypeOK, Requests
<1>3. ASSUME NEW s \in 1..Len(statements), Execute(s) PROVE TypeOK'
  <2>1. statements[s].id \in Nat
    BY <1>e
  <2> QED BY <1>3, <2>1, <1>w, <1>o DEF Execute, TypeOK, Requests
<1>4. ASSUME NEW s \in 1..Len(statements), ExecuteWrongParams(s) PROVE TypeOK'
  BY <1>4 DEF ExecuteWrongParams, TypeOK
<1>5. ASSUME NEW s \in 1..Len(statements), CloseStatement(s) PROVE TypeOK'
  <2>1. statements[s].id \in Nat
    BY <1>e
  <2> QED BY <1>5, <2>1, <1>w DEF CloseStatement, TypeOK, Requests
<1>c. ASSUME NEW s \in 1..Len(statements), CloseFails(s) PROVE TypeOK'
  BY <1>c, NextSeqType DEF CloseFails, TypeOK
<1>6. ASSUME NEW rs \in 1..Len(results), NEW count \in Counts, NEW api \in Apis, Fetch(rs, count, api)
      PROVE  TypeOK'
  <2>1. results[rs].req \in Nat /\ count \in Nat
    BY <1>e, CountsAssumption
  <2>2. op' \in Operation
    BY <1>6, <2>1, <1>s DEF Fetch, Op, Operation
  <2> QED BY <1>6, <2>2 DEF Fetch, TypeOK
<1>7. ASSUME NEW rs \in 1..Len(results), NEW count \in Counts, FetchNothing(rs, count) PROVE TypeOK'
  BY <1>7 DEF FetchNothing, TypeOK
<1>8. ASSUME NEW kind, Accepted(kind), NEW e \in {"none", "server", "decode"}, Finish(e),
             UNCHANGED statements, results' \in Seq(Results)
      PROVE  TypeOK'
  BY <1>8, AcceptedType, FinishType DEF TypeOK, Results, ServerMessages
<1>9. ASSUME NEW kind, Accepted(kind), op' \in Operation, UNCHANGED <<error, results, statements>>
      PROVE  TypeOK'
  BY <1>9, AcceptedType DEF TypeOK, ServerMessages
<1>10. ASSUME NEW complete_ \in BOOLEAN, results' = Append(results, Resultset(op.req, complete_))
       PROVE  results' \in Seq(Results)
  <2>1. Resultset(op.req, complete_) \in Results
    BY <1>s DEF Resultset, Results, Operation
  <2> QED BY <1>s, <1>10, <2>1, AppendProperties
<1>11. CASE ReadOk
  BY <1>8, <1>10, <1>11 DEF ReadOk
<1>12. CASE ReadError \/ ReadBadHead
  <2>1. results' \in Seq(Results) /\ UNCHANGED statements
    BY <1>s, <1>12 DEF ReadError, ReadBadHead
  <2>2. CASE ReadError
    BY <1>8, <2>1, <2>2 DEF ReadError
  <2>3. CASE ReadBadHead
    BY <1>8, <2>1, <2>3 DEF ReadBadHead
  <2> QED BY <1>12, <2>2, <2>3
<1>13. CASE ReadFieldCount
  <2>1. Head(toClient).n \in Nat
    BY <1>13, AcceptedType DEF ReadFieldCount, ServerMessages
  <2>2. op' \in Operation
    BY <1>s, <1>13, <2>1 DEF ReadFieldCount, Operation
  <2> QED BY <1>9, <1>13, <2>2 DEF ReadFieldCount
<1>14. CASE ReadField
  <2>1. CASE op.left > 1
    <3>1. op' \in Operation
      <4>1. op' = [op EXCEPT !.left = op.left - 1]
        BY <1>14, <2>1 DEF ReadField
      <4>2. op \in Operation /\ op.left \in Nat
        BY <1>s DEF Operation
      <4>3. op.left - 1 \in Nat
        BY <2>1, <4>2
      <4> QED BY <4>1, <4>2, <4>3 DEF Operation
    <3> QED BY <1>9, <1>14, <2>1, <3>1 DEF ReadField
  <2>2. CASE ~(op.left > 1)
    BY <1>8, <1>10, <1>14, <2>2 DEF ReadField
  <2> QED BY <2>1, <2>2
<1>15. CASE ReadBadField
  BY <1>s, <1>8, <1>15 DEF ReadBadField
<1>r. op.got \in Seq(Nat) /\ Returned("decode") \in Seq(Nat) /\ Returned("io") \in Seq(Nat)
      /\ Returned("server") \in Seq(Nat)
  BY <1>s DEF Operation, Returned
<1>16. CASE ReadRow
  <2> DEFINE got == Append(op.got, Head(toClient).pos)
  <2>1. Head(toClient).pos \in Nat
    BY <1>16, AcceptedType DEF ReadRow, ServerMessages
  <2>2. got \in Seq(Nat)
    BY <1>r, <2>1, AppendProperties
  <2>3. \/ op.left > 1 /\ op' = [op EXCEPT !.left = @ - 1, !.got = got] /\ UNCHANGED <<error, results>>
        \/ Finish("none") /\ HandOver(got)
    BY <1>16 DEF ReadRow
  <2>4. Accepted("row") /\ UNCHANGED statements
    BY <1>16 DEF ReadRow
  <2> HIDE DEF got
  <2>5. CASE op.left > 1 /\ op' = [op EXCEPT !.left = @ - 1, !.got = got] /\ UNCHANGED <<error, results>>
    <3>1. op.left - 1 \in Nat
      BY <1>s, <2>5 DEF Operation
    <3>2. op' = [[op EXCEPT !.left = op.left - 1] EXCEPT !.got = got]
      BY <1>s, <2>5 DEF Operation
    <3>3. op' \in Operation
      BY <1>s, <2>2, <3>1, <3>2 DEF Operation
    <3> QED BY <1>9, <2>4, <2>5, <3>3
  <2>6. CASE Finish("none") /\ HandOver(got)
    BY <1>8, <2>2, <2>4, <2>6, HandOverType
  <2> QED BY <2>3, <2>5, <2>6
<1>17. CASE ReadEof
  <2> DEFINE value == [results[op.rs] EXCEPT !.rows = @ \o op.got, !.eof_received = TRUE]
  <2>1. ASSUME op.rs \in 1..Len(results) PROVE value \in Results
    <3>1. results[op.rs] \in Results /\ results[op.rs].rows \o op.got \in Seq(Nat)
      BY <1>r, <2>1, RowsType
    <3> QED BY <3>1 DEF Results
  <2>2. results' = [results EXCEPT ![op.rs] = value]
    BY <1>17 DEF ReadEof
  <2> HIDE DEF value
  <2>3. results' \in Seq(Results)
    BY <2>1, <2>2, UpdateType
  <2> QED BY <1>8, <1>17, <2>3 DEF ReadEof
<1>18. CASE ReadBadRow
  <2>1. results' \in Seq(Results)
    BY <1>r, <1>18, HandOverType DEF ReadBadRow
  <2> QED BY <1>8, <1>18, <2>1 DEF ReadBadRow
<1>19. CASE ReadRowError \/ ReadBadEof
  <2>1. ASSUME NEW kind, Accepted(kind), NEW e \in {"server", "decode"}, FailedEnd(e) PROVE TypeOK'
    <3> DEFINE value == [results[op.rs] EXCEPT !.rows = @ \o Returned(e), !.failed = TRUE]
    <3>1. ASSUME op.rs \in 1..Len(results) PROVE value \in Results
      <4>1. results[op.rs] \in Results /\ results[op.rs].rows \o Returned(e) \in Seq(Nat)
        BY <1>r, <2>1, <3>1, RowsType
      <4> QED BY <4>1 DEF Results
    <3>2. results' = [results EXCEPT ![op.rs] = value]
      BY <2>1 DEF FailedEnd
    <3> HIDE DEF value
    <3>3. results' \in Seq(Results)
      BY <3>1, <3>2, UpdateType
    <3> QED BY <1>8, <2>1, <3>3 DEF FailedEnd
  <2> QED BY <1>19, <2>1 DEF ReadRowError, ReadBadEof
<1>20. ASSUME NEW kind, Accepted(kind), NEW id \in Nat, Finish("none"), NewStatement(id), UNCHANGED results
       PROVE  TypeOK'
  <2>1. statements' \in Seq([id : Nat])
    BY <1>20, AppendProperties DEF NewStatement, TypeOK
  <2> QED BY <1>s, <1>20, <2>1, AcceptedType, FinishType DEF TypeOK, Results, ServerMessages
<1>21. CASE ReadPrepared
  <2>1. Head(toClient).n \in Nat /\ Head(toClient).req \in Nat
    BY <1>21, AcceptedType DEF ReadPrepared, ServerMessages
  <2>2. CASE Head(toClient).n > 0
    <3>1. op' \in Operation
      BY <1>s, <1>21, <2>1, <2>2 DEF ReadPrepared, Operation
    <3> QED BY <1>9, <1>21, <2>2, <3>1 DEF ReadPrepared
  <2>3. CASE ~(Head(toClient).n > 0)
    BY <1>20, <1>21, <2>1, <2>3 DEF ReadPrepared
  <2> QED BY <2>2, <2>3
<1>22. CASE ReadMeta
  <2>1. CASE op.left > 1
    <3>1. op' \in Operation
      <4>1. op' = [op EXCEPT !.left = op.left - 1]
        BY <1>22, <2>1 DEF ReadMeta
      <4>2. op \in Operation /\ op.left \in Nat
        BY <1>s DEF Operation
      <4>3. op.left - 1 \in Nat
        BY <2>1, <4>2
      <4> QED BY <4>1, <4>2, <4>3 DEF Operation
    <3> QED BY <1>9, <1>22, <2>1, <3>1 DEF ReadMeta
  <2>2. CASE ~(op.left > 1)
    <3>1. op.req \in Nat
      BY <1>s DEF Operation
    <3> QED BY <1>20, <1>22, <2>2, <3>1 DEF ReadMeta
  <2> QED BY <2>1, <2>2
<1>23. CASE ReadMismatch
  BY <1>23, FinishType DEF ReadMismatch, TypeOK
<1>24. CASE ReadForeign
  <2>1. Head(toClient) \in ServerMessages
    BY <1>24, HeadTailProperties DEF ReadForeign, TypeOK, ServerMessages
  <2>2. foreign' \in SUBSET Nat
    BY <1>24, <2>1 DEF ReadForeign, TypeOK, ServerMessages
  <2> QED BY <1>24, <2>2, FinishType DEF ReadForeign, TypeOK
<1>25. CASE TransferError
  <2>1. results' \in Seq(Results)
    BY <1>r, <1>s, <1>25, HandOverType DEF TransferError
  <2> QED BY <1>25, <2>1, FinishType DEF TransferError, TypeOK, Results
<1>26. CASE Serve
  <2> DEFINE r == Head(toServer)
  <2>1. toServer # <<>> /\ r \in Requests /\ prepared \in SUBSET Nat /\ Len(answers) + 1 \in Nat
    BY <1>26, <1>s, HeadTailProperties DEF Serve, TypeOK
  <2>2. PICK kinds \in AnyResponse : Respond(kinds) /\ prepared' \in SUBSET Nat
    <3> HIDE DEF r
    <3>1. <<>> \in AnyResponse /\ <<"error">> \in AnyResponse
          /\ Responses \subseteq AnyResponse /\ Preparations \subseteq AnyResponse
      BY DEF AnyResponse
    <3>2. CASE r.kind = "query" /\ (\E kinds \in Responses : Respond(kinds)) /\ UNCHANGED prepared
      BY <3>1, <3>2, <2>1
    <3>3. CASE (IF r.stmt \in prepared THEN \E kinds \in Responses : Respond(kinds) ELSE Respond(<<"error">>))
               /\ UNCHANGED prepared
      BY <3>1, <3>3, <2>1
    <3>4. CASE \E kinds \in Preparations :
                 /\ Respond(kinds)
                 /\ prepared' = IF kinds[1] # "error" THEN prepared \cup {Len(answers) + 1} ELSE prepared
      BY <3>1, <3>4, <2>1
    <3>5. CASE Respond(<<>>) /\ prepared' = prepared \ {r.stmt}
      BY <3>1, <3>5, <2>1
    <3> QED BY <1>26, <3>2, <3>3, <3>4, <3>5 DEF Serve, r
  <2> QED BY <2>1, <2>2, RespondType
<1>27. CASE UNCHANGED vars
  BY <1>27 DEF vars, clientVars, TypeOK
<1> QED
  BY <1>1, <1>2, <1>3, <1>4, <1>5, <1>c, <1>6, <1>7, <1>11, <1>12, <1>13, <1>14, <1>15, <1>16, <1>17, <1>18, <1>19,
     <1>21, <1>22, <1>23, <1>24, <1>25, <1>26, <1>27
  DEF Next, UserStep, Reading

\* The session is well-typed, with responses of any length.
THEOREM TypeCorrect == Spec => []TypeOK
BY TypeInit, TypeStep, PTL DEF Spec

-----------------------------------------------------------------------------
(* Responses are read in order *)

LastAnswer == answers[Len(answers)]

\* How much of the last response the client has read.
Consumed == Len(LastAnswer) - Len(toClient)

NoneAbandoned == \A req \in 1..Len(answers) : ~Abandoned(answers[req])
WholeRows(kinds) == RowsResponse(kinds) /\ ~Abandoned(kinds)
WholeQuery(kinds) == QueryResponse(kinds) /\ ~Abandoned(kinds)

\* An operation starts without an error, and ends with its first.
Running == op.kind # "idle" => error = "none"

\* What is on its way to the client is the rest of the last response, and the
\* client expects the number it goes on with.
InFlight ==
  toClient # <<>> =>
    /\ toServer = <<>> /\ answers # <<>> /\ Len(toClient) <= Len(LastAnswer)
    /\ \A i \in 1..Len(toClient) :
         toClient[i] = [req |-> Len(answers), pos |-> Consumed + i, kind |-> LastAnswer[Consumed + i],
                        n |-> Definitions(LastAnswer)]
    /\ sequence_number = (Consumed + 1) % SeqMod

\* Only the last request on its way to the server can be one with a response.
ServerQueue ==
  \A i \in 1..Len(toServer) :
    \/ toServer[i].kind = "close"
    \/ /\ i = Len(toServer)
       /\ \/ op.kind = "head" /\ toServer[i].kind \in {"query", "execute"}
          \/ op.kind = "prepare" /\ toServer[i].kind = "prepare"

\* The first message of a response: still to be sent, or next.
Waiting ==
  op.kind \in {"head", "prepare"} =>
    /\ op.req = Requested
    /\ IF toServer = <<>>
         THEN /\ toClient # <<>> /\ Consumed = 0
              /\ IF op.kind = "head" THEN WholeQuery(LastAnswer) ELSE PrepareResponse(LastAnswer)
         ELSE sequence_number = 1 % SeqMod /\ toServer[Len(toServer)].kind # "close"

\* The definitions that follow it, as many as it announced.
DefinitionsNext ==
  op.kind \in {"fields", "meta"} =>
    /\ toServer = <<>> /\ toClient # <<>> /\ op.req = Requested
    /\ op.left \in 1..Definitions(LastAnswer) /\ Consumed = Definitions(LastAnswer) + 1 - op.left
    /\ IF op.kind = "fields" THEN WholeRows(LastAnswer)
                             ELSE PrepareResponse(LastAnswer) /\ LastAnswer[1] = "prepared"

\* Between and during fetches, what is left is rows and their end, and the user
\* has the resultset to read them through.
RowsNext ==
  op.kind \in {"idle", "fetch"} /\ toClient # <<>> =>
    /\ WholeRows(LastAnswer) /\ Consumed > Definitions(LastAnswer)
    /\ \E rs \in 1..Len(results) : results[rs].req = Len(answers)

Fetching ==
  op.kind = "fetch" =>
    /\ toServer = <<>> /\ op.req = Requested
    /\ op.rs \in 1..Len(results) /\ results[op.rs].req = op.req /\ ~complete(op.rs)

\* A resultset is at its end exactly when nothing is left of its response, and
\* no two have the same.
ResultsetsKnow ==
  \A rs \in 1..Len(results) :
    /\ results[rs].req \in 1..Len(answers)
    /\ \A other \in 1..Len(results) : results[other].req = results[rs].req => other = rs
    /\ op.kind \notin {"idle", "fetch"} => results[rs].req < op.req
    /\ op.kind \in {"idle", "fetch"} /\ results[rs].req = Len(answers) =>
         (toClient = <<>> <=> complete(rs) \/ results[rs].failed)

InOrder ==
  /\ error \notin {"mismatch", "undefined"}
  /\ InFlight /\ ServerQueue /\ Waiting /\ DefinitionsNext /\ RowsNext /\ Fetching /\ ResultsetsKnow

\* The invariant: responses are read in order, unless one was abandoned or the
\* connection lost.
Order == Running /\ (NoneAbandoned /\ error # "io" => InOrder)

\* Division, as the provers need it spelled out.
LEMMA Remainder ==
  ASSUME NEW m \in Nat \ {0}, NEW q \in Nat, NEW r \in Nat, r < m
  PROVE  (m * q + r) % m = r
OBVIOUS

\* The number after that of a position is that of the next position.
LEMMA NextRemainder ==
  ASSUME NEW m \in Nat \ {0}, NEW a \in Nat
  PROVE  ((a % m) + 1) % m = (a + 1) % m
<1> DEFINE q == a \div m
           r == a % m
<1>1. a = m * q + r /\ r \in Nat /\ r < m /\ q \in Nat
  OBVIOUS
<1> HIDE DEF q, r
<1>2. CASE r + 1 < m
  <2>1. (m * q + (r + 1)) % m = r + 1 /\ (m * 0 + (r + 1)) % m = r + 1
    BY <1>1, <1>2, Remainder
  <2> QED BY <1>1, <2>1 DEF r
<1>3. CASE r + 1 = m
  <2>1. (m * (q + 1) + 0) % m = 0 /\ (m * 1 + 0) % m = 0
    BY <1>1, Remainder
  <2>2. a + 1 = m * (q + 1) + 0 /\ r + 1 = m * 1 + 0
    BY <1>1, <1>3
  <2> QED BY <2>1, <2>2 DEF r
<1> QED BY <1>1, <1>2, <1>3

\* NoneAbandoned and a connection that is not lost are facts about all of the past.
LEMMA StillFine ==
  ASSUME TypeOK, Running, [Next]_vars
  PROVE  /\ NoneAbandoned' => NoneAbandoned
         /\ error' # "io" => error # "io"
<1>1. NoneAbandoned' => NoneAbandoned
  <2>1. CASE answers' = answers
    BY <2>1 DEF NoneAbandoned
  <2>2. CASE \E kinds : Respond(kinds)
    <3>1. PICK kinds : answers' = Append(answers, kinds)
      BY <2>2 DEF Respond
    <3>2. /\ Len(answers) \in Nat /\ Len(answers') = Len(answers) + 1
          /\ \A i \in 1..Len(answers) : answers'[i] = answers[i]
      BY <3>1, LenProperties, AppendProperties DEF TypeOK
    <3> QED BY <3>2 DEF NoneAbandoned
  <2>3. Serve => \E kinds : Respond(kinds)
    BY DEF Serve
  <2>4. answers' = answers \/ Serve
    BY DEF Next, UserStep, Reading, Query, Prepare, Execute, ExecuteWrongParams, CloseStatement, CloseFails, Fetch, FetchNothing,
           ReadOk, ReadError, ReadBadHead, ReadFieldCount, ReadField, ReadBadField, ReadRow, ReadEof, ReadBadRow, ReadRowError, ReadBadEof, FailedEnd,
           ReadPrepared, ReadMeta, ReadForeign, ReadMismatch, Accepted, TransferError, vars
  <2> QED BY <2>1, <2>2, <2>3, <2>4
<1>2. error = "io" => error' = "io"
  <2> SUFFICES ASSUME error = "io" PROVE error' = "io"
    OBVIOUS
  <2>1. op.kind = "idle" /\ ~Usable /\ ~Ready
    BY DEF Running, Usable, Ready
  <2>2. ~UserStep /\ ~Reading /\ ~TransferError
    BY <2>1 DEF UserStep, Query, Prepare, Execute, ExecuteWrongParams, CloseStatement, CloseFails, Fetch, FetchNothing,
           Reading, ReadOk, ReadError, ReadBadHead, ReadFieldCount, ReadField, ReadBadField, ReadRow, ReadEof, ReadBadRow,
           ReadRowError, ReadBadEof, FailedEnd, ReadPrepared, ReadMeta, ReadForeign, ReadMismatch, TransferError
  <2>3. Serve => UNCHANGED clientVars
    BY DEF Serve, Respond
  <2> QED BY <2>2, <2>3 DEF Next, clientVars, vars
<1> QED BY <1>1, <1>2

\* Operations start and go on without an error.
LEMMA RunningStep ==
  ASSUME TypeOK, Running, [Next]_vars
  PROVE  Running'
<1>1. \A e : Finish(e) => op'.kind = "idle"
  BY DEF Finish, Idle, Op
<1>2. ASSUME UserStep PROVE Running'
  BY <1>2 DEF UserStep, Query, Prepare, Execute, ExecuteWrongParams, CloseStatement, CloseFails, Fetch, FetchNothing, WriteRequest,
     Running, Usable, Ready
<1>3. ASSUME op.kind # "idle", error' = error \/ \E e : Finish(e) PROVE Running'
  BY <1>1, <1>3 DEF Running
<1>4. ASSUME Reading \/ TransferError PROVE op.kind # "idle" /\ (error' = error \/ \E e : Finish(e))
  BY <1>4 DEF Reading, ReadOk, ReadError, ReadBadHead, ReadFieldCount, ReadField, ReadBadField, ReadRow, ReadEof, ReadBadRow,
           ReadRowError, ReadBadEof, FailedEnd, ReadPrepared, ReadMeta, ReadForeign, ReadMismatch, TransferError
<1>5. ASSUME Serve \/ UNCHANGED vars PROVE Running'
  <2>1. UNCHANGED clientVars
    BY <1>5 DEF Serve, Respond, vars, clientVars
  <2> QED BY <2>1 DEF clientVars, Running
<1> QED BY <1>2, <1>3, <1>4, <1>5 DEF Next

\* Reading a message that was expected.
LEMMA Taken ==
  ASSUME TypeOK, InFlight, NEW kind, Accepted(kind)
  PROVE  /\ answers' = answers /\ toServer = <<>> /\ toServer' = <<>> /\ Len(answers) \in Nat \ {0}
         /\ Requested = Len(answers) /\ Requested' = Len(answers)
         /\ LastAnswer' = LastAnswer /\ Definitions(LastAnswer) \in Nat /\ Len(LastAnswer) \in Nat
         /\ Consumed \in Nat /\ Consumed' = Consumed + 1 /\ Consumed < Len(LastAnswer)
         /\ (toClient' = <<>> <=> Consumed + 1 = Len(LastAnswer))
         /\ LastAnswer[Consumed + 1] = kind /\ Head(toClient).n = Definitions(LastAnswer)
         /\ InFlight' /\ ServerQueue'
<1>1. /\ toClient # <<>> /\ toServer = <<>> /\ toServer' = toServer /\ answers' = answers /\ answers # <<>>
      /\ sequence_number' = NextSeq(sequence_number) /\ toClient' = Tail(toClient)
  BY DEF Accepted, InFlight
<1>2. toClient \in Seq(ServerMessages) /\ answers \in Seq(AnyResponse)
  BY DEF TypeOK, ServerMessages, AnyResponse
<1>3. /\ Len(toClient) \in Nat \ {0} /\ Len(toClient') = Len(toClient) - 1 /\ Head(toClient) = toClient[1]
      /\ toClient' \in Seq(ServerMessages)
      /\ \A i \in 1..Len(toClient') : toClient'[i] = toClient[i + 1]
  BY <1>1, <1>2, HeadTailProperties, LenProperties, EmptySeq
<1>4. Len(answers) \in Nat \ {0} /\ LastAnswer \in AnyResponse
  <2>1. Len(answers) \in Nat \ {0}
    BY <1>1, <1>2, LenProperties, EmptySeq
  <2> QED BY <2>1, <1>2, ElementOfSeq DEF LastAnswer
<1>5. Definitions(LastAnswer) \in Nat /\ Len(LastAnswer) \in Nat
  BY <1>4, ResponseType
<1>6. LastAnswer' = LastAnswer
  BY <1>1 DEF LastAnswer
<1>7. Consumed \in Nat /\ Consumed < Len(LastAnswer) /\ Consumed' = Consumed + 1
      /\ Consumed + Len(toClient) = Len(LastAnswer)
  <2>1. Len(toClient) <= Len(LastAnswer)
    BY <1>1 DEF InFlight
  <2>2. Consumed' = Len(LastAnswer') - Len(toClient')
    BY DEF Consumed
  <2> QED BY <1>3, <1>5, <1>6, <2>1, <2>2 DEF Consumed
<1>8. toClient' = <<>> <=> Consumed + 1 = Len(LastAnswer)
  BY <1>3, <1>5, <1>7, EmptySeq
<1>9. \A i \in 1..Len(toClient) :
         toClient[i] = [req |-> Len(answers), pos |-> Consumed + i, kind |-> LastAnswer[Consumed + i],
                        n |-> Definitions(LastAnswer)]
  BY <1>1 DEF InFlight
<1>10. Head(toClient).kind = LastAnswer[Consumed + 1] /\ Head(toClient).n = Definitions(LastAnswer)
  <2>1. 1 \in 1..Len(toClient)
    BY <1>3
  <2>2. toClient[1] = [req |-> Len(answers), pos |-> Consumed + 1, kind |-> LastAnswer[Consumed + 1],
                       n |-> Definitions(LastAnswer)]
    BY <1>9, <2>1
  <2> QED BY <1>3, <2>2
<1>11. InFlight'
  <2>1. ASSUME NEW i \in 1..Len(toClient')
        PROVE  toClient'[i] = [req |-> Len(answers), pos |-> Consumed + 1 + i,
                               kind |-> LastAnswer[Consumed + 1 + i], n |-> Definitions(LastAnswer)]
    <3>1. i + 1 \in 1..Len(toClient) /\ Consumed + (i + 1) = Consumed + 1 + i
      BY <1>3, <1>7, <2>1
    <3>2. toClient'[i] = toClient[i + 1]
      BY <1>3
    <3> QED BY <1>9, <3>1, <3>2
  <2>2. sequence_number' = (Consumed + 1 + 1) % SeqMod
    <3>1. sequence_number = (Consumed + 1) % SeqMod
      BY <1>1 DEF InFlight
    <3>2. Consumed + 1 \in Nat
      BY <1>7
    <3> QED BY <1>1, <3>1, <3>2, SeqModAssumption, NextRemainder DEF NextSeq
  <2>3. Len(toClient') <= Len(LastAnswer)
    BY <1>3, <1>5, <1>7
  <2> QED BY <1>1, <1>6, <1>7, <2>1, <2>2, <2>3 DEF InFlight
<1>12. Requested = Len(answers) /\ Requested' = Len(answers)
  BY <1>1, <1>4 DEF Requested
<1>13. ServerQueue'
  BY <1>1 DEF ServerQueue
<1>14. kind = Head(toClient).kind
  BY DEF Accepted
<1> QED BY <1>1, <1>4, <1>5, <1>6, <1>7, <1>8, <1>10, <1>11, <1>12, <1>13, <1>14

\* A response that consists of one message, or of rows.
LEMMA ResponseShapes ==
  ASSUME NEW kinds \in AnyResponse
  PROVE  /\ WholeQuery(kinds) => \/ WholeRows(kinds)
                                 \/ Len(kinds) = 1 /\ kinds[1] \in {"ok", "error", "bad_head"}
         /\ PrepareResponse(kinds) /\ ~Abandoned(kinds) =>
              \/ Len(kinds) = 1 /\ kinds[1] \in {"error", "bad_head"}
              \/ kinds[1] = "prepared" /\ Len(kinds) = Definitions(kinds) + 1
         /\ WholeRows(kinds) => /\ kinds[1] = "count" /\ Definitions(kinds) > 0
                                /\ Len(kinds) >= Definitions(kinds) + 2
<1>1. Len(kinds) \in Nat /\ Definitions(kinds) \in Nat
  BY ResponseType
<1>2. ASSUME ~Abandoned(kinds), Len(kinds) > 1 PROVE kinds[1] # "bad_head"
  <2>1. 1 \in 1..(Len(kinds) - 1)
    BY <1>1, <1>2
  <2> QED BY <1>2, <2>1 DEF Abandoned
<1>3. WholeRows(kinds) => kinds[1] = "count" /\ Definitions(kinds) > 0 /\ Len(kinds) >= Definitions(kinds) + 2
  BY <1>1, <1>2 DEF WholeRows, RowsResponse
<1>4. QueryResponse(kinds) => RowsResponse(kinds) \/ (Len(kinds) = 1 /\ kinds[1] \in {"ok", "error", "bad_head"})
  BY DEF QueryResponse
<1>5. ASSUME PrepareResponse(kinds), ~Abandoned(kinds)
      PROVE  \/ Len(kinds) = 1 /\ kinds[1] \in {"error", "bad_head"}
             \/ kinds[1] = "prepared" /\ Len(kinds) = Definitions(kinds) + 1
  <2>1. CASE kinds = <<"error">>
    BY <2>1
  <2>2. CASE Len(kinds) = Definitions(kinds) + 1 /\ kinds[1] = "prepared"
    BY <2>2
  <2>3. CASE Len(kinds) = Definitions(kinds) + 1 /\ kinds[1] = "bad_head"
    <3>1. ~(Len(kinds) > 1)
      BY <1>2, <1>5, <2>3
    <3> QED BY <1>1, <2>3, <3>1
  <2> QED BY <1>5, <2>1, <2>2, <2>3 DEF PrepareResponse
<1> QED BY <1>3, <1>4, <1>5 DEF WholeQuery, WholeRows

\* Definitions are followed by rows, and rows by the end.
LEMMA RowsAfterDefinitions ==
  ASSUME NEW kinds \in AnyResponse, WholeRows(kinds), NEW i \in Nat, i > 0, i <= Len(kinds)
  PROVE  /\ i > 1 /\ i <= Definitions(kinds) + 1 => kinds[i] = "field"
         /\ i > Definitions(kinds) + 1 /\ i < Len(kinds) => kinds[i] \in {"row", "bad_row"}
         /\ i = Len(kinds) => kinds[i] \in {"eof", "bad_eof", "error"}
<1>1. Len(kinds) \in Nat /\ Definitions(kinds) \in Nat
  BY ResponseType
<1>2. \A j \in 1..(Len(kinds) - 1) : kinds[j] \notin {"bad_field", "huge_row"}
  BY DEF WholeRows, Abandoned
<1>3. Definitions(kinds) + 2 <= Len(kinds)
  BY DEF WholeRows, RowsResponse
<1> QED BY <1>1, <1>2, <1>3 DEF WholeRows, RowsResponse

\* An operation that ends without a resultset of its own.
LEMMA OwnersStay ==
  ASSUME ResultsetsKnow, op.kind \notin {"idle", "fetch"}, op.req = Len(answers), answers' = answers,
         results' = results, op'.kind = "idle" \/ (op'.kind # "fetch" /\ op'.req = op.req),
         TypeOK
  PROVE  ResultsetsKnow'
<1>1. \A rs \in 1..Len(results) : results[rs].req < Len(answers) /\ results[rs].req \in Nat /\ Len(answers) \in Nat
  BY LenProperties DEF ResultsetsKnow, TypeOK
<1>2. \A rs \in 1..Len(results) : results[rs].req # Len(answers)
  BY <1>1
<1> QED BY <1>1, <1>2 DEF ResultsetsKnow, complete

\* An operation that ends with a resultset.
LEMMA OwnerAdded ==
  ASSUME TypeOK, ResultsetsKnow, op.kind \notin {"idle", "fetch"}, op.req = Len(answers), answers' = answers,
         Len(answers) \in Nat \ {0}, NEW ended \in BOOLEAN, results' = Append(results, Resultset(op.req, ended)),
         op'.kind = "idle", toClient' = <<>> <=> ended
  PROVE  /\ ResultsetsKnow'
         /\ \E rs \in 1..Len(results') : results'[rs].req = Len(answers)
<1>1. /\ Len(results) \in Nat /\ Len(results') = Len(results) + 1
      /\ results'[Len(results) + 1] = Resultset(op.req, ended)
      /\ \A rs \in 1..Len(results) : results'[rs] = results[rs]
  BY LenProperties, AppendProperties DEF TypeOK
<1>2. \A rs \in 1..Len(results) : results'[rs].req \in 1..Len(answers) /\ results'[rs].req < Len(answers)
  BY <1>1 DEF ResultsetsKnow
<1>3. LET r == results'[Len(results) + 1]
      IN  r.req = Len(answers) /\ r.eof_received = ended /\ r.failed = FALSE
  BY <1>1 DEF Resultset
<1>4. \A rs \in 1..Len(results') : rs \in 1..Len(results) \/ rs = Len(results) + 1
  BY <1>1
<1>5. ASSUME NEW rs \in 1..Len(results')
      PROVE  /\ results'[rs].req \in 1..Len(answers)
             /\ \A other \in 1..Len(results') : results'[other].req = results'[rs].req => other = rs
             /\ results'[rs].req = Len(answers) =>
                  (toClient' = <<>> <=> results'[rs].eof_received \/ results'[rs].failed)
  <2>1. CASE rs = Len(results) + 1
    BY <1>2, <1>3, <1>4, <2>1
  <2>2. CASE rs \in 1..Len(results)
    <3>1. results'[rs].req \in 1..Len(answers) /\ results'[rs].req < Len(answers)
      BY <1>2, <2>2
    <3>2. ASSUME NEW other \in 1..Len(results'), results'[other].req = results'[rs].req PROVE other = rs
      <4>1. other \in 1..Len(results)
        BY <1>3, <1>4, <3>1, <3>2
      <4> QED BY <1>1, <2>2, <3>2, <4>1 DEF ResultsetsKnow
    <3> QED BY <3>1, <3>2
  <2> QED BY <1>4, <2>1, <2>2
<1>6. Len(results) + 1 \in 1..Len(results')
  BY <1>1
<1> QED BY <1>3, <1>5, <1>6 DEF ResultsetsKnow, complete

\* A fetch changes its resultset.
LEMMA OwnerChanged ==
  ASSUME TypeOK, ResultsetsKnow, Fetching, op.kind = "fetch", toClient # <<>>, answers' = answers,
         NEW value, value.req = results[op.rs].req,
         toClient' = <<>> <=> value.eof_received \/ value.failed,
         results' = [results EXCEPT ![op.rs] = value], op'.kind \in {"idle", "fetch"}, Requested = Len(answers)
  PROVE  /\ ResultsetsKnow'
         /\ \E rs \in 1..Len(results') : results'[rs].req = Len(answers)
<1>1. /\ results \in Seq(Results) /\ op.rs \in 1..Len(results) /\ results[op.rs].req = Len(answers)
  BY DEF TypeOK, Results, Fetching
<1>2. /\ Len(results') = Len(results) /\ results'[op.rs] = value
      /\ \A rs \in 1..Len(results) \ {op.rs} : results'[rs] = results[rs]
  BY <1>1
<1>3. \A rs \in 1..Len(results) : results'[rs].req = results[rs].req
  BY <1>1, <1>2
<1>4. \A rs \in 1..Len(results) \ {op.rs} : results[rs].req # Len(answers)
  BY <1>1 DEF ResultsetsKnow
<1> QED BY <1>1, <1>2, <1>3, <1>4 DEF ResultsetsKnow, complete

\* A fetch that goes on leaves its resultset as it is.
LEMMA OwnerWaits ==
  ASSUME ResultsetsKnow, RowsNext, op.kind \in {"idle", "fetch"}, toClient # <<>>, toClient' # <<>>, answers' = answers,
         results' = results, op'.kind \in {"idle", "fetch"}
  PROVE  /\ ResultsetsKnow'
         /\ \E rs \in 1..Len(results') : results'[rs].req = Len(answers)
BY DEF ResultsetsKnow, RowsNext, complete

\* The invariant in two parts: queues and resultsets, and what the operation
\* in progress waits for.
Prompt == Waiting /\ DefinitionsNext /\ RowsNext /\ Fetching

\* A request is made when nothing is left of the last response.
LEMMA OrderRequest ==
  ASSUME TypeOK, InOrder, Ready, NEW kind \in {"query", "execute", "prepare", "close"}, NEW stmt \in Nat, WriteRequest(kind, stmt),
         UNCHANGED <<results, toClient, answers>>,
         \/ op' = op /\ kind = "close"
         \/ /\ op'.req = Requested + 1
            /\ \/ op'.kind = "head" /\ kind \in {"query", "execute"}
               \/ op'.kind = "prepare" /\ kind = "prepare"
  PROVE  InOrder'
<1> USE DEF InOrder
<1>1. op.kind = "idle" /\ Len(answers) \in Nat /\ Len(toServer) \in Nat /\ Requested \in Nat
  BY LenProperties DEF Ready, Usable, Requested, TypeOK
<1>2. toClient = <<>>
  BY <1>1 DEF Ready, RowsNext, ResultsetsKnow
<1>3. /\ Len(toServer') = Len(toServer) + 1 /\ toServer'[Len(toServer) + 1].kind = kind /\ toServer' # <<>>
      /\ \A i \in 1..Len(toServer) : toServer'[i] = toServer[i]
  <2>1. [kind |-> kind, stmt |-> stmt] \in Requests /\ toServer \in Seq(Requests)
    BY DEF Requests, TypeOK
  <2>2. toServer' = Append(toServer, [kind |-> kind, stmt |-> stmt])
    BY DEF WriteRequest
  <2>3. Len(toServer') = Len(toServer) + 1 /\ toServer'[Len(toServer) + 1] = [kind |-> kind, stmt |-> stmt]
        /\ \A i \in 1..Len(toServer) : toServer'[i] = toServer[i]
    BY <2>1, <2>2, AppendProperties
  <2> QED BY <1>1, <2>3
<1>4. Requested' = Requested + 1
  BY <1>1, <1>3 DEF Requested
<1>5. InFlight'
  BY <1>2 DEF InFlight
<1>6. ServerQueue'
  BY <1>1, <1>3 DEF ServerQueue
<1>7. Prompt'
  BY <1>1, <1>2, <1>3, <1>4, SeqModAssumption
  DEF Prompt, WriteRequest, NextSeq, Waiting, DefinitionsNext, RowsNext, Fetching
<1>8. ResultsetsKnow'
  <2>1. \A rs \in 1..Len(results) : results[rs].req < Requested + 1
    BY <1>1 DEF ResultsetsKnow, Requested
  <2> QED BY <1>1, <1>2, <2>1 DEF ResultsetsKnow, complete
<1> QED BY <1>5, <1>6, <1>7, <1>8 DEF Prompt, WriteRequest

\* The user fetches from the resultset of the last request.
LEMMA OrderFetch ==
  ASSUME TypeOK, InOrder, NEW rs \in 1..Len(results), NEW count, NEW api, Fetch(rs, count, api)
  PROVE  InOrder'
<1> USE DEF InOrder
<1>1. /\ op' = Op("fetch", results[rs].req, rs, count, api) /\ op.kind = "idle" /\ results[rs].req = Requested
      /\ ~complete(rs) /\ error' = "none"
      /\ UNCHANGED <<sequence_number, results, toServer, toClient, answers>>
  BY DEF Fetch, Usable
<1>2. op'.kind = "fetch" /\ op'.req = Requested /\ op'.rs = rs
  BY <1>1 DEF Op
<1>3. toServer = <<>>
  <2>1. results[rs].req <= Len(answers) /\ Len(answers) \in Nat /\ Len(toServer) \in Nat
    BY LenProperties DEF ResultsetsKnow, TypeOK
  <2>2. Len(toServer) = 0
    BY <1>1, <2>1 DEF Requested
  <2> QED BY <2>2, EmptySeq DEF TypeOK
<1>4. InFlight' /\ ServerQueue'
  BY <1>1, <1>3 DEF InFlight, ServerQueue, Consumed, LastAnswer
<1>5. Prompt'
  BY <1>1, <1>2, <1>3 DEF Prompt, Waiting, DefinitionsNext, RowsNext, Fetching, Requested, complete, Consumed, LastAnswer
<1>6. ResultsetsKnow'
  BY <1>1, <1>2 DEF ResultsetsKnow, complete
<1> QED BY <1>1, <1>4, <1>5, <1>6 DEF Prompt

\* A response starts.
LEMMA OrderHead ==
  ASSUME TypeOK, InOrder, ~Abandoned(LastAnswer),
         ReadOk \/ ReadError \/ ReadBadHead \/ ReadFieldCount \/ ReadPrepared
  PROVE  InOrder'
<1> USE DEF InOrder
<1>1. PICK kind \in {"ok", "error", "bad_head", "count", "prepared"} : Accepted(kind)
  BY DEF ReadOk, ReadError, ReadBadHead, ReadFieldCount, ReadPrepared
<1>2. op.kind \in {"head", "prepare"}
  BY DEF ReadOk, ReadError, ReadBadHead, ReadFieldCount, ReadPrepared
<1>3. /\ answers' = answers /\ toServer = <<>> /\ toServer' = <<>> /\ Len(answers) \in Nat \ {0}
      /\ Requested = Len(answers) /\ Requested' = Len(answers)
      /\ LastAnswer' = LastAnswer /\ Definitions(LastAnswer) \in Nat /\ Len(LastAnswer) \in Nat
      /\ Consumed \in Nat /\ Consumed' = Consumed + 1
      /\ (toClient' = <<>> <=> Consumed + 1 = Len(LastAnswer))
      /\ LastAnswer[Consumed + 1] = kind /\ Head(toClient).n = Definitions(LastAnswer)
      /\ InFlight' /\ ServerQueue'
  BY <1>1, Taken
<1>4. /\ op.req = Len(answers) /\ Consumed = 0 /\ LastAnswer[1] = kind
      /\ IF op.kind = "head" THEN WholeQuery(LastAnswer) ELSE PrepareResponse(LastAnswer)
  BY <1>2, <1>3 DEF Waiting
<1>5. LastAnswer \in AnyResponse
  <2>1. answers \in Seq(AnyResponse)
    BY DEF TypeOK, AnyResponse
  <2>2. Len(answers) \in 1..Len(answers)
    BY <1>3
  <2> QED BY <2>1, <2>2, ElementOfSeq DEF LastAnswer
<1>6. /\ kind \in {"ok", "error", "bad_head"} => toClient' = <<>>
      /\ op.kind = "head" /\ kind = "count" => WholeRows(LastAnswer) /\ Definitions(LastAnswer) > 0 /\ toClient' # <<>>
      /\ op.kind = "prepare" /\ kind = "prepared" => (toClient' = <<>> <=> Definitions(LastAnswer) = 0)
  <2>1. ASSUME op.kind = "head"
        PROVE  \/ WholeRows(LastAnswer) /\ kind = "count" /\ Definitions(LastAnswer) > 0
                  /\ Len(LastAnswer) >= Definitions(LastAnswer) + 2
               \/ Len(LastAnswer) = 1 /\ kind # "count"
    BY <1>4, <1>5, <2>1, ResponseShapes
  <2>2. ASSUME op.kind = "prepare"
        PROVE  \/ Len(LastAnswer) = 1 /\ kind \in {"error", "bad_head"}
               \/ kind = "prepared" /\ Len(LastAnswer) = Definitions(LastAnswer) + 1
    BY <1>4, <1>5, <2>2, ResponseShapes
  <2>3. toClient' = <<>> <=> 1 = Len(LastAnswer)
    BY <1>3, <1>4
  <2>4. Definitions(LastAnswer) \in Nat
    BY <1>3
  <2>5. CASE op.kind = "head"
    <3>1. CASE /\ WholeRows(LastAnswer) /\ kind = "count" /\ Definitions(LastAnswer) > 0
               /\ Len(LastAnswer) >= Definitions(LastAnswer) + 2
      <4>1. /\ Len(LastAnswer) \in Nat /\ Definitions(LastAnswer) \in Nat
            /\ Len(LastAnswer) >= Definitions(LastAnswer) + 2
        BY <1>3, <3>1
      <4>2. \A n, d \in Nat : n >= d + 2 => 1 # n
        OBVIOUS
      <4>3. 1 # Len(LastAnswer)
        BY ONLY <4>1, <4>2
      <4> QED BY <2>3, <2>5, <3>1, <4>3
    <3>2. CASE Len(LastAnswer) = 1 /\ kind # "count"
      BY <2>3, <2>5, <3>2
    <3> QED BY <2>1, <2>5, <3>1, <3>2
  <2>6. CASE op.kind = "prepare"
    <3>1. CASE Len(LastAnswer) = 1 /\ kind \in {"error", "bad_head"}
      BY <2>3, <2>6, <3>1
    <3>2. CASE kind = "prepared" /\ Len(LastAnswer) = Definitions(LastAnswer) + 1
      <4>1. 1 = Len(LastAnswer) <=> Definitions(LastAnswer) = 0
        BY <2>4, <3>2
      <4> QED BY <2>3, <2>6, <3>2, <4>1
    <3> QED BY <2>2, <2>6, <3>1, <3>2
  <2> QED BY <1>2, <2>5, <2>6
<1>7. CASE ReadOk
  <2>1. kind = "ok" /\ op'.kind = "idle" /\ error' = "none" /\ results' = Append(results, Resultset(op.req, TRUE))
    BY <1>1, <1>7 DEF ReadOk, Accepted, Finish, Idle, Op
  <2>2. ResultsetsKnow'
    BY <1>2, <1>3, <1>4, <1>6, <2>1, OwnerAdded
  <2>3. Prompt'
    BY <1>6, <2>1 DEF Prompt, Waiting, DefinitionsNext, RowsNext, Fetching
  <2> QED BY <1>3, <2>1, <2>2, <2>3 DEF Prompt
<1>8. CASE ReadError \/ ReadBadHead
  <2>1. kind \in {"error", "bad_head"} /\ op'.kind = "idle" /\ error' \in {"server", "decode"} /\ results' = results
    BY <1>1, <1>8 DEF ReadError, ReadBadHead, Accepted, Finish, Idle, Op
  <2>2. ResultsetsKnow'
    BY <1>2, <1>3, <1>4, <2>1, OwnersStay
  <2>3. Prompt'
    BY <1>6, <2>1 DEF Prompt, Waiting, DefinitionsNext, RowsNext, Fetching
  <2> QED BY <1>3, <2>1, <2>2, <2>3 DEF Prompt
<1>9. CASE ReadFieldCount
  <2>1. /\ kind = "count" /\ op.kind = "head" /\ op'.kind = "fields" /\ op'.left = Definitions(LastAnswer)
        /\ op'.req = op.req /\ error' = error /\ results' = results
    BY <1>1, <1>3, <1>9 DEF ReadFieldCount, Accepted, TypeOK, Operation
  <2>2. ResultsetsKnow'
    BY <1>2, <1>3, <1>4, <2>1, OwnersStay
  <2>3. Prompt'
    BY <1>3, <1>4, <1>6, <2>1 DEF Prompt, Waiting, DefinitionsNext, RowsNext, Fetching
  <2> QED BY <1>3, <2>1, <2>2, <2>3 DEF Prompt
<1>10. CASE ReadPrepared /\ Head(toClient).n > 0
  <2>1. /\ kind = "prepared" /\ op.kind = "prepare" /\ op'.kind = "meta" /\ op'.left = Definitions(LastAnswer)
        /\ op'.req = op.req /\ error' = error /\ results' = results
    BY <1>1, <1>3, <1>10 DEF ReadPrepared, Accepted, TypeOK, Operation
  <2>2. ResultsetsKnow'
    BY <1>2, <1>3, <1>4, <2>1, OwnersStay
  <2>3. Prompt'
    BY <1>3, <1>4, <1>6, <1>10, <2>1 DEF Prompt, Waiting, DefinitionsNext, RowsNext, Fetching
  <2> QED BY <1>3, <2>1, <2>2, <2>3 DEF Prompt
<1>11. CASE ReadPrepared /\ ~(Head(toClient).n > 0)
  <2>1. kind = "prepared" /\ op.kind = "prepare" /\ op'.kind = "idle" /\ error' = "none" /\ results' = results
    BY <1>1, <1>11 DEF ReadPrepared, Accepted, Finish, Idle, Op
  <2>2. ResultsetsKnow'
    BY <1>2, <1>3, <1>4, <2>1, OwnersStay
  <2>3. toClient' = <<>>
    BY <1>3, <1>6, <1>11, <2>1
  <2>4. Prompt'
    BY <2>1, <2>3 DEF Prompt, Waiting, DefinitionsNext, RowsNext, Fetching
  <2> QED BY <1>3, <2>1, <2>2, <2>4 DEF Prompt
<1> QED BY <1>7, <1>8, <1>9, <1>10, <1>11

\* Its definitions follow.  One that does not deserialize abandons the response.
LEMMA OrderDefinition ==
  ASSUME TypeOK, InOrder, ~Abandoned(LastAnswer), ReadField \/ ReadMeta
  PROVE  InOrder'
<1> USE DEF InOrder
<1>1. PICK kind : Accepted(kind)
  BY DEF ReadField, ReadMeta
<1>2. op.kind \in {"fields", "meta"}
  BY DEF ReadField, ReadMeta
<1>3. /\ answers' = answers /\ toServer = <<>> /\ toServer' = <<>> /\ Len(answers) \in Nat \ {0}
      /\ Requested = Len(answers) /\ Requested' = Len(answers)
      /\ LastAnswer' = LastAnswer /\ Definitions(LastAnswer) \in Nat /\ Len(LastAnswer) \in Nat
      /\ Consumed \in Nat /\ Consumed' = Consumed + 1
      /\ (toClient' = <<>> <=> Consumed + 1 = Len(LastAnswer))
      /\ InFlight' /\ ServerQueue'
  BY <1>1, Taken
<1>4. /\ op.req = Len(answers) /\ op.left \in 1..Definitions(LastAnswer)
      /\ Consumed = Definitions(LastAnswer) + 1 - op.left
      /\ IF op.kind = "fields" THEN WholeRows(LastAnswer)
                               ELSE PrepareResponse(LastAnswer) /\ LastAnswer[1] = "prepared"
  BY <1>2, <1>3 DEF DefinitionsNext
<1>5. LastAnswer \in AnyResponse
  BY <1>3, ElementOfSeq DEF LastAnswer, TypeOK, AnyResponse
<1>6. /\ op.kind = "fields" => Len(LastAnswer) >= Definitions(LastAnswer) + 2
      /\ op.kind = "meta" => Len(LastAnswer) = Definitions(LastAnswer) + 1
  <2>1. CASE op.kind = "fields"
    BY <1>4, <1>5, <2>1, ResponseShapes
  <2>2. CASE op.kind = "meta"
    BY <1>3, <1>4, <1>5, <2>2, ResponseShapes
  <2> QED BY <1>2, <2>1, <2>2
<1>7. CASE op.left > 1
  <2>1. /\ op'.kind = op.kind /\ op'.req = op.req /\ op'.left = op.left - 1
        /\ error' = error /\ results' = results
    BY <1>2, <1>7 DEF ReadField, ReadMeta, TypeOK, Operation
  <2>2. ResultsetsKnow'
    BY <1>2, <1>3, <1>4, <2>1, OwnersStay
  <2>3. toClient' # <<>>
    BY <1>2, <1>3, <1>4, <1>6, <1>7
  <2>4. op'.left \in 1..Definitions(LastAnswer) /\ Consumed' = Definitions(LastAnswer) + 1 - op'.left
    <3>1. op.left \in Nat /\ op.left - 1 \in 1..Definitions(LastAnswer)
          /\ Consumed + 1 = Definitions(LastAnswer) + 1 - (op.left - 1)
      BY <1>3, <1>4, <1>7
    <3> QED BY <1>3, <2>1, <3>1
  <2>5. Prompt'
    BY <1>2, <1>3, <1>4, <2>1, <2>3, <2>4 DEF Prompt, Waiting, DefinitionsNext, RowsNext, Fetching
  <2> QED BY <1>3, <2>1, <2>2, <2>5 DEF Prompt
<1>8. CASE ReadField /\ ~(op.left > 1)
  <2>1. /\ op.kind = "fields" /\ op'.kind = "idle" /\ error' = "none"
        /\ results' = Append(results, Resultset(op.req, FALSE))
    <3>1. op.kind = "fields" /\ Finish("none") /\ results' = Append(results, Resultset(op.req, FALSE))
      BY <1>8 DEF ReadField
    <3> QED BY <3>1 DEF Finish, Idle, Op
  <2>2. Consumed' = Definitions(LastAnswer) + 1 /\ toClient' # <<>>
    <3>1. op.left = 1
      BY <1>3, <1>4, <1>8
    <3>2. Consumed = Definitions(LastAnswer) /\ Len(LastAnswer) >= Definitions(LastAnswer) + 2
      BY <1>3, <1>4, <1>6, <2>1, <3>1
    <3>3. Consumed + 1 # Len(LastAnswer)
      BY <1>3, <3>2
    <3> QED BY <1>3, <3>2, <3>3
  <2>3. ResultsetsKnow' /\ \E rs \in 1..Len(results') : results'[rs].req = Len(answers)
    BY <1>2, <1>3, <1>4, <2>1, <2>2, OwnerAdded
  <2>4. WholeRows(LastAnswer') /\ Consumed' > Definitions(LastAnswer') /\ answers' = answers
    BY <1>3, <1>4, <2>1, <2>2
  <2>5. op'.kind = "idle" /\ \E rs \in 1..Len(results') : results'[rs].req = Len(answers)
    BY <2>1, <2>3
  <2>6. Prompt'
    BY <2>4, <2>5 DEF Prompt, Waiting, DefinitionsNext, RowsNext, Fetching
  <2> QED BY <1>3, <2>1, <2>3, <2>6 DEF Prompt
<1>9. CASE ReadMeta /\ ~(op.left > 1)
  <2>1. op.kind = "meta" /\ op'.kind = "idle" /\ error' = "none" /\ results' = results
    BY <1>9 DEF ReadMeta, Finish, Idle, Op
  <2>2. toClient' = <<>>
    BY <1>3, <1>4, <1>6, <1>9, <2>1
  <2>3. ResultsetsKnow'
    BY <1>2, <1>3, <1>4, <2>1, OwnersStay
  <2>4. Prompt'
    BY <2>1, <2>2 DEF Prompt, Waiting, DefinitionsNext, RowsNext, Fetching
  <2> QED BY <1>3, <2>1, <2>3, <2>4 DEF Prompt
<1> QED BY <1>7, <1>8, <1>9

\* A fetch reads a row, or the end of the rows.
LEMMA OrderRow ==
  ASSUME TypeOK, InOrder, ReadRow \/ ReadBadRow \/ ReadEof \/ ReadRowError \/ ReadBadEof, ~Abandoned(LastAnswer)
  PROVE  InOrder'
<1> USE DEF InOrder
<1>1. PICK kind \in {"row", "bad_row", "huge_row", "eof", "bad_eof", "error"} : Accepted(kind)
  BY DEF ReadRow, ReadBadRow, ReadEof, ReadRowError, ReadBadEof
<1>2. op.kind = "fetch" /\ op'.kind \in {"idle", "fetch"} /\ toClient # <<>>
      /\ error' \notin {"mismatch", "undefined"}
  <2>1. op.kind = "fetch" /\ toClient # <<>>
    BY <1>1 DEF ReadRow, ReadBadRow, ReadEof, ReadRowError, ReadBadEof, Accepted
  <2>2. \/ \E e \in {"none", "decode", "server"} : Finish(e)
        \/ (\E left, got : op' = [op EXCEPT !.left = left, !.got = got]) /\ error' = error
    BY DEF ReadRow, ReadBadRow, ReadEof, ReadRowError, ReadBadEof, FailedEnd
  <2>3. ASSUME NEW e \in {"none", "decode", "server"}, Finish(e)
        PROVE  op'.kind = "idle" /\ error' = e
    BY <2>3 DEF Finish, Idle, Op
  <2>4. ASSUME NEW left, NEW got, op' = [op EXCEPT !.left = left, !.got = got]
        PROVE  op'.kind = "fetch"
    BY <2>1, <2>4 DEF TypeOK, Operation
  <2> QED BY <2>1, <2>2, <2>3, <2>4
<1>3. /\ answers' = answers /\ toServer = <<>> /\ toServer' = <<>> /\ Len(answers) \in Nat \ {0}
      /\ Requested = Len(answers) /\ Requested' = Len(answers)
      /\ LastAnswer' = LastAnswer /\ Definitions(LastAnswer) \in Nat /\ Len(LastAnswer) \in Nat
      /\ Consumed \in Nat /\ Consumed' = Consumed + 1 /\ Consumed < Len(LastAnswer)
      /\ (toClient' = <<>> <=> Consumed + 1 = Len(LastAnswer))
      /\ LastAnswer[Consumed + 1] = kind
      /\ InFlight' /\ ServerQueue'
  BY <1>1, Taken
<1>4. /\ op.req = Len(answers) /\ op.rs \in 1..Len(results) /\ results[op.rs].req = op.req /\ ~complete(op.rs)
      /\ WholeRows(LastAnswer) /\ Consumed > Definitions(LastAnswer)
  BY <1>2, <1>3 DEF Fetching, RowsNext
<1>5. LastAnswer \in AnyResponse
  BY <1>3, ElementOfSeq DEF LastAnswer, TypeOK, AnyResponse
<1>6. kind # "huge_row" /\ (toClient' = <<>> <=> kind \in {"eof", "bad_eof", "error"})
  <2>1. Consumed + 1 \in Nat /\ Consumed + 1 > Definitions(LastAnswer) + 1 /\ Consumed + 1 <= Len(LastAnswer)
    BY <1>3, <1>4
  <2>2. /\ Consumed + 1 < Len(LastAnswer) => kind \in {"row", "bad_row"}
        /\ Consumed + 1 = Len(LastAnswer) => kind \in {"eof", "bad_eof", "error"}
    <3>1. /\ Consumed + 1 < Len(LastAnswer) => LastAnswer[Consumed + 1] \in {"row", "bad_row"}
          /\ Consumed + 1 = Len(LastAnswer) => LastAnswer[Consumed + 1] \in {"eof", "bad_eof", "error"}
      <4>1. WholeRows(LastAnswer) /\ Consumed + 1 > 0
        BY <1>3, <1>4
      <4>2. PICK i : i = Consumed + 1
        OBVIOUS
      <4>3. /\ i > Definitions(LastAnswer) + 1 /\ i < Len(LastAnswer) => LastAnswer[i] \in {"row", "bad_row"}
            /\ i = Len(LastAnswer) => LastAnswer[i] \in {"eof", "bad_eof", "error"}
        BY <1>5, <2>1, <4>1, <4>2, RowsAfterDefinitions
      <4> QED BY <2>1, <4>2, <4>3
    <3> QED BY <1>3, <3>1
  <2> QED BY <1>3, <2>1, <2>2
<1>7. ~complete(op.rs) /\ ~results[op.rs].failed
  BY <1>2, <1>4 DEF ResultsetsKnow
<1>8. results[op.rs] \in Results
  BY <1>4, ElementOfSeq DEF TypeOK, Results
<1>9. ASSUME NEW value, value.req = results[op.rs].req, toClient' = <<>> <=> value.eof_received \/ value.failed,
             results' = [results EXCEPT ![op.rs] = value], op'.kind = "idle"
      PROVE  InOrder'
  <2>1. ResultsetsKnow' /\ \E rs \in 1..Len(results') : results'[rs].req = Len(answers)
    BY <1>2, <1>3, <1>9, OwnerChanged
  <2>2. Prompt'
    BY <1>3, <1>4, <1>9, <2>1 DEF Prompt, Waiting, DefinitionsNext, RowsNext, Fetching
  <2> QED BY <1>2, <1>3, <2>1, <2>2 DEF Prompt
<1>10. ASSUME NEW rows, toClient' # <<>>, HandOver(rows), op'.kind = "idle" PROVE InOrder'
  <2> DEFINE value == [results[op.rs] EXCEPT !.rows = @ \o rows]
  <2>1. value.req = results[op.rs].req /\ value.eof_received = FALSE /\ value.failed = FALSE
    BY <1>7, <1>8 DEF Results, complete
  <2>2. results' = [results EXCEPT ![op.rs] = value]
    BY <1>10 DEF HandOver
  <2> HIDE DEF value
  <2> QED BY <1>9, <1>10, <2>1, <2>2
<1>11. CASE ReadRow
  <2>1. kind = "row" /\ toClient' # <<>>
    BY <1>1, <1>6, <1>11 DEF ReadRow, Accepted
  <2>2. CASE op.left > 1
    <3>1. /\ op'.kind = "fetch" /\ op'.req = op.req /\ op'.rs = op.rs /\ results' = results
      BY <1>2, <1>11, <2>2 DEF ReadRow, TypeOK, Operation
    <3>2. ResultsetsKnow' /\ \E rs \in 1..Len(results') : results'[rs].req = Len(answers)
      BY <1>2, <1>3, <2>1, <3>1, OwnerWaits
    <3>3. Prompt'
      BY <1>3, <1>4, <2>1, <3>1, <3>2 DEF Prompt, Waiting, DefinitionsNext, RowsNext, Fetching, complete
    <3> QED BY <1>2, <1>3, <3>2, <3>3 DEF Prompt
  <2>3. CASE ~(op.left > 1)
    <3>1. Finish("none") /\ \E rows : HandOver(rows)
      BY <1>11, <2>3 DEF ReadRow
    <3>2. op'.kind = "idle"
      BY <3>1 DEF Finish, Idle, Op
    <3> QED BY <1>10, <2>1, <3>1, <3>2
  <2> QED BY <2>2, <2>3
<1>12. CASE ReadBadRow
  <2>1. kind \in {"bad_row", "huge_row"} /\ toClient' # <<>>
    BY <1>1, <1>6, <1>12 DEF ReadBadRow, Accepted
  <2>2. op'.kind = "idle" /\ HandOver(Returned("decode"))
    BY <1>12 DEF ReadBadRow, Finish, Idle, Op
  <2> QED BY <1>10, <2>1, <2>2
<1>13. CASE ReadEof
  <2> DEFINE value == [results[op.rs] EXCEPT !.rows = @ \o op.got, !.eof_received = TRUE]
  <2>1. kind \in {"eof", "huge_row"} /\ toClient' = <<>>
    BY <1>1, <1>6, <1>13 DEF ReadEof, Accepted
  <2>2. value.req = results[op.rs].req /\ value.eof_received = TRUE
    BY <1>8 DEF Results
  <2>3. results' = [results EXCEPT ![op.rs] = value] /\ op'.kind = "idle"
    BY <1>13 DEF ReadEof, Finish, Idle, Op
  <2> HIDE DEF value
  <2> QED BY <1>9, <2>1, <2>2, <2>3
<1>14. CASE ReadRowError \/ ReadBadEof
  <2>1. PICK e : FailedEnd(e)
    BY <1>14 DEF ReadRowError, ReadBadEof
  <2> DEFINE value == [results[op.rs] EXCEPT !.rows = @ \o Returned(e), !.failed = TRUE]
  <2>2. kind \in {"error", "bad_eof"} /\ toClient' = <<>>
    BY <1>1, <1>6, <1>14 DEF ReadRowError, ReadBadEof, Accepted
  <2>3. value.req = results[op.rs].req /\ value.failed = TRUE
    BY <1>8 DEF Results
  <2>4. results' = [results EXCEPT ![op.rs] = value] /\ op'.kind = "idle"
    BY <2>1 DEF FailedEnd, Finish, Idle, Op
  <2> HIDE DEF value
  <2> QED BY <1>9, <2>2, <2>3, <2>4
<1> QED BY <1>11, <1>12, <1>13, <1>14

\* What an operation reads is what it waits for.
LEMMA Expected ==
  ASSUME TypeOK, InOrder, op.kind # "idle", toClient # <<>>
  PROVE  Head(toClient).pos % SeqMod = sequence_number /\ Head(toClient).req = op.req
<1> USE DEF InOrder
<1>1. /\ toServer = <<>> /\ answers # <<>> /\ sequence_number = (Consumed + 1) % SeqMod
      /\ \A i \in 1..Len(toClient) :
           toClient[i] = [req |-> Len(answers), pos |-> Consumed + i, kind |-> LastAnswer[Consumed + i],
                          n |-> Definitions(LastAnswer)]
  BY DEF InFlight
<1>2. 1 \in 1..Len(toClient) /\ Head(toClient) = toClient[1]
  BY HeadTailProperties, LenProperties, EmptySeq DEF TypeOK
<1>3. toClient[1] = [req |-> Len(answers), pos |-> Consumed + 1, kind |-> LastAnswer[Consumed + 1],
                     n |-> Definitions(LastAnswer)]
  BY <1>1, <1>2
<1>4. Requested = Len(answers)
  BY <1>1, LenProperties DEF Requested, TypeOK
<1>5. op.req = Requested
  BY DEF TypeOK, Operation, Waiting, DefinitionsNext, Fetching
<1> QED BY <1>1, <1>2, <1>3, <1>4, <1>5

\* A definition is not one that abandons the response, if none is.
LEMMA NoBadField ==
  ASSUME TypeOK, InOrder, ~Abandoned(LastAnswer), ReadBadField
  PROVE  FALSE
<1>1. Accepted("bad_field") /\ InFlight
  BY DEF ReadBadField, InOrder
<1>2. /\ Consumed \in Nat /\ Consumed < Len(LastAnswer) /\ Len(LastAnswer) \in Nat
      /\ LastAnswer[Consumed + 1] = "bad_field"
  BY <1>1, Taken
<1>3. Consumed + 1 \in 1..(Len(LastAnswer) - 1)
  <2>1. op.left >= 1 /\ op.left \in Nat /\ Consumed = Definitions(LastAnswer) + 1 - op.left /\ WholeRows(LastAnswer)
    BY DEF ReadBadField, InOrder, DefinitionsNext, TypeOK, Operation
  <2>2. Definitions(LastAnswer) \in Nat /\ Definitions(LastAnswer) + 2 <= Len(LastAnswer)
    BY <1>1, <2>1, Taken DEF WholeRows, RowsResponse
  <2>3. \A consumed, left, n, d \in Nat :
           left >= 1 /\ consumed = d + 1 - left /\ d + 2 <= n => consumed + 1 \in 1..(n - 1)
    OBVIOUS
  <2> QED BY ONLY <1>2, <2>1, <2>2, <2>3
<1> QED BY <1>2, <1>3 DEF Abandoned

\* The response the server gives to a request.
LEMMA Served ==
  ASSUME Serve
  PROVE  \E kinds \in AnyResponse :
           /\ Respond(kinds)
           /\ Head(toServer).kind \in {"query", "execute"} =>
                kinds \in Responses \cup {<<"error">>}
           /\ Head(toServer).kind = "prepare" => kinds \in Preparations
           /\ Head(toServer).kind = "close" => kinds = <<>>
<1> DEFINE r == Head(toServer)
<1>1. /\ <<>> \in AnyResponse /\ <<"error">> \in AnyResponse
      /\ Responses \subseteq AnyResponse /\ Preparations \subseteq AnyResponse
  BY DEF AnyResponse
<1>2. \/ r.kind = "query" /\ \E kinds \in Responses : Respond(kinds)
      \/ /\ r.kind = "execute"
         /\ (\E kinds \in Responses : Respond(kinds)) \/ Respond(<<"error">>)
      \/ r.kind = "prepare" /\ \E kinds \in Preparations : Respond(kinds)
      \/ r.kind = "close" /\ Respond(<<>>)
  BY DEF Serve
<1> HIDE DEF r
<1>3. CASE r.kind = "query" /\ \E kinds \in Responses : Respond(kinds)
  BY <1>1, <1>3 DEF r
<1>4. CASE r.kind = "execute" /\ ((\E kinds \in Responses : Respond(kinds)) \/ Respond(<<"error">>))
  BY <1>1, <1>4 DEF r
<1>5. CASE r.kind = "prepare" /\ \E kinds \in Preparations : Respond(kinds)
  BY <1>1, <1>5 DEF r
<1>6. CASE r.kind = "close" /\ Respond(<<>>)
  BY <1>1, <1>6 DEF r
<1> QED BY <1>2, <1>3, <1>4, <1>5, <1>6

\* The server answers: what it says is expected, by the operation that asked.
LEMMA OrderServe ==
  ASSUME TypeOK, InOrder, Serve, NoneAbandoned'
  PROVE  InOrder'
<1> USE DEF InOrder
<1>1. toServer # <<>> /\ toClient = <<>>
  BY DEF Serve, InFlight
<1>2. PICK kinds \in AnyResponse :
        /\ Respond(kinds)
        /\ Head(toServer).kind \in {"query", "execute"} =>
             kinds \in Responses \cup {<<"error">>}
        /\ Head(toServer).kind = "prepare" => kinds \in Preparations
        /\ Head(toServer).kind = "close" => kinds = <<>>
  BY Served
<1>3. /\ Len(answers) \in Nat /\ Len(answers') = Len(answers) + 1 /\ LastAnswer' = kinds
      /\ answers' # <<>>
  <2>1. answers \in Seq(AnyResponse) /\ answers' = Append(answers, kinds)
    BY <1>2 DEF Respond, TypeOK, AnyResponse
  <2>2. Len(answers) \in Nat /\ Len(answers') = Len(answers) + 1 /\ answers'[Len(answers) + 1] = kinds
    BY <2>1, LenProperties, AppendProperties
  <2>3. answers' # <<>>
    BY <2>2
  <2> QED BY <2>2, <2>3 DEF LastAnswer
<1>4. /\ Len(toServer) \in Nat \ {0} /\ Len(toServer') = Len(toServer) - 1 /\ Head(toServer) = toServer[1]
      /\ \A i \in 1..Len(toServer') : toServer'[i] = toServer[i + 1]
      /\ toServer' = <<>> <=> Len(toServer) = 1
  <2>1. toServer \in Seq(Requests) /\ toServer' = Tail(toServer)
    BY <1>2 DEF Respond, TypeOK, Requests
  <2>2. Len(toServer) \in Nat \ {0}
    BY <1>1, <2>1, LenProperties, EmptySeq
  <2>3. toServer' \in Seq(Requests) /\ Len(toServer') = Len(toServer) - 1
    BY <1>1, <2>1, HeadTailProperties
  <2>4. /\ Head(toServer) = toServer[1]
        /\ \A i \in 1..Len(toServer') : toServer'[i] = toServer[i + 1]
    BY <1>1, <2>1, <2>2, <2>3, HeadTailProperties
  <2>5. toServer' = <<>> <=> Len(toServer') = 0
    BY <2>3, EmptySeq
  <2>6. toServer' = <<>> <=> Len(toServer) = 1
    BY <2>2, <2>3, <2>5
  <2> QED BY <2>2, <2>3, <2>4, <2>6
<1>5. Requested' = Requested /\ UNCHANGED clientVars
  BY <1>2, <1>3, <1>4 DEF Requested, Respond
<1>6. /\ Len(kinds) \in Nat /\ Definitions(kinds) \in Nat /\ Len(toClient') = Len(kinds)
      /\ \A i \in 1..Len(kinds) :
           toClient'[i] = [req |-> Len(answers'), pos |-> i, kind |-> kinds[i], n |-> Definitions(kinds)]
      /\ toClient' = <<>> <=> Len(kinds) = 0
  <2>1. Len(answers) + 1 \in Nat
    BY <1>3
  <2>2. /\ Messages(Len(answers) + 1, kinds) \in Seq(ServerMessages)
        /\ Len(Messages(Len(answers) + 1, kinds)) = Len(kinds)
        /\ \A i \in 1..Len(kinds) : Messages(Len(answers) + 1, kinds)[i]
             = [req |-> Len(answers) + 1, pos |-> i, kind |-> kinds[i], n |-> Definitions(kinds)]
    BY <2>1, MessagesType
  <2>3. toClient' = Messages(Len(answers) + 1, kinds)
    BY <1>1, <1>2, <2>2 DEF Respond
  <2>4. Len(kinds) \in Nat /\ Definitions(kinds) \in Nat
    BY ResponseType
  <2> QED BY <1>3, <2>2, <2>3, <2>4, EmptySeq
<1>7. ~Abandoned(kinds)
  BY <1>3 DEF NoneAbandoned, LastAnswer
<1>8. CASE Head(toServer).kind = "close"
  <2>1. toClient' = <<>>
    BY <1>2, <1>6, <1>8
  <2>2. InFlight'
    BY <2>1 DEF InFlight
  <2>3. ServerQueue'
    BY <1>4, <1>5 DEF ServerQueue, clientVars
  <2>4. Len(toServer) = 1 => op.kind \notin {"head", "prepare"}
    BY <1>1, <1>4, <1>8 DEF Waiting
  <2>5. Prompt'
    BY <1>1, <1>4, <1>5, <2>1, <2>4 DEF Prompt, clientVars, Waiting, DefinitionsNext, RowsNext, Fetching
  <2>6. ResultsetsKnow'
    BY <1>3, <1>5 DEF ResultsetsKnow, clientVars, complete
  <2> QED BY <1>5, <2>2, <2>3, <2>5, <2>6 DEF Prompt, clientVars
<1>9. CASE Head(toServer).kind # "close"
  <2>1. /\ Len(toServer) = 1
        /\ \/ op.kind = "head" /\ Head(toServer).kind \in {"query", "execute"}
           \/ op.kind = "prepare" /\ Head(toServer).kind = "prepare"
    BY <1>4, <1>9 DEF ServerQueue
  <2>2. toServer' = <<>>
    BY <1>4, <2>1
  <2>3. IF op.kind = "head" THEN WholeQuery(kinds) ELSE PrepareResponse(kinds)
    <3>1. <<"error">> \in {<<"ok">>, <<"error">>}
      OBVIOUS
    <3> QED BY <1>2, <1>7, <2>1, <3>1, GrammarAssumption DEF WholeQuery, QueryResponse
  <2>4. Len(kinds) # 0
    BY <1>6, <1>7, <2>3, ResponseShapes
  <2>5. Consumed' = 0 /\ sequence_number' = 1 % SeqMod
    <3>1. Consumed' = Len(LastAnswer') - Len(toClient')
      BY DEF Consumed
    <3> QED BY <1>1, <1>3, <1>5, <1>6, <2>1, <3>1 DEF Waiting, clientVars
  <2>6. InFlight'
    <3>1. \A i \in 1..Len(toClient') :
            toClient'[i] = [req |-> Len(answers'), pos |-> Consumed' + i, kind |-> LastAnswer'[Consumed' + i],
                            n |-> Definitions(LastAnswer')]
      BY <1>3, <1>6, <2>5
    <3>2. Len(toClient') <= Len(LastAnswer')
      BY <1>3, <1>6
    <3> QED BY <1>3, <2>2, <2>5, <3>1, <3>2 DEF InFlight
  <2>7. ServerQueue'
    BY <2>2 DEF ServerQueue
  <2>8. Prompt'
    BY <1>1, <1>3, <1>5, <1>6, <2>1, <2>2, <2>3, <2>4, <2>5
    DEF Prompt, clientVars, Waiting, DefinitionsNext, RowsNext, Fetching
  <2>9. ResultsetsKnow'
    BY <1>3, <1>5, <2>1 DEF ResultsetsKnow, clientVars, complete
  <2> QED BY <1>5, <2>6, <2>7, <2>8, <2>9 DEF Prompt, clientVars
<1> QED BY <1>8, <1>9

\* Order is inductive.
LEMMA OrderStep ==
  ASSUME TypeOK, Order, [Next]_vars
  PROVE  Order'
<1>1. Running /\ Running'
  BY RunningStep DEF Order
<1> SUFFICES ASSUME NoneAbandoned', error' # "io" PROVE InOrder'
  BY <1>1 DEF Order
<1>2. NoneAbandoned /\ error # "io" /\ InOrder
  BY <1>1, StillFine DEF Order
<1>3. ~Abandoned(LastAnswer) \/ answers = <<>>
  BY <1>2, LenProperties, EmptySeq DEF NoneAbandoned, LastAnswer, TypeOK
<1>4. \A s \in 1..Len(statements) : statements[s].id \in Nat
  <2>1. \A s \in 1..Len(statements) : statements[s] \in [id : Nat]
    BY ElementOfSeq DEF TypeOK
  <2> QED BY <2>1
<1>5. CASE UserStep
  <2>1. CASE Query
    BY <1>2, <2>1, OrderRequest DEF Query, Op
  <2>2. CASE Prepare
    BY <1>2, <2>2, OrderRequest DEF Prepare, Op
  <2>3. ASSUME NEW s \in 1..Len(statements), Execute(s) PROVE InOrder'
    BY <1>2, <1>4, <2>3, OrderRequest DEF Execute, Op
  <2>4. ASSUME NEW s \in 1..Len(statements), CloseStatement(s) PROVE InOrder'
    BY <1>2, <1>4, <2>4, OrderRequest DEF CloseStatement
  <2>5. ASSUME UNCHANGED <<sequence_number, op, results, toServer, toClient, answers>>, error' \in {"none", "wrong_num_params"}
        PROVE  InOrder'
    BY <1>2, <2>5 DEF InOrder, InFlight, ServerQueue, Waiting, DefinitionsNext, RowsNext, Fetching, ResultsetsKnow,
                      Consumed, LastAnswer, Requested, complete
  <2>6. ASSUME NEW s \in 1..Len(statements), ExecuteWrongParams(s) PROVE InOrder'
    BY <2>5, <2>6 DEF ExecuteWrongParams
  <2>7. ASSUME NEW rs \in 1..Len(results), NEW count \in Counts, NEW api \in Apis, Fetch(rs, count, api)
        PROVE  InOrder'
    BY <1>2, <2>7, OrderFetch
  <2>8. ASSUME NEW rs \in 1..Len(results), NEW count \in Counts, FetchNothing(rs, count) PROVE InOrder'
    BY <2>5, <2>8 DEF FetchNothing
  <2>9. ASSUME NEW s \in 1..Len(statements), CloseFails(s) PROVE InOrder'
    BY <2>9 DEF CloseFails
  <2> QED BY <1>5, <2>1, <2>2, <2>3, <2>4, <2>6, <2>7, <2>8, <2>9 DEF UserStep
<1>6. CASE Reading
  <2>1. toClient # <<>> /\ op.kind # "idle"
    BY <1>6 DEF Reading, ReadOk, ReadError, ReadBadHead, ReadFieldCount, ReadField, ReadBadField, ReadRow, ReadEof, ReadBadRow,
           ReadRowError, ReadBadEof, FailedEnd, ReadPrepared, ReadMeta, ReadForeign, ReadMismatch, Accepted
  <2>2. ~Abandoned(LastAnswer)
    BY <1>2, <1>3, <2>1 DEF InOrder, InFlight
  <2>3. ~ReadForeign /\ ~ReadMismatch
    BY <1>2, <2>1, Expected DEF ReadForeign, ReadMismatch
  <2>4. ~ReadBadField
    BY <1>2, <2>2, NoBadField
  <2> QED BY <1>2, <1>6, <2>2, <2>3, <2>4, OrderHead, OrderDefinition, OrderRow DEF Reading
<1>7. CASE Serve
  BY <1>2, <1>7, OrderServe
<1>8. CASE TransferError
  BY <1>8 DEF TransferError, Finish
<1>9. CASE UNCHANGED vars
  BY <1>2, <1>9 DEF vars, clientVars, InOrder, InFlight, ServerQueue, Waiting, DefinitionsNext, RowsNext, Fetching,
                    ResultsetsKnow, Consumed, LastAnswer, Requested, complete
<1> QED BY <1>5, <1>6, <1>7, <1>8, <1>9 DEF Next

\* Order in every behaviour.
LEMMA AlwaysInOrder == Spec => []Order
<1>1. Init => Order
  BY DEF Init, Idle, Op, Order, Running, InOrder, InFlight, ServerQueue, Waiting, DefinitionsNext, RowsNext, Fetching,
         ResultsetsKnow
<1>2. TypeOK /\ Order /\ [Next]_vars => Order'
  BY OrderStep
<1> QED BY <1>1, <1>2, TypeCorrect, PTL DEF Spec

\* When the user may make a request, whatever operations have failed before, no
\* message of an earlier response is left, unless a response was abandoned.
THEOREM NothingIsLeft == Spec => []InStep
<1>1. TypeOK /\ Order => InStep
  <2> SUFFICES ASSUME Order, Ready, toClient # <<>>, NoneAbandoned PROVE FALSE
    BY DEF InStep, NoneAbandoned
  <2>1. op.kind = "idle" /\ error # "io"
    BY DEF Ready, Usable
  <2>2. RowsNext /\ ResultsetsKnow
    BY <2>1 DEF Order, InOrder
  <2> QED BY <2>1, <2>2 DEF RowsNext, ResultsetsKnow, Ready
<1> QED BY <1>1, AlwaysInOrder, TypeCorrect, PTL

\* channel::read refuses a frame for its number only after a response was
\* abandoned.
THEOREM MismatchMeansAbandoned == Spec => []MismatchOnlyAfterAbandon
<1>1. Order => MismatchOnlyAfterAbandon
  BY DEF Order, InOrder, NoneAbandoned, MismatchOnlyAfterAbandon
<1> QED BY <1>1, AlwaysInOrder, PTL

-----------------------------------------------------------------------------
(* What an abandoned response leaves *)

\* What is on its way to the client: responses in order, at most the first
\* message of each at their head.
Sorted ==
  /\ \A i \in 1..Len(toClient) : toClient[i].req \in 1..Len(answers)
  /\ \A i, j \in 1..Len(toClient) : i < j =>
       /\ toClient[i].req <= toClient[j].req
       /\ toClient[i].req = toClient[j].req => toClient[j].pos > 1

\* A request expects the first message of its response, with number 1, and has
\* whatever else is there to be something later in another.
FirstIsNext ==
  op.kind \in {"head", "prepare"} =>
    /\ op.req = Requested /\ sequence_number = 1 % SeqMod
    /\ \A i \in 1..Len(toClient) : toClient[i].pos > 1 \/ toClient[i].req = op.req
OnlyRests ==
  op.kind \notin {"head", "prepare"} => \A i \in 1..Len(toClient) : toClient[i].pos > 1

\* Once it has had it, nothing of another response is there.
OwnRest ==
  op.kind \in {"fields", "meta", "fetch"} =>
    /\ toServer = <<>> /\ op.req = Requested
    /\ \A i \in 1..Len(toClient) : toClient[i].req = op.req
ResultsRest ==
  \A rs \in 1..Len(results) :
    /\ results[rs].req <= Len(answers)
    /\ results[rs].req = Requested => \A i \in 1..Len(toClient) : toClient[i].req = Requested

\* The invariant behind MisreadOnlyAfterWrap, until the connection is of no use.
Lively == error \notin {"io", "mismatch", "undefined"}
Rests == ServerQueue /\ Sorted /\ FirstIsNext /\ OnlyRests /\ OwnRest /\ ResultsRest

\* An expected message that is not the first of a response, but has its number.
LEMMA SameNumberLater ==
  ASSUME NEW pos \in Nat, pos > 1, pos % SeqMod = 1 % SeqMod
  PROVE  pos > SeqMod
<1> SUFFICES ASSUME pos <= SeqMod PROVE FALSE
  BY SeqModAssumption
<1>1. SeqMod \in Nat \ {0} /\ SeqMod > 1
  BY SeqModAssumption
<1>2. (SeqMod * 0 + 1) % SeqMod = 1
  BY <1>1, Remainder
<1>3. CASE pos < SeqMod
  <2>1. (SeqMod * 0 + pos) % SeqMod = pos
    BY <1>1, <1>3, Remainder
  <2> QED BY <1>1, <1>2, <2>1
<1>4. CASE pos = SeqMod
  <2>1. (SeqMod * 1 + 0) % SeqMod = 0
    BY <1>1, Remainder
  <2> QED BY <1>1, <1>2, <1>4, <2>1
<1> QED BY <1>1, <1>3, <1>4

\* Reading a message of the own response leaves only such messages.
LEMMA OwnTaken ==
  ASSUME TypeOK, Rests, op.kind # "idle", NEW kind, Accepted(kind)
  PROVE  /\ answers' = answers /\ toServer' = toServer /\ Len(answers) \in Nat /\ toServer = <<>>
         /\ op.req = Requested /\ Requested = Len(answers) /\ Requested' = Requested
         /\ ServerQueue' /\ Sorted'
         /\ \A i \in 1..Len(toClient') : toClient'[i].req = op.req /\ toClient'[i].pos > 1
<1> USE DEF Rests
<1>1. /\ toClient # <<>> /\ Head(toClient).req = op.req /\ toClient' = Tail(toClient)
      /\ answers' = answers /\ toServer' = toServer
  BY DEF Accepted
<1>2. toClient \in Seq(ServerMessages) /\ Len(answers) \in Nat /\ Len(toServer) \in Nat
  BY LenProperties DEF TypeOK, ServerMessages
<1>3. /\ Len(toClient) \in Nat \ {0} /\ Len(toClient') = Len(toClient) - 1 /\ Head(toClient) = toClient[1]
      /\ \A i \in 1..Len(toClient') : toClient'[i] = toClient[i + 1]
  BY <1>1, <1>2, HeadTailProperties, LenProperties, EmptySeq
<1>4. op.req = Requested /\ Requested' = Requested
  BY <1>1 DEF TypeOK, Operation, FirstIsNext, OwnRest, Requested
<1>5. toServer = <<>> /\ Requested = Len(answers)
  <2>1. toClient[1].req \in 1..Len(answers)
    BY <1>3 DEF Sorted
  <2>2. Len(toServer) = 0
    BY <1>1, <1>2, <1>3, <1>4, <2>1 DEF Requested
  <2> QED BY <1>2, <2>2, EmptySeq DEF TypeOK, Requested
<1>6. ASSUME NEW i \in 1..Len(toClient') PROVE toClient'[i].req = op.req /\ toClient'[i].pos > 1
  <2>1. i + 1 \in 1..Len(toClient) /\ 1 \in 1..Len(toClient) /\ 1 < i + 1 /\ toClient'[i] = toClient[i + 1]
    BY <1>3
  <2>2. toClient[1].req <= toClient[i + 1].req /\ toClient[i + 1].req \in 1..Len(answers)
    BY <2>1 DEF Sorted
  <2>3. toClient[i + 1].req = toClient[1].req
    BY <1>1, <1>2, <1>3, <1>4, <1>5, <2>2
  <2> QED BY <1>1, <1>3, <2>1, <2>3 DEF Sorted
<1>7. Sorted'
  <2>1. \A i \in 1..Len(toClient') : toClient'[i].req \in 1..Len(answers)
    <3>1. toClient[1].req \in 1..Len(answers)
      BY <1>3 DEF Sorted
    <3> QED BY <1>1, <1>3, <1>6, <3>1
  <2>2. op.req \in Nat
    BY <1>2, <1>4, <1>5
  <2> QED BY <1>1, <1>6, <2>1, <2>2 DEF Sorted
<1>8. ServerQueue'
  BY <1>1, <1>5 DEF ServerQueue
<1> QED BY <1>1, <1>2, <1>4, <1>5, <1>6, <1>7, <1>8

\* A request goes behind what is left.
LEMMA RestsRequest ==
  ASSUME TypeOK, Rests, Ready, NEW kind \in {"query", "execute", "prepare", "close"}, NEW stmt \in Nat,
         WriteRequest(kind, stmt), UNCHANGED <<results, toClient, answers>>,
         \/ op' = op /\ kind = "close"
         \/ /\ op'.req = Requested + 1
            /\ \/ op'.kind = "head" /\ kind \in {"query", "execute"}
               \/ op'.kind = "prepare" /\ kind = "prepare"
  PROVE  Rests'
<1> USE DEF Rests
<1>1. op.kind = "idle" /\ Len(answers) \in Nat /\ Len(toServer) \in Nat /\ Requested \in Nat
  BY LenProperties DEF Ready, Usable, Requested, TypeOK
<1>2. /\ Len(toServer') = Len(toServer) + 1 /\ toServer'[Len(toServer) + 1].kind = kind
      /\ \A i \in 1..Len(toServer) : toServer'[i] = toServer[i]
  <2>1. [kind |-> kind, stmt |-> stmt] \in Requests /\ toServer \in Seq(Requests)
    BY DEF Requests, TypeOK
  <2>2. toServer' = Append(toServer, [kind |-> kind, stmt |-> stmt])
    BY DEF WriteRequest
  <2>3. Len(toServer') = Len(toServer) + 1 /\ toServer'[Len(toServer) + 1] = [kind |-> kind, stmt |-> stmt]
        /\ \A i \in 1..Len(toServer) : toServer'[i] = toServer[i]
    BY <2>1, <2>2, AppendProperties
  <2> QED BY <1>1, <2>3
<1>3. Requested' = Requested + 1
  BY <1>1, <1>2 DEF Requested
<1>4. ServerQueue'
  BY <1>1, <1>2 DEF ServerQueue
<1>5. Sorted'
  BY DEF Sorted
<1>6. \A i \in 1..Len(toClient) : toClient[i].pos > 1
  BY <1>1 DEF OnlyRests
<1>7. FirstIsNext' /\ OnlyRests' /\ OwnRest'
  BY <1>1, <1>3, <1>6, SeqModAssumption DEF FirstIsNext, OnlyRests, OwnRest, WriteRequest, NextSeq
<1>8. ResultsRest'
  <2>1. \A rs \in 1..Len(results) : results[rs].req <= Len(answers) /\ results[rs].req # Requested + 1
    <3> TAKE rs \in 1..Len(results)
    <3>1. results[rs] \in Results
      BY ElementOfSeq DEF TypeOK, Results
    <3>2. results[rs].req \in Nat /\ results[rs].req <= Len(answers)
      BY <3>1 DEF Results, ResultsRest
    <3> QED BY <1>1, <3>2 DEF Requested
  <2> QED BY <1>3, <2>1 DEF ResultsRest
<1> QED BY <1>4, <1>5, <1>7, <1>8

\* The user fetches from the resultset of the last request.
LEMMA RestsFetch ==
  ASSUME TypeOK, Rests, NEW rs \in 1..Len(results), NEW count, NEW api, Fetch(rs, count, api)
  PROVE  Rests'
<1> USE DEF Rests
<1>1. /\ op.kind = "idle" /\ results[rs].req = Requested
      /\ op'.kind = "fetch" /\ op'.req = Requested
      /\ UNCHANGED <<sequence_number, results, toServer, toClient, answers>>
  BY DEF Fetch, Usable, Op
<1>2. toServer = <<>>
  <2>1. results[rs].req <= Len(answers) /\ Len(answers) \in Nat /\ Len(toServer) \in Nat
    BY LenProperties DEF ResultsRest, TypeOK
  <2>2. Len(toServer) = 0
    BY <1>1, <2>1 DEF Requested
  <2> QED BY <2>2, EmptySeq DEF TypeOK
<1>3. ServerQueue' /\ Sorted' /\ FirstIsNext' /\ OnlyRests'
  BY <1>1, <1>2 DEF ServerQueue, Sorted, FirstIsNext, OnlyRests
<1>4. OwnRest' /\ ResultsRest'
  BY <1>1, <1>2 DEF OwnRest, ResultsRest, Requested
<1> QED BY <1>3, <1>4

\* Resultsets of requests that were there, or of the one in progress.
Owners ==
  \A rs \in 1..Len(results') :
    \/ results'[rs].req = op.req
    \/ rs \in 1..Len(results) /\ results'[rs].req = results[rs].req

LEMMA OwnersAppend ==
  ASSUME TypeOK, NEW ended, results' = Append(results, Resultset(op.req, ended))
  PROVE  Owners
<1>1. /\ Len(results) \in Nat /\ Len(results') = Len(results) + 1
      /\ results'[Len(results) + 1] = Resultset(op.req, ended)
      /\ \A rs \in 1..Len(results) : results'[rs] = results[rs]
  BY LenProperties, AppendProperties DEF TypeOK
<1>2. \A rs \in 1..Len(results') : rs \in 1..Len(results) \/ rs = Len(results) + 1
  BY <1>1
<1> QED BY <1>1, <1>2 DEF Owners, Resultset

LEMMA OwnersUpdate ==
  ASSUME TypeOK, NEW k, NEW value, k \in 1..Len(results) => value.req = results[k].req,
         results' = [results EXCEPT ![k] = value]
  PROVE  Owners
<1>1. results \in Seq(Results)
  BY DEF TypeOK, Results
<1>2. /\ Len(results') = Len(results)
      /\ \A rs \in 1..Len(results) : results'[rs] = IF rs = k THEN value ELSE results[rs]
  BY <1>1
<1> QED BY <1>2 DEF Owners

\* Reading a message of the own response.
LEMMA RestsTaken ==
  ASSUME TypeOK, Rests, op.kind # "idle", NEW kind, Accepted(kind), Owners,
         op'.kind = "idle" \/ (op'.kind \in {"fields", "meta", "fetch"} /\ op'.req = op.req)
  PROVE  Rests'
<1>1. /\ answers' = answers /\ toServer' = toServer /\ Len(answers) \in Nat /\ toServer = <<>>
      /\ op.req = Requested /\ Requested = Len(answers) /\ Requested' = Requested
      /\ ServerQueue' /\ Sorted'
      /\ \A i \in 1..Len(toClient') : toClient'[i].req = op.req /\ toClient'[i].pos > 1
  BY OwnTaken
<1>2. FirstIsNext' /\ OnlyRests'
  BY <1>1 DEF FirstIsNext, OnlyRests
<1>3. OwnRest'
  BY <1>1 DEF OwnRest
<1>4. ResultsRest'
  BY <1>1 DEF ResultsRest, Rests, Owners
<1> QED BY <1>1, <1>2, <1>3, <1>4 DEF Rests

\* An answer goes behind what is left.
LEMMA RestsServe ==
  ASSUME TypeOK, Rests, Serve
  PROVE  Rests'
<1> USE DEF Rests
<1>1. PICK kinds \in AnyResponse : Respond(kinds) /\ (Head(toServer).kind = "close" => kinds = <<>>)
  BY Served
<1>2. /\ UNCHANGED clientVars /\ toServer # <<>>
      /\ Len(answers) \in Nat /\ Len(answers') = Len(answers) + 1
  <2>1. answers \in Seq(AnyResponse) /\ answers' = Append(answers, kinds)
    BY <1>1 DEF Respond, TypeOK, AnyResponse
  <2>2. Len(answers) \in Nat /\ Len(answers') = Len(answers) + 1
    BY <2>1, LenProperties, AppendProperties
  <2> QED BY <1>1, <2>2 DEF Serve, Respond
<1>3. /\ Len(toServer) \in Nat \ {0} /\ Len(toServer') = Len(toServer) - 1 /\ Head(toServer) = toServer[1]
      /\ \A i \in 1..Len(toServer') : toServer'[i] = toServer[i + 1]
  <2>1. toServer \in Seq(Requests) /\ toServer' = Tail(toServer)
    BY <1>1 DEF Respond, TypeOK, Requests
  <2>2. Len(toServer) \in Nat \ {0}
    BY <1>2, <2>1, LenProperties, EmptySeq
  <2> QED BY <1>2, <2>1, <2>2, HeadTailProperties
<1>4. Requested' = Requested /\ Requested >= Len(answers) + 1
  BY <1>2, <1>3 DEF Requested
<1>5. /\ Len(toClient) \in Nat /\ Len(kinds) \in Nat /\ Len(toClient') = Len(toClient) + Len(kinds)
      /\ \A i \in 1..Len(toClient) : toClient'[i] = toClient[i]
      /\ \A i \in 1..Len(toClient') : i > Len(toClient) =>
           toClient'[i].req = Len(answers) + 1 /\ toClient'[i].pos = i - Len(toClient)
  <2>1. toClient \in Seq(ServerMessages) /\ Len(toClient) \in Nat /\ Len(kinds) \in Nat
    BY LenProperties, ResponseType DEF TypeOK, ServerMessages
  <2> DEFINE new == Messages(Len(answers) + 1, kinds)
  <2>2. /\ new \in Seq(ServerMessages) /\ Len(new) = Len(kinds)
        /\ \A i \in 1..Len(kinds) : new[i].req = Len(answers) + 1 /\ new[i].pos = i
    <3>1. Len(answers) + 1 \in Nat
      BY <1>2
    <3>2. /\ new \in Seq(ServerMessages) /\ Len(new) = Len(kinds)
          /\ \A i \in 1..Len(kinds) :
               new[i] = [req |-> Len(answers) + 1, pos |-> i, kind |-> kinds[i], n |-> Definitions(kinds)]
      BY <3>1, MessagesType
    <3> HIDE DEF new
    <3>3. ASSUME NEW i \in 1..Len(kinds) PROVE new[i].req = Len(answers) + 1 /\ new[i].pos = i
      <4>1. new[i] = [req |-> Len(answers) + 1, pos |-> i, kind |-> kinds[i], n |-> Definitions(kinds)]
        BY <3>2
      <4> QED BY <4>1
    <3> QED BY <3>2, <3>3
  <2>3. toClient' = toClient \o new
    BY <1>1 DEF Respond
  <2> HIDE DEF new
  <2>4. /\ Len(toClient') = Len(toClient) + Len(kinds)
        /\ \A i \in 1..Len(toClient') :
             toClient'[i] = IF i <= Len(toClient) THEN toClient[i] ELSE new[i - Len(toClient)]
    <3>1. Len(toClient \o new) = Len(toClient) + Len(new)
      BY <2>1, <2>2, ConcatProperties
    <3>2. \A i \in 1..(Len(toClient) + Len(new)) :
            (toClient \o new)[i] = IF i <= Len(toClient) THEN toClient[i] ELSE new[i - Len(toClient)]
      BY <2>1, <2>2, ConcatProperties
    <3> QED BY <2>2, <2>3, <3>1, <3>2
  <2>5. ASSUME NEW i \in 1..Len(toClient'), i > Len(toClient)
        PROVE  i - Len(toClient) \in 1..Len(kinds)
    BY <2>1, <2>4, <2>5
  <2>6. \A i \in 1..Len(toClient) : toClient'[i] = toClient[i]
    BY <2>1, <2>4
  <2>7. ASSUME NEW i \in 1..Len(toClient'), i > Len(toClient)
        PROVE  toClient'[i].req = Len(answers) + 1 /\ toClient'[i].pos = i - Len(toClient)
    <3>1. toClient'[i] = new[i - Len(toClient)]
      BY <2>1, <2>4, <2>7
    <3> QED BY <2>2, <2>5, <2>7, <3>1
  <2> QED BY <2>1, <2>4, <2>6, <2>7
<1>6. \A i \in 1..Len(toClient') : i \in 1..Len(toClient) \/ i > Len(toClient)
  BY <1>5
<1>7. ServerQueue'
  BY <1>2, <1>3 DEF ServerQueue, clientVars
<1>8. Sorted'
  <2>1. \A i \in 1..Len(toClient) : toClient[i].req \in 1..Len(answers)
    BY DEF Sorted
  <2>2. \A i \in 1..Len(toClient') : toClient'[i].req \in 1..Len(answers')
    BY <1>2, <1>5, <1>6, <2>1
  <2>3. ASSUME NEW i \in 1..Len(toClient'), NEW j \in 1..Len(toClient'), i < j
        PROVE  /\ toClient'[i].req <= toClient'[j].req
               /\ toClient'[i].req = toClient'[j].req => toClient'[j].pos > 1
    <3>1. CASE j \in 1..Len(toClient)
      <4>1. i \in 1..Len(toClient)
        BY <1>5, <2>3, <3>1
      <4> QED BY <1>5, <2>3, <3>1, <4>1 DEF Sorted
    <3>2. CASE j > Len(toClient) /\ i \in 1..Len(toClient)
      BY <1>2, <1>5, <2>1, <3>2
    <3>3. CASE j > Len(toClient) /\ i > Len(toClient)
      BY <1>2, <1>5, <2>3, <3>3
    <3> QED BY <1>6, <3>1, <3>2, <3>3
  <2> QED BY <2>2, <2>3 DEF Sorted
<1>9. CASE Head(toServer).kind = "close"
  <2>1. Len(toClient') = Len(toClient)
    BY <1>1, <1>5, <1>9
  <2>2. \A i \in 1..Len(toClient') : toClient'[i] = toClient[i]
    BY <1>5, <2>1
  <2>3. UNCHANGED <<op, sequence_number, results>>
    BY <1>2 DEF clientVars
  <2>4. FirstIsNext' /\ OnlyRests'
    BY <1>4, <2>1, <2>2, <2>3 DEF FirstIsNext, OnlyRests
  <2>5. OwnRest'
    BY <1>2, <2>3 DEF OwnRest
  <2>6. ResultsRest'
    <3> SUFFICES ASSUME NEW rs \in 1..Len(results)
                 PROVE  /\ results[rs].req <= Len(answers')
                        /\ results[rs].req = Requested' =>
                             \A i \in 1..Len(toClient') : toClient'[i].req = Requested'
      BY <2>3 DEF ResultsRest
    <3>1. results[rs] \in Results
      BY ElementOfSeq DEF TypeOK, Results
    <3>2. results[rs].req \in Nat /\ results[rs].req <= Len(answers)
      BY <3>1 DEF Results, ResultsRest
    <3> QED BY <1>2, <1>4, <2>1, <2>2, <3>2 DEF ResultsRest
  <2> QED BY <1>7, <1>8, <2>4, <2>5, <2>6
<1>10. CASE Head(toServer).kind # "close"
  <2>1. Len(toServer) = 1 /\ op.kind \in {"head", "prepare"}
    BY <1>3, <1>10 DEF ServerQueue
  <2>2. op.req = Len(answers) + 1 /\ Requested = Len(answers) + 1
    BY <1>2, <2>1 DEF FirstIsNext, Requested
  <2>3. FirstIsNext'
    BY <1>2, <1>4, <1>5, <1>6, <2>1, <2>2 DEF FirstIsNext, clientVars
  <2>4. OnlyRests' /\ OwnRest'
    BY <1>2, <2>1 DEF OnlyRests, OwnRest, clientVars
  <2>5. ResultsRest'
    <3>1. \A rs \in 1..Len(results) : results[rs].req \in Nat
      <4>1. \A rs \in 1..Len(results) : results[rs] \in Results
        BY ElementOfSeq DEF TypeOK, Results
      <4> QED BY <4>1 DEF Results
    <3> QED BY <1>2, <1>4, <2>2, <3>1 DEF ResultsRest, clientVars
  <2> QED BY <1>7, <1>8, <2>3, <2>4, <2>5
<1> QED BY <1>9, <1>10

\* A read that takes a message of its own response.
LEMMA RestsRead ==
  ASSUME TypeOK, Rests, Reading, ~ReadForeign, ~ReadMismatch
  PROVE  Rests'
<1>1. op.kind # "idle" /\ \E kind : Accepted(kind)
  BY DEF Reading, ReadOk, ReadError, ReadBadHead, ReadFieldCount, ReadField, ReadBadField, ReadRow, ReadEof, ReadBadRow,
         ReadRowError, ReadBadEof, FailedEnd, ReadPrepared, ReadMeta
<1>2. op'.kind = "idle" \/ (op'.kind \in {"fields", "meta", "fetch"} /\ op'.req = op.req)
  <2>1. \A e : Finish(e) => op'.kind = "idle"
    BY DEF Finish, Idle, Op
  <2>2. op \in Operation
    BY DEF TypeOK
  <2>3. CASE ReadOk \/ ReadError \/ ReadBadHead \/ ReadBadField \/ ReadEof \/ ReadBadRow \/ ReadRowError \/ ReadBadEof
    BY <2>1, <2>3 DEF ReadOk, ReadError, ReadBadHead, ReadBadField, ReadEof, ReadBadRow, ReadRowError, ReadBadEof, FailedEnd
  <2>4. CASE ReadField \/ ReadMeta
    BY <2>1, <2>2, <2>4 DEF ReadField, ReadMeta, Operation
  <2>5. CASE ReadFieldCount
    BY <2>2, <2>5 DEF ReadFieldCount, Operation
  <2>6. CASE ReadPrepared
    BY <2>1, <2>2, <2>6 DEF ReadPrepared, Operation
  <2>7. CASE ReadRow
    BY <2>1, <2>2, <2>7 DEF ReadRow, Operation
  <2> QED BY <2>3, <2>4, <2>5, <2>6, <2>7 DEF Reading
<1>3. Owners
  <2>1. ASSUME UNCHANGED results PROVE Owners
    BY <2>1 DEF Owners
  <2>2. ASSUME NEW rows, HandOver(rows) PROVE Owners
    <3> DEFINE value == [results[op.rs] EXCEPT !.rows = @ \o rows]
    <3>1. op.rs \in 1..Len(results) => value.req = results[op.rs].req
      BY ElementOfSeq DEF TypeOK
    <3>2. results' = [results EXCEPT ![op.rs] = value]
      BY <2>2 DEF HandOver
    <3> HIDE DEF value
    <3> QED BY <3>1, <3>2, OwnersUpdate
  <2>3. CASE ReadEof
    <3> DEFINE value == [results[op.rs] EXCEPT !.rows = @ \o op.got, !.eof_received = TRUE]
    <3>1. op.rs \in 1..Len(results) => value.req = results[op.rs].req
      BY ElementOfSeq DEF TypeOK
    <3>2. results' = [results EXCEPT ![op.rs] = value]
      BY <2>3 DEF ReadEof
    <3> HIDE DEF value
    <3> QED BY <3>1, <3>2, OwnersUpdate
  <2>4. ASSUME NEW e, FailedEnd(e) PROVE Owners
    <3> DEFINE value == [results[op.rs] EXCEPT !.rows = @ \o Returned(e), !.failed = TRUE]
    <3>1. op.rs \in 1..Len(results) => value.req = results[op.rs].req
      BY ElementOfSeq DEF TypeOK
    <3>2. results' = [results EXCEPT ![op.rs] = value]
      BY <2>4 DEF FailedEnd
    <3> HIDE DEF value
    <3> QED BY <3>1, <3>2, OwnersUpdate
  <2>5. CASE ReadOk \/ ReadField
    BY <2>1, <2>5, OwnersAppend DEF ReadOk, ReadField
  <2>6. CASE ReadError \/ ReadBadHead \/ ReadFieldCount \/ ReadBadField \/ ReadPrepared \/ ReadMeta
    BY <2>1, <2>6 DEF ReadError, ReadBadHead, ReadFieldCount, ReadBadField, ReadPrepared, ReadMeta
  <2>7. CASE ReadRow \/ ReadBadRow
    BY <2>1, <2>2, <2>7 DEF ReadRow, ReadBadRow
  <2>8. CASE ReadRowError \/ ReadBadEof
    BY <2>4, <2>8 DEF ReadRowError, ReadBadEof
  <2> QED BY <2>3, <2>5, <2>6, <2>7, <2>8 DEF Reading
<1> QED BY <1>1, <1>2, <1>3, RestsTaken

\* Once the connection is of no use, it stays so.
LEMMA StillLively ==
  ASSUME Running, [Next]_vars, Lively'
  PROVE  Lively
<1> SUFFICES ASSUME ~Lively PROVE FALSE
  OBVIOUS
<1>1. op.kind = "idle" /\ ~Usable /\ ~Ready
  BY DEF Running, Usable, Ready, Lively
<1>2. ~UserStep /\ ~Reading /\ ~TransferError
  <2>1. ~Reading /\ ~TransferError
    BY <1>1 DEF Reading, ReadOk, ReadError, ReadBadHead, ReadFieldCount, ReadField, ReadBadField, ReadRow, ReadEof, ReadBadRow,
           ReadRowError, ReadBadEof, FailedEnd, ReadPrepared, ReadMeta, ReadForeign, ReadMismatch, TransferError
  <2>2. ASSUME UserStep PROVE Usable \/ Ready
    BY <2>2 DEF UserStep, Query, Prepare, Execute, ExecuteWrongParams, CloseStatement, CloseFails, Fetch, FetchNothing
  <2> QED BY <1>1, <2>1, <2>2
<1>3. UNCHANGED clientVars
  BY <1>2 DEF Next, Serve, Respond, vars
<1> QED BY <1>3 DEF clientVars, Lively

\* Every step but the one that takes another response's message.
LEMMA RestsStep ==
  ASSUME TypeOK, Running, Lively => Rests, [Next]_vars, Lively'
  PROVE  Rests'
<1>1. Lively /\ Rests
  BY StillLively
<1>2. \A s \in 1..Len(statements) : statements[s].id \in Nat
  <2>1. \A s \in 1..Len(statements) : statements[s] \in [id : Nat]
    BY ElementOfSeq DEF TypeOK
  <2> QED BY <2>1
<1>3. CASE UserStep
  <2>1. CASE Query
    BY <1>1, <2>1, RestsRequest DEF Query, Op
  <2>2. CASE Prepare
    BY <1>1, <2>2, RestsRequest DEF Prepare, Op
  <2>3. ASSUME NEW s \in 1..Len(statements), Execute(s) PROVE Rests'
    BY <1>1, <1>2, <2>3, RestsRequest DEF Execute, Op
  <2>4. ASSUME NEW s \in 1..Len(statements), CloseStatement(s) PROVE Rests'
    BY <1>1, <1>2, <2>4, RestsRequest DEF CloseStatement
  <2>5. ASSUME UNCHANGED <<sequence_number, op, results, toServer, toClient, answers>> PROVE Rests'
    BY <1>1, <2>5 DEF Rests, ServerQueue, Sorted, FirstIsNext, OnlyRests, OwnRest, ResultsRest, Requested
  <2>6. ASSUME NEW s \in 1..Len(statements), ExecuteWrongParams(s) PROVE Rests'
    BY <2>5, <2>6 DEF ExecuteWrongParams
  <2>7. ASSUME NEW rs \in 1..Len(results), NEW count \in Counts, NEW api \in Apis, Fetch(rs, count, api)
        PROVE  Rests'
    BY <1>1, <2>7, RestsFetch
  <2>8. ASSUME NEW rs \in 1..Len(results), NEW count \in Counts, FetchNothing(rs, count) PROVE Rests'
    BY <2>5, <2>8 DEF FetchNothing
  <2>9. \A s \in 1..Len(statements) : ~CloseFails(s)
    BY DEF CloseFails, Lively
  <2> QED BY <1>3, <2>1, <2>2, <2>3, <2>4, <2>6, <2>7, <2>8, <2>9 DEF UserStep
<1>4. CASE Reading
  <2>1. ~ReadForeign /\ ~ReadMismatch
    BY DEF ReadForeign, ReadMismatch, Finish, Lively
  <2> QED BY <1>1, <1>4, <2>1, RestsRead
<1>5. CASE Serve
  BY <1>1, <1>5, RestsServe
<1>6. ~TransferError
  BY DEF TransferError, Finish, Lively
<1>7. CASE UNCHANGED vars
  BY <1>1, <1>7 DEF vars, clientVars, Rests, ServerQueue, Sorted, FirstIsNext, OnlyRests, OwnRest, ResultsRest, Requested
<1> QED BY <1>3, <1>4, <1>5, <1>6, <1>7 DEF Next

\* A message of another response is taken for the answer to a request only if
\* it is so far into its response that the number has wrapped around.
LEMMA ForeignIsFar ==
  ASSUME TypeOK, Running, Lively => Rests, ReadForeign
  PROVE  Head(toClient).pos > SeqMod
<1>1. /\ op.kind # "idle" /\ toClient # <<>> /\ Head(toClient).pos % SeqMod = sequence_number
      /\ Head(toClient).req # op.req
  BY DEF ReadForeign
<1>2. Rests
  BY <1>1 DEF Running, Lively
<1>3. toClient \in Seq(ServerMessages) /\ Len(toClient) \in Nat \ {0} /\ Head(toClient) = toClient[1]
  BY <1>1, LenProperties, EmptySeq, HeadTailProperties DEF TypeOK, ServerMessages
<1>4. op.kind \notin {"fields", "meta", "fetch"}
  BY <1>1, <1>2, <1>3 DEF Rests, OwnRest
<1>5. op.kind \in {"head", "prepare"}
  BY <1>1, <1>4 DEF TypeOK, Operation
<1>6. toClient[1].pos > 1 /\ toClient[1].pos \in Nat /\ sequence_number = 1 % SeqMod
  <2>1. toClient[1] \in ServerMessages
    BY <1>3, ElementOfSeq
  <2> QED BY <1>1, <1>2, <1>3, <1>5, <2>1 DEF Rests, FirstIsNext, ServerMessages
<1> QED BY <1>1, <1>3, <1>6, SameNumberLater

\* The sequence number keeps what an abandoned response has left from being
\* taken for the answer to another request, unless it has wrapped around.
THEOREM MisreadMeansWrap == Spec => []MisreadOnlyAfterWrap
<1> DEFINE Inv == Running /\ MisreadOnlyAfterWrap /\ (Lively => Rests)
<1>1. Init => Inv
  BY DEF Init, Idle, Op, Running, MisreadOnlyAfterWrap, Lively, Rests, ServerQueue, Sorted, FirstIsNext, OnlyRests,
         OwnRest, ResultsRest
<1>2. TypeOK /\ Inv /\ [Next]_vars => Inv'
  <2> SUFFICES ASSUME TypeOK, Inv, [Next]_vars PROVE Inv'
    OBVIOUS
  <2>1. Running' /\ (Lively' => Rests')
    BY RunningStep, RestsStep
  <2>2. ASSUME ReadForeign PROVE MisreadOnlyAfterWrap'
    BY <2>2, ForeignIsFar DEF ReadForeign, MisreadOnlyAfterWrap
  <2>3. ASSUME ~ReadForeign PROVE MisreadOnlyAfterWrap'
    <3>1. foreign' = foreign
      BY <2>3 DEF Next, UserStep, Reading, Query, Prepare, Execute, ExecuteWrongParams, CloseStatement, CloseFails, Fetch, FetchNothing,
           ReadOk, ReadError, ReadBadHead, ReadFieldCount, ReadField, ReadBadField, ReadRow, ReadEof, ReadBadRow, ReadRowError, ReadBadEof, FailedEnd,
           ReadPrepared, ReadMeta, ReadMismatch, Accepted, TransferError, Serve, Respond, vars, clientVars
    <3> QED BY <3>1 DEF MisreadOnlyAfterWrap
  <2> QED BY <2>1, <2>2, <2>3
<1> QED BY <1>1, <1>2, TypeCorrect, PTL DEF Spec

-----------------------------------------------------------------------------
(***************************************************************************)
(* What the user gets from a resultset, and what an operation waits for,   *)
(* however the fetches are cut up, whatever rows and definitions do not    *)
(* deserialize, and also after a response was given up half-read.          *)
(***************************************************************************)

-----------------------------------------------------------------------------
(* The invariant *)

\* Whatever is on its way to the client, what is there of the last response is
\* the end of it.
LastRest ==
  \A i \in 1..Len(toClient) :
    /\ toClient[i].req \in 1..Len(answers)
    /\ toClient[i].req = Len(answers) =>
         /\ Consumed + i \in 1..Len(LastAnswer)
         /\ toClient[i] = [req |-> Len(answers), pos |-> Consumed + i, kind |-> LastAnswer[Consumed + i],
                           n |-> Definitions(LastAnswer)]

\* The first message of a response, of the form its request asks for, is still
\* to be sent or has not been read; what an abandoned response left may be in
\* front of it.
HeadExpected ==
  op.kind \in {"head", "prepare"} =>
    IF toServer = <<>>
      THEN /\ answers # <<>> /\ Consumed <= 0
           /\ IF op.kind = "head" THEN QueryResponse(LastAnswer) ELSE PrepareResponse(LastAnswer)
      ELSE toServer[Len(toServer)].kind # "close"

\* The definitions it announced, as many as are left.
DefinitionsExpected ==
  op.kind \in {"fields", "meta"} =>
    /\ answers # <<>>
    /\ op.left \in 1..Definitions(LastAnswer) /\ Consumed = Definitions(LastAnswer) + 1 - op.left
    /\ IF op.kind = "fields" THEN RowsResponse(LastAnswer)
                             ELSE PrepareResponse(LastAnswer) /\ LastAnswer[1] = "prepared"

\* A response of which every row can be deserialized.
Readable(kinds) == ~Contains(kinds, "bad_row") /\ ~Contains(kinds, "huge_row")

\* Rows of a response, in order and none twice; one of them.
Ordered(rows, kinds) ==
  /\ \A i \in 1..Len(rows) : rows[i] \in 1..Len(kinds) /\ kinds[rows[i]] = "row"
  /\ \A i, j \in 1..Len(rows) : i < j => rows[i] < rows[j]
Occurs(pos, rows) == \E i \in 1..Len(rows) : rows[i] = pos

\* All of its rows, once a resultset is complete.
AllRows(rows, kinds) == \A pos \in 1..Len(kinds) : kinds[pos] = "row" => Occurs(pos, rows)

\* What the user has been handed from a resultset, of whatever request.
Handed ==
  \A rs \in 1..Len(results) :
    LET kinds == answers[results[rs].req] IN
    /\ results[rs].req \in 1..Len(answers)
    /\ Ordered(results[rs].rows, kinds)
    /\ complete(rs) /\ Readable(kinds) => AllRows(results[rs].rows, kinds)

\* The resultset of the last request, if there is one, and the call that reads
\* it have what was read of its response; and it has come to its end with an
\* error exactly if nothing is left of it.
Current ==
  \A rs \in 1..Len(results) : results[rs].req = Requested =>
    /\ op.kind \in {"idle", "fetch"}
    /\ \A other \in 1..Len(results) : results[other].req = Requested => other = rs
    /\ \A i \in 1..Len(results[rs].rows) : results[rs].rows[i] <= Consumed
    /\ ~complete(rs) =>
         /\ RowsResponse(LastAnswer) /\ Consumed > Definitions(LastAnswer)
         /\ (toClient = <<>> <=> results[rs].failed)
         /\ results[rs].failed => LastAnswer[Len(LastAnswer)] \in {"error", "bad_eof"}
         /\ Readable(LastAnswer) /\ ~results[rs].failed =>
              \A pos \in 1..Consumed : LastAnswer[pos] = "row" =>
                Occurs(pos, results[rs].rows) \/ (op.kind = "fetch" /\ Occurs(pos, op.got))

\* A call has rows of its own resultset that come after those handed over.
Fetched ==
  op.kind = "fetch" =>
    /\ op.rs \in 1..Len(results) /\ results[op.rs].req = op.req /\ ~complete(op.rs) /\ op.left > 0
    /\ Ordered(op.got, LastAnswer)
    /\ \A j \in 1..Len(op.got) :
         /\ op.got[j] <= Consumed
         /\ \A i \in 1..Len(results[op.rs].rows) : results[op.rs].rows[i] < op.got[j]

\* The invariant: while the connection is of use, what is expected will come.
Progress == HeadExpected /\ DefinitionsExpected /\ Current /\ Fetched
Delivery == Running /\ LastRest /\ Handed /\ (Lively => Rests /\ Progress)

-----------------------------------------------------------------------------
(* Responses and rows *)

\* The parts of a response.
LEMMA Parts ==
  ASSUME NEW kinds \in AnyResponse
  PROVE  /\ Len(kinds) \in Nat /\ Definitions(kinds) \in Nat
         /\ RowsResponse(kinds) =>
              /\ Definitions(kinds) > 0 /\ Len(kinds) >= Definitions(kinds) + 2
              /\ \A i \in 1..Len(kinds) :
                   /\ i <= Definitions(kinds) + 1 => kinds[i] \in {"count", "bad_head", "field", "bad_field"}
                   /\ i > Definitions(kinds) + 1 /\ i < Len(kinds) => kinds[i] \in {"row", "bad_row", "huge_row"}
                   /\ i = Len(kinds) => kinds[i] \in {"eof", "bad_eof", "error"}
         /\ QueryResponse(kinds) => RowsResponse(kinds) \/ (Len(kinds) = 1 /\ kinds[1] \in {"ok", "error", "bad_head"})
         /\ PrepareResponse(kinds) => \/ Len(kinds) = 1 /\ kinds[1] = "error"
                                      \/ kinds[1] \in {"prepared", "bad_head"} /\ Len(kinds) = Definitions(kinds) + 1
<1>1. Len(kinds) \in Nat /\ Definitions(kinds) \in Nat
  BY ResponseType
<1>2. RowsResponse(kinds) =>
        /\ Definitions(kinds) > 0 /\ Len(kinds) >= Definitions(kinds) + 2
        /\ \A i \in 1..Len(kinds) :
             /\ i <= Definitions(kinds) + 1 => kinds[i] \in {"count", "bad_head", "field", "bad_field"}
             /\ i > Definitions(kinds) + 1 /\ i < Len(kinds) => kinds[i] \in {"row", "bad_row", "huge_row"}
             /\ i = Len(kinds) => kinds[i] \in {"eof", "bad_eof", "error"}
  BY <1>1 DEF RowsResponse
<1>3. QueryResponse(kinds) => RowsResponse(kinds) \/ (Len(kinds) = 1 /\ kinds[1] \in {"ok", "error", "bad_head"})
  BY DEF QueryResponse
<1>4. PrepareResponse(kinds) => \/ Len(kinds) = 1 /\ kinds[1] = "error"
                                \/ kinds[1] \in {"prepared", "bad_head"} /\ Len(kinds) = Definitions(kinds) + 1
  BY DEF PrepareResponse
<1> QED BY <1>1, <1>2, <1>3, <1>4

\* Rows that come after others are added to them.
LEMMA OrderedConcat ==
  ASSUME NEW rows \in Seq(Nat), NEW more \in Seq(Nat), NEW kinds, Ordered(rows, kinds), Ordered(more, kinds),
         \A i \in 1..Len(rows), j \in 1..Len(more) : rows[i] < more[j]
  PROVE  /\ Ordered(rows \o more, kinds)
         /\ \A pos : Occurs(pos, rows) \/ Occurs(pos, more) => Occurs(pos, rows \o more)
         /\ \A i \in 1..Len(rows \o more) : \/ i \in 1..Len(rows) /\ (rows \o more)[i] = rows[i]
                                            \/ \E j \in 1..Len(more) : (rows \o more)[i] = more[j]
<1>1. Len(rows) \in Nat /\ Len(more) \in Nat
  BY LenProperties
<1>2. /\ Len(rows \o more) = Len(rows) + Len(more)
      /\ \A i \in 1..(Len(rows) + Len(more)) :
           (rows \o more)[i] = IF i <= Len(rows) THEN rows[i] ELSE more[i - Len(rows)]
  BY ConcatProperties
<1> DEFINE all == rows \o more
<1>3. /\ Len(all) = Len(rows) + Len(more)
      /\ \A i \in 1..Len(rows) : all[i] = rows[i]
      /\ \A j \in 1..Len(more) : all[Len(rows) + j] = more[j]
  BY <1>1, <1>2
<1>4. \A i \in 1..Len(all) : i \in 1..Len(rows) \/ (i - Len(rows) \in 1..Len(more) /\ i = Len(rows) + (i - Len(rows)))
  BY <1>1, <1>3
<1> HIDE DEF all
<1>5. ASSUME NEW i \in 1..Len(all) PROVE all[i] \in 1..Len(kinds) /\ kinds[all[i]] = "row"
  <2>1. CASE i \in 1..Len(rows)
    BY <1>3, <2>1 DEF Ordered
  <2>2. ASSUME NEW j \in 1..Len(more), i = Len(rows) + j PROVE all[i] \in 1..Len(kinds) /\ kinds[all[i]] = "row"
    BY <1>3, <2>2 DEF Ordered
  <2> QED BY <1>4, <2>1, <2>2
<1>6. ASSUME NEW i \in 1..Len(all), NEW j \in 1..Len(all), i < j PROVE all[i] < all[j]
  <2>1. CASE i \in 1..Len(rows) /\ j \in 1..Len(rows)
    BY <1>3, <1>6, <2>1 DEF Ordered
  <2>2. CASE i \in 1..Len(rows) /\ j - Len(rows) \in 1..Len(more) /\ j = Len(rows) + (j - Len(rows))
    BY <1>3, <2>2
  <2>3. CASE /\ i - Len(rows) \in 1..Len(more) /\ i = Len(rows) + (i - Len(rows))
             /\ j - Len(rows) \in 1..Len(more) /\ j = Len(rows) + (j - Len(rows))
    <3>1. i - Len(rows) < j - Len(rows)
      BY <1>1, <1>6
    <3>2. more[i - Len(rows)] < more[j - Len(rows)]
      BY <2>3, <3>1 DEF Ordered
    <3> QED BY <1>3, <2>3, <3>2
  <2>4. CASE i - Len(rows) \in 1..Len(more) /\ j \in 1..Len(rows)
    BY <1>1, <1>6, <2>4
  <2> QED BY <1>4, <2>1, <2>2, <2>3, <2>4
<1>7. ASSUME NEW pos, Occurs(pos, rows) \/ Occurs(pos, more) PROVE Occurs(pos, all)
  <2>1. \A i \in 1..Len(rows) : i \in 1..Len(all)
    BY <1>1, <1>3
  <2>2. \A j \in 1..Len(more) : Len(rows) + j \in 1..Len(all)
    BY <1>1, <1>3
  <2> QED BY <1>3, <1>7, <2>1, <2>2 DEF Occurs
<1>8. Ordered(all, kinds)
  BY <1>5, <1>6 DEF Ordered
<1>9. \A i \in 1..Len(all) : \/ i \in 1..Len(rows) /\ all[i] = rows[i]
                             \/ \E j \in 1..Len(more) : all[i] = more[j]
  BY <1>3, <1>4
<1> QED BY <1>7, <1>8, <1>9 DEF all

\* A row that is read comes after those the call has.
LEMMA OrderedAppend ==
  ASSUME NEW got \in Seq(Nat), NEW pos \in Nat, NEW kinds, Ordered(got, kinds), pos \in 1..Len(kinds), kinds[pos] = "row",
         \A j \in 1..Len(got) : got[j] < pos
  PROVE  /\ Ordered(Append(got, pos), kinds) /\ Append(got, pos) \in Seq(Nat)
         /\ Occurs(pos, Append(got, pos))
         /\ \A other : Occurs(other, got) => Occurs(other, Append(got, pos))
         /\ \A j \in 1..Len(Append(got, pos)) : \/ j \in 1..Len(got) /\ Append(got, pos)[j] = got[j]
                                                \/ Append(got, pos)[j] = pos
<1> DEFINE all == Append(got, pos)
<1>1. /\ Len(got) \in Nat /\ all \in Seq(Nat) /\ Len(all) = Len(got) + 1 /\ all[Len(got) + 1] = pos
      /\ \A i \in 1..Len(got) : all[i] = got[i]
  BY LenProperties, AppendProperties
<1> HIDE DEF all
<1>2. \A j \in 1..Len(all) : j \in 1..Len(got) \/ j = Len(got) + 1
  BY <1>1
<1>3. Ordered(all, kinds)
  <2>1. \A i \in 1..Len(all) : all[i] \in 1..Len(kinds) /\ kinds[all[i]] = "row"
    BY <1>1, <1>2 DEF Ordered
  <2>2. ASSUME NEW i \in 1..Len(all), NEW j \in 1..Len(all), i < j PROVE all[i] < all[j]
    <3>1. i \in 1..Len(got)
      BY <1>1, <1>2, <2>2
    <3> QED BY <1>1, <1>2, <2>2, <3>1 DEF Ordered
  <2> QED BY <2>1, <2>2 DEF Ordered
<1>4. Len(got) + 1 \in 1..Len(all) /\ \A i \in 1..Len(got) : i \in 1..Len(all)
  BY <1>1
<1> QED BY <1>1, <1>2, <1>3, <1>4 DEF Occurs, all

-----------------------------------------------------------------------------
(* What is left of the last response *)

\* A message is read.
LEMMA LastRestTaken ==
  ASSUME TypeOK, LastRest, NEW kind, Accepted(kind)
  PROVE  LastRest'
<1>1. toClient # <<>> /\ toClient' = Tail(toClient) /\ answers' = answers /\ toClient \in Seq(ServerMessages)
  BY DEF Accepted, TypeOK, ServerMessages
<1>2. /\ Len(toClient) \in Nat \ {0} /\ Len(toClient') = Len(toClient) - 1
      /\ \A i \in 1..Len(toClient') : toClient'[i] = toClient[i + 1]
  BY <1>1, HeadTailProperties, LenProperties, EmptySeq
<1>3. LastAnswer' = LastAnswer /\ Consumed' = Len(LastAnswer) - Len(toClient')
  BY <1>1 DEF LastAnswer, Consumed
<1>4. ASSUME NEW i \in 1..Len(toClient')
      PROVE  /\ toClient'[i].req \in 1..Len(answers)
             /\ toClient'[i].req = Len(answers) =>
                  /\ Consumed' + i \in 1..Len(LastAnswer)
                  /\ toClient'[i] = [req |-> Len(answers), pos |-> Consumed' + i, kind |-> LastAnswer[Consumed' + i],
                                     n |-> Definitions(LastAnswer)]
  <2>1. i + 1 \in 1..Len(toClient) /\ toClient'[i] = toClient[i + 1]
    BY <1>2
  <2>2. answers \in Seq(AnyResponse) /\ Len(answers) \in Nat
    BY LenProperties DEF TypeOK, AnyResponse
  <2>3. toClient[i + 1].req \in 1..Len(answers)
    BY <2>1 DEF LastRest
  <2>4. LastAnswer \in AnyResponse
    BY <2>2, <2>3, ElementOfSeq DEF LastAnswer
  <2>5. Consumed' + i = Consumed + (i + 1)
    <3>1. Len(LastAnswer) \in Nat
      BY <2>4, ResponseType
    <3> QED BY <1>2, <1>3, <3>1 DEF Consumed
  <2> QED BY <2>1, <2>3, <2>5 DEF LastRest
<1> QED BY <1>1, <1>3, <1>4 DEF LastRest

\* The server answers.
LEMMA LastRestServe ==
  ASSUME TypeOK, LastRest, Serve
  PROVE  LastRest'
<1>1. PICK kinds \in AnyResponse : Respond(kinds)
  BY Served
<1>2. /\ answers \in Seq(AnyResponse) /\ Len(answers) \in Nat /\ Len(answers') = Len(answers) + 1
      /\ LastAnswer' = kinds
  <2>1. answers \in Seq(AnyResponse) /\ answers' = Append(answers, kinds)
    BY <1>1 DEF Respond, TypeOK, AnyResponse
  <2>2. Len(answers) \in Nat /\ Len(answers') = Len(answers) + 1 /\ answers'[Len(answers) + 1] = kinds
    BY <2>1, LenProperties, AppendProperties
  <2> QED BY <2>1, <2>2 DEF LastAnswer
<1> DEFINE new == Messages(Len(answers) + 1, kinds)
<1>3. /\ new \in Seq(ServerMessages) /\ Len(new) = Len(kinds) /\ Len(kinds) \in Nat
      /\ \A i \in 1..Len(kinds) :
           new[i] = [req |-> Len(answers) + 1, pos |-> i, kind |-> kinds[i], n |-> Definitions(kinds)]
  BY <1>2, MessagesType, ResponseType
<1>4. toClient' = toClient \o new /\ toClient \in Seq(ServerMessages) /\ Len(toClient) \in Nat
  BY <1>1, LenProperties DEF Respond, TypeOK, ServerMessages
<1> HIDE DEF new
<1>5. /\ Len(toClient') = Len(toClient) + Len(kinds)
      /\ \A i \in 1..(Len(toClient) + Len(kinds)) :
           toClient'[i] = IF i <= Len(toClient) THEN toClient[i] ELSE new[i - Len(toClient)]
  <2>1. Len(toClient \o new) = Len(toClient) + Len(new)
    BY <1>3, <1>4, ConcatProperties
  <2>2. \A i \in 1..(Len(toClient) + Len(new)) :
          (toClient \o new)[i] = IF i <= Len(toClient) THEN toClient[i] ELSE new[i - Len(toClient)]
    BY <1>3, <1>4, ConcatProperties
  <2> QED BY <1>3, <1>4, <2>1, <2>2
<1>6. Consumed' = Len(kinds) - Len(toClient') /\ Consumed' = 0 - Len(toClient)
  BY <1>2, <1>3, <1>4, <1>5 DEF Consumed
<1>7. ASSUME NEW i \in 1..Len(toClient')
      PROVE  /\ toClient'[i].req \in 1..(Len(answers) + 1)
             /\ toClient'[i].req = Len(answers) + 1 =>
                  /\ Consumed' + i \in 1..Len(kinds)
                  /\ toClient'[i] = [req |-> Len(answers) + 1, pos |-> Consumed' + i, kind |-> kinds[Consumed' + i],
                                     n |-> Definitions(kinds)]
  <2>1. CASE i <= Len(toClient)
    <3>1. i \in 1..Len(toClient) /\ toClient'[i] = toClient[i]
      BY <1>4, <1>5, <2>1
    <3>2. toClient[i].req \in 1..Len(answers)
      BY <3>1 DEF LastRest
    <3> QED BY <1>2, <3>1, <3>2
  <2>2. CASE ~(i <= Len(toClient))
    <3>1. i - Len(toClient) \in 1..Len(kinds) /\ Consumed' + i = i - Len(toClient)
      BY <1>3, <1>4, <1>5, <1>6, <2>2
    <3>2. toClient'[i] = new[i - Len(toClient)]
      BY <1>4, <1>5, <2>2
    <3> QED BY <1>2, <1>3, <3>1, <3>2
  <2> QED BY <2>1, <2>2
<1> QED BY <1>2, <1>7 DEF LastRest

\* Every step keeps it.
LEMMA LastRestStep ==
  ASSUME TypeOK, LastRest, [Next]_vars
  PROVE  LastRest'
<1>1. CASE \E kind : Accepted(kind)
  BY <1>1, LastRestTaken
<1>2. CASE Serve
  BY <1>2, LastRestServe
<1>3. CASE UNCHANGED <<toClient, answers>>
  BY <1>3 DEF LastRest, Consumed, LastAnswer
<1> QED
  BY <1>1, <1>2, <1>3
  DEF Next, UserStep, Reading, Query, Prepare, Execute, ExecuteWrongParams, CloseStatement, CloseFails, Fetch, FetchNothing,
      ReadOk, ReadError, ReadBadHead, ReadFieldCount, ReadField, ReadBadField, ReadRow, ReadEof, ReadBadRow, ReadRowError, ReadBadEof, FailedEnd,
      ReadPrepared, ReadMeta, ReadForeign, ReadMismatch, TransferError, vars, clientVars

\* An operation that reads a message of its own response reads the next one of
\* the last.
LEMMA OwnNext ==
  ASSUME TypeOK, LastRest, Rests, op.kind # "idle", NEW kind, Accepted(kind)
  PROVE  /\ answers' = answers /\ toServer = <<>> /\ toServer' = <<>> /\ Len(answers) \in Nat \ {0}
         /\ Requested = Len(answers) /\ Requested' = Len(answers) /\ op.req = Len(answers)
         /\ LastAnswer \in AnyResponse /\ LastAnswer' = LastAnswer
         /\ Definitions(LastAnswer) \in Nat /\ Len(LastAnswer) \in Nat
         /\ Consumed \in Nat /\ Consumed' = Consumed + 1 /\ Consumed + 1 \in 1..Len(LastAnswer)
         /\ (toClient' = <<>> <=> Consumed + 1 = Len(LastAnswer))
         /\ LastAnswer[Consumed + 1] = kind /\ Head(toClient).n = Definitions(LastAnswer)
         /\ Head(toClient).pos = Consumed + 1 /\ Head(toClient).req = Len(answers)
<1>1. /\ toClient # <<>> /\ Head(toClient).req = op.req /\ Head(toClient).kind = kind /\ toClient' = Tail(toClient)
      /\ answers' = answers /\ toServer' = toServer
  BY DEF Accepted
<1>2. /\ Len(answers) \in Nat /\ toServer = <<>> /\ op.req = Requested /\ Requested = Len(answers)
      /\ Requested' = Requested
  BY OwnTaken
<1>3. /\ toClient \in Seq(ServerMessages) /\ Len(toClient) \in Nat \ {0} /\ Len(toClient') = Len(toClient) - 1
      /\ Head(toClient) = toClient[1] /\ toClient' \in Seq(ServerMessages)
  <2>1. toClient \in Seq(ServerMessages)
    BY DEF TypeOK, ServerMessages
  <2> QED BY <1>1, <2>1, HeadTailProperties, LenProperties, EmptySeq
<1>4. /\ toClient[1].req \in 1..Len(answers)
      /\ Consumed + 1 \in 1..Len(LastAnswer)
      /\ toClient[1] = [req |-> Len(answers), pos |-> Consumed + 1, kind |-> LastAnswer[Consumed + 1],
                        n |-> Definitions(LastAnswer)]
  <2>1. 1 \in 1..Len(toClient) /\ toClient[1].req = Len(answers)
    BY <1>1, <1>2, <1>3
  <2> QED BY <2>1 DEF LastRest
<1>5. Len(answers) \in Nat \ {0} /\ LastAnswer \in AnyResponse /\ LastAnswer' = LastAnswer
  <2>1. Len(answers) \in Nat \ {0}
    BY <1>2, <1>4
  <2>2. answers \in Seq(AnyResponse)
    BY DEF TypeOK, AnyResponse
  <2> QED BY <1>1, <2>1, <2>2, ElementOfSeq DEF LastAnswer
<1>6. Definitions(LastAnswer) \in Nat /\ Len(LastAnswer) \in Nat
  BY <1>5, ResponseType
<1>7. Consumed \in Nat /\ Consumed' = Consumed + 1 /\ Consumed + Len(toClient) = Len(LastAnswer)
  <2>1. Consumed' = Len(LastAnswer) - Len(toClient')
    BY <1>5 DEF Consumed
  <2> QED BY <1>3, <1>4, <1>6, <2>1 DEF Consumed
<1>8. toClient' = <<>> <=> Consumed + 1 = Len(LastAnswer)
  <2>1. toClient' = <<>> <=> Len(toClient') = 0
    BY <1>3, EmptySeq
  <2> QED BY <1>3, <1>6, <1>7, <2>1
<1>9. /\ toClient[1].req = Len(answers) /\ toClient[1].pos = Consumed + 1
      /\ toClient[1].kind = LastAnswer[Consumed + 1] /\ toClient[1].n = Definitions(LastAnswer)
  BY <1>4
<1> QED BY <1>1, <1>2, <1>3, <1>4, <1>5, <1>6, <1>7, <1>8, <1>9

-----------------------------------------------------------------------------
(* What the user has *)

\* A resultset changes.
LEMMA HandedUpdate ==
  ASSUME TypeOK, Handed, answers' = answers, NEW k, NEW value, results' = [results EXCEPT ![k] = value],
         k \in 1..Len(results) =>
           /\ value.req = results[k].req
           /\ Ordered(value.rows, answers[value.req])
           /\ value.eof_received /\ Readable(answers[value.req]) => AllRows(value.rows, answers[value.req])
  PROVE  Handed'
<1>1. results \in Seq(Results)
  BY DEF TypeOK, Results
<1>2. /\ Len(results') = Len(results)
      /\ \A rs \in 1..Len(results) : results'[rs] = IF rs = k THEN value ELSE results[rs]
  BY <1>1
<1>3. ASSUME NEW rs \in 1..Len(results)
      PROVE  /\ results'[rs].req \in 1..Len(answers)
             /\ Ordered(results'[rs].rows, answers[results'[rs].req])
             /\ results'[rs].eof_received /\ Readable(answers[results'[rs].req]) =>
                  AllRows(results'[rs].rows, answers[results'[rs].req])
  <2>1. CASE rs = k
    <3>1. results'[rs] = value
      BY <1>2, <2>1
    <3> QED BY <2>1, <3>1 DEF Handed
  <2>2. CASE rs # k
    <3>1. results'[rs] = results[rs]
      BY <1>2, <2>2
    <3> QED BY <3>1 DEF Handed, complete
  <2> QED BY <2>1, <2>2
<1> QED BY <1>2, <1>3 DEF Handed, complete

\* A resultset is there from now on: none of its rows has been read, and if it
\* is complete there are none.
LEMMA HandedAppend ==
  ASSUME TypeOK, Handed, answers' = answers, op.req \in 1..Len(answers), NEW ended \in BOOLEAN,
         results' = Append(results, Resultset(op.req, ended)),
         ended => \A pos \in 1..Len(answers[op.req]) : answers[op.req][pos] # "row"
  PROVE  Handed'
<1>1. /\ Len(results) \in Nat /\ Len(results') = Len(results) + 1
      /\ results'[Len(results) + 1] = Resultset(op.req, ended)
      /\ \A rs \in 1..Len(results) : results'[rs] = results[rs]
  BY LenProperties, AppendProperties DEF TypeOK
<1>2. \A rs \in 1..Len(results') : rs \in 1..Len(results) \/ rs = Len(results) + 1
  BY <1>1
<1>3. ASSUME NEW rs \in 1..Len(results'), rs = Len(results) + 1
      PROVE  /\ results'[rs].req \in 1..Len(answers)
             /\ Ordered(results'[rs].rows, answers[results'[rs].req])
             /\ results'[rs].eof_received => AllRows(results'[rs].rows, answers[results'[rs].req])
  <2>1. results'[rs].req = op.req /\ results'[rs].rows = <<>> /\ results'[rs].eof_received = ended
    BY <1>1, <1>3 DEF Resultset
  <2>2. Len(<<>>) = 0
    OBVIOUS
  <2> QED BY <2>1, <2>2 DEF Ordered, AllRows
<1>4. ASSUME NEW rs \in 1..Len(results)
      PROVE  /\ results'[rs].req \in 1..Len(answers)
             /\ Ordered(results'[rs].rows, answers[results'[rs].req])
             /\ results'[rs].eof_received /\ Readable(answers[results'[rs].req]) =>
                  AllRows(results'[rs].rows, answers[results'[rs].req])
  BY <1>1, <1>4 DEF Handed, complete
<1> QED BY <1>2, <1>3, <1>4 DEF Handed, complete

\* The server answers another request.
LEMMA HandedServe ==
  ASSUME TypeOK, Handed, Serve
  PROVE  Handed'
<1>1. PICK kinds \in AnyResponse : Respond(kinds)
  BY Served
<1>2. results' = results /\ answers \in Seq(AnyResponse) /\ answers' = Append(answers, kinds)
  BY <1>1 DEF Respond, clientVars, TypeOK, AnyResponse
<1>3. /\ Len(answers) \in Nat /\ Len(answers') = Len(answers) + 1
      /\ \A i \in 1..Len(answers) : answers'[i] = answers[i]
  BY <1>2, LenProperties, AppendProperties
<1>4. \A rs \in 1..Len(results) : answers'[results[rs].req] = answers[results[rs].req]
  BY <1>3 DEF Handed
<1> QED BY <1>2, <1>3, <1>4 DEF Handed, complete

-----------------------------------------------------------------------------
(* The user starts an operation, the server answers *)

\* A request waits for its answer, and no resultset is for it yet.
LEMMA ProgressRequest ==
  ASSUME TypeOK, Rests, Ready, NEW kind \in {"query", "execute", "prepare", "close"}, NEW stmt \in Nat,
         WriteRequest(kind, stmt), UNCHANGED <<results, toClient, answers>>,
         \/ op' = op /\ kind = "close"
         \/ kind # "close" /\ op'.kind \in {"head", "prepare"}
  PROVE  Progress'
<1>1. op.kind = "idle" /\ Len(answers) \in Nat /\ Len(toServer) \in Nat /\ Requested \in Nat
  BY LenProperties DEF Ready, Usable, Requested, TypeOK
<1>2. Len(toServer') = Len(toServer) + 1 /\ toServer'[Len(toServer')].kind = kind /\ toServer' # <<>>
  <2>1. [kind |-> kind, stmt |-> stmt] \in Requests /\ toServer \in Seq(Requests)
    BY DEF Requests, TypeOK
  <2>2. toServer' = Append(toServer, [kind |-> kind, stmt |-> stmt])
    BY DEF WriteRequest
  <2>3. Len(toServer') = Len(toServer) + 1 /\ toServer'[Len(toServer) + 1] = [kind |-> kind, stmt |-> stmt]
    BY <2>1, <2>2, AppendProperties
  <2> QED BY <1>1, <2>3
<1>3. \A rs \in 1..Len(results) : results[rs].req # Requested'
  <2>1. Requested' = Len(answers) + Len(toServer) + 1
    BY <1>1, <1>2 DEF Requested
  <2>2. \A rs \in 1..Len(results) : results[rs].req <= Len(answers)
    BY DEF Rests, ResultsRest
  <2> QED BY <1>1, <2>1, <2>2
<1>4. Current'
  BY <1>3 DEF Current
<1>5. HeadExpected' /\ DefinitionsExpected' /\ Fetched'
  BY <1>1, <1>2 DEF HeadExpected, DefinitionsExpected, Fetched
<1> QED BY <1>4, <1>5 DEF Progress

\* A call starts to read a resultset.
LEMMA ProgressFetch ==
  ASSUME TypeOK, Rests, Progress, NEW rs \in 1..Len(results), NEW count \in Nat, NEW api, Fetch(rs, count, api)
  PROVE  Progress'
<1>1. /\ op' = Op("fetch", results[rs].req, rs, count, api) /\ op.kind = "idle" /\ results[rs].req = Requested
      /\ ~complete(rs) /\ count > 0
      /\ UNCHANGED <<results, toServer, toClient, answers>>
  BY DEF Fetch, Usable
<1>2. op'.kind = "fetch" /\ op'.req = Requested /\ op'.rs = rs /\ op'.left = count /\ op'.got = <<>>
  BY <1>1 DEF Op
<1>3. Requested' = Requested /\ LastAnswer' = LastAnswer /\ Consumed' = Consumed
  BY <1>1 DEF Requested, LastAnswer, Consumed
<1>4. Current'
  <2>1. Current
    BY DEF Progress
  <2> QED BY <1>1, <1>2, <1>3, <2>1 DEF Current, complete
<1>5. Fetched'
  <2>1. Len(<<>>) = 0
    OBVIOUS
  <2> QED BY <1>1, <1>2, <1>3, <2>1 DEF Fetched, complete, Ordered
<1>6. HeadExpected' /\ DefinitionsExpected'
  BY <1>2 DEF HeadExpected, DefinitionsExpected
<1> QED BY <1>4, <1>5, <1>6 DEF Progress

\* The server answers: what it says has the form the operation asks for.
LEMMA ProgressServe ==
  ASSUME TypeOK, Rests, Progress, Serve
  PROVE  Progress'
<1>1. PICK kinds \in AnyResponse :
         /\ Respond(kinds)
         /\ Head(toServer).kind \in {"query", "execute"} => kinds \in Responses \cup {<<"error">>}
         /\ Head(toServer).kind = "prepare" => kinds \in Preparations
  BY Served
<1>2. /\ answers' # <<>> /\ LastAnswer' = kinds /\ Len(answers) \in Nat /\ Len(answers') = Len(answers) + 1
      /\ UNCHANGED <<op, results>>
  <2>1. answers \in Seq(AnyResponse) /\ answers' = Append(answers, kinds)
    BY <1>1 DEF Respond, TypeOK, AnyResponse
  <2>2. Len(answers) \in Nat /\ Len(answers') = Len(answers) + 1 /\ answers'[Len(answers) + 1] = kinds
    BY <2>1, LenProperties, AppendProperties
  <2>3. answers' # <<>>
    BY <2>2
  <2> QED BY <1>1, <2>2, <2>3 DEF LastAnswer, Respond, clientVars
<1>3. /\ toServer # <<>> /\ Len(toServer) \in Nat \ {0} /\ Len(toServer') = Len(toServer) - 1 /\ Head(toServer) = toServer[1]
      /\ toServer' # <<>> => Len(toServer) > 1
      /\ \A i \in 1..Len(toServer') : toServer'[i] = toServer[i + 1]
  <2>1. toServer # <<>> /\ toServer \in Seq(Requests) /\ toServer' = Tail(toServer)
    BY <1>1 DEF Serve, Respond, TypeOK, Requests
  <2>2. Len(toServer) \in Nat \ {0}
    BY <2>1, LenProperties, EmptySeq
  <2>3. toServer' \in Seq(Requests) /\ Len(toServer') = Len(toServer) - 1
    BY <2>1, HeadTailProperties
  <2>4. Head(toServer) = toServer[1] /\ \A i \in 1..Len(toServer') : toServer'[i] = toServer[i + 1]
    BY <2>1, <2>2, HeadTailProperties
  <2>5. toServer' # <<>> => Len(toServer) > 1
    BY <2>2, <2>3, EmptySeq
  <2> QED BY <2>1, <2>2, <2>3, <2>4, <2>5
<1>4. op.kind \notin {"fields", "meta", "fetch"}
  BY <1>3 DEF Rests, OwnRest
<1>5. Current'
  <2>1. \A rs \in 1..Len(results) : results[rs].req <= Len(answers)
    BY DEF Rests, ResultsRest
  <2>2. \A rs \in 1..Len(results) : results[rs].req \in Nat
    <3>1. \A rs \in 1..Len(results) : results[rs] \in Results
      BY ElementOfSeq DEF TypeOK, Results
    <3> QED BY <3>1 DEF Results
  <2>3. Requested' = Len(answers) + Len(toServer)
    BY <1>2, <1>3 DEF Requested
  <2>4. \A rs \in 1..Len(results) : results[rs].req # Requested'
    BY <1>2, <1>3, <2>1, <2>2, <2>3
  <2> QED BY <1>2, <2>4 DEF Current
<1>6. HeadExpected'
  <2> SUFFICES ASSUME op.kind \in {"head", "prepare"}
               PROVE  IF toServer' = <<>>
                        THEN /\ answers' # <<>> /\ Consumed' <= 0
                             /\ IF op.kind = "head" THEN QueryResponse(kinds) ELSE PrepareResponse(kinds)
                        ELSE toServer'[Len(toServer')].kind # "close"
    BY <1>2 DEF HeadExpected
  <2>1. toServer[Len(toServer)].kind # "close"
    BY <1>3 DEF Progress, HeadExpected
  <2>2. CASE toServer' # <<>>
    <3>1. Len(toServer') \in 1..Len(toServer') /\ toServer'[Len(toServer')] = toServer[Len(toServer)]
      BY <1>3, <2>2
    <3> QED BY <2>1, <2>2, <3>1
  <2>3. CASE toServer' = <<>>
    <3>1. Len(toServer) = 1
      BY <1>3, <2>3
    <3>2. \/ op.kind = "head" /\ Head(toServer).kind \in {"query", "execute"}
          \/ op.kind = "prepare" /\ Head(toServer).kind = "prepare"
      BY <1>3, <2>1, <3>1 DEF Rests, ServerQueue
    <3>3. IF op.kind = "head" THEN QueryResponse(kinds) ELSE PrepareResponse(kinds)
      <4>1. <<"error">> \in {<<"ok">>, <<"error">>}
        OBVIOUS
      <4> QED BY <1>1, <3>2, <4>1, GrammarAssumption DEF QueryResponse
    <3>4. Consumed' <= 0
      <4> DEFINE new == Messages(Len(answers) + 1, kinds)
      <4>1. new \in Seq(ServerMessages) /\ Len(new) = Len(kinds) /\ Len(kinds) \in Nat
        BY <1>2, MessagesType, ResponseType
      <4>2. toClient \in Seq(ServerMessages) /\ toClient' = toClient \o new
        BY <1>1 DEF Respond, TypeOK, ServerMessages
      <4> HIDE DEF new
      <4>3. Len(toClient') = Len(toClient) + Len(kinds) /\ Len(toClient) \in Nat
        <5>1. Len(toClient \o new) = Len(toClient) + Len(new)
          BY <4>1, <4>2, ConcatProperties
        <5>2. Len(toClient) \in Nat
          BY <4>2, LenProperties
        <5> QED BY <4>1, <4>2, <5>1, <5>2
      <4>4. Consumed' = Len(kinds) - Len(toClient')
        BY <1>2 DEF Consumed
      <4> QED BY <4>1, <4>3, <4>4
    <3> QED BY <1>2, <2>3, <3>3, <3>4
  <2> QED BY <2>2, <2>3
<1>7. DefinitionsExpected' /\ Fetched'
  BY <1>2, <1>4 DEF DefinitionsExpected, Fetched
<1> QED BY <1>5, <1>6, <1>7 DEF Progress

-----------------------------------------------------------------------------
(* The head of a response and its definitions *)

\* An operation that ends without a resultset of its own leaves none to fetch.
LEMMA NoneCurrent ==
  ASSUME Current, op.kind \notin {"idle", "fetch"}, results' = results, Requested' = Requested,
         op'.kind \notin {"fetch", "head", "prepare"}
  PROVE  Current' /\ Fetched' /\ HeadExpected'
BY DEF Current, Fetched, HeadExpected

\* An operation that ends with a resultset of its own.
LEMMA OneCurrent ==
  ASSUME TypeOK, Current, op.kind \notin {"idle", "fetch"}, Requested' = Requested, op.req = Requested, NEW ended \in BOOLEAN,
         results' = Append(results, Resultset(op.req, ended)), op'.kind = "idle",
         ~ended => /\ RowsResponse(LastAnswer') /\ Consumed' > Definitions(LastAnswer') /\ toClient' # <<>>
                   /\ \A pos \in 1..Consumed' : LastAnswer'[pos] # "row"
  PROVE  Progress'
<1>1. /\ Len(results) \in Nat /\ Len(results') = Len(results) + 1
      /\ results'[Len(results) + 1] = Resultset(op.req, ended)
      /\ \A rs \in 1..Len(results) : results'[rs] = results[rs]
  BY LenProperties, AppendProperties DEF TypeOK
<1>2. \A rs \in 1..Len(results) : results'[rs].req # Requested
  BY <1>1 DEF Current
<1>3. \A rs \in 1..Len(results') : rs \in 1..Len(results) \/ rs = Len(results) + 1
  BY <1>1
<1>4. ASSUME NEW rs \in 1..Len(results'), results'[rs].req = Requested'
      PROVE  /\ \A other \in 1..Len(results') : results'[other].req = Requested' => other = rs
             /\ \A i \in 1..Len(results'[rs].rows) : results'[rs].rows[i] <= Consumed'
             /\ ~results'[rs].eof_received =>
                  /\ RowsResponse(LastAnswer') /\ Consumed' > Definitions(LastAnswer')
                  /\ (toClient' = <<>> <=> results'[rs].failed)
                  /\ ~results'[rs].failed
                  /\ \A pos \in 1..Consumed' : LastAnswer'[pos] # "row"
  <2>1. rs = Len(results) + 1
    BY <1>2, <1>3, <1>4
  <2>2. results'[rs].rows = <<>> /\ results'[rs].eof_received = ended /\ results'[rs].failed = FALSE
    BY <1>1, <2>1 DEF Resultset
  <2>3. Len(<<>>) = 0
    OBVIOUS
  <2> QED BY <1>2, <1>3, <1>4, <2>1, <2>2, <2>3
<1>5. Current'
  BY <1>4 DEF Current, complete
<1>6. HeadExpected' /\ DefinitionsExpected' /\ Fetched'
  BY DEF HeadExpected, DefinitionsExpected, Fetched
<1> QED BY <1>5, <1>6 DEF Progress

\* The first message of a response.
LEMMA HeadTaken ==
  ASSUME TypeOK, LastRest, Handed, Rests, Progress,
         ReadOk \/ ReadError \/ ReadBadHead \/ ReadFieldCount \/ ReadPrepared
  PROVE  Handed' /\ Progress'
<1>1. PICK kind \in {"ok", "error", "bad_head", "count", "prepared"} : Accepted(kind)
  BY DEF ReadOk, ReadError, ReadBadHead, ReadFieldCount, ReadPrepared
<1>2. op.kind \in {"head", "prepare"}
  BY DEF ReadOk, ReadError, ReadBadHead, ReadFieldCount, ReadPrepared
<1>3. /\ answers' = answers /\ toServer = <<>> /\ Len(answers) \in Nat \ {0}
      /\ Requested = Len(answers) /\ Requested' = Requested /\ op.req = Len(answers)
      /\ LastAnswer \in AnyResponse /\ LastAnswer' = LastAnswer
      /\ Definitions(LastAnswer) \in Nat /\ Len(LastAnswer) \in Nat
      /\ Consumed \in Nat /\ Consumed' = Consumed + 1
      /\ LastAnswer[Consumed + 1] = kind /\ Head(toClient).n = Definitions(LastAnswer)
  BY <1>1, <1>2, OwnNext
<1>4. /\ Consumed = 0 /\ Consumed' = 1 /\ LastAnswer[1] = kind
      /\ IF op.kind = "head" THEN QueryResponse(LastAnswer) ELSE PrepareResponse(LastAnswer)
  BY <1>2, <1>3 DEF Progress, HeadExpected
<1>5. Current
  BY DEF Progress
<1>6. answers # <<>> /\ answers' # <<>>
  BY <1>2, <1>3 DEF Progress, HeadExpected
<1>7. CASE ReadOk
  <2>1. kind = "ok" /\ op.kind = "head" /\ op'.kind = "idle" /\ results' = Append(results, Resultset(op.req, TRUE))
    BY <1>1, <1>7 DEF ReadOk, Accepted, Finish, Idle, Op
  <2>2. Progress'
    BY <1>2, <1>3, <1>5, <2>1, OneCurrent
  <2>3. Len(LastAnswer) = 1
    BY <1>3, <1>4, <2>1, Parts
  <2>4. \A pos \in 1..Len(answers[op.req]) : answers[op.req][pos] # "row"
    BY <1>3, <1>4, <2>1, <2>3 DEF LastAnswer
  <2>5. Handed'
    <3>1. op.req \in 1..Len(answers) /\ answers' = answers
      BY <1>3
    <3> QED BY <2>1, <2>4, <3>1, HandedAppend
  <2> QED BY <2>2, <2>5
<1>8. ASSUME results' = results PROVE Handed'
  BY <1>3, <1>8 DEF Handed, complete
<1>9. CASE ReadError \/ ReadBadHead
  <2>1. op'.kind = "idle" /\ results' = results
    BY <1>9 DEF ReadError, ReadBadHead, Finish, Idle, Op
  <2>2. Current' /\ Fetched' /\ HeadExpected'
    BY <1>2, <1>3, <1>5, <2>1, NoneCurrent
  <2>3. DefinitionsExpected'
    BY <2>1 DEF DefinitionsExpected
  <2> QED BY <1>8, <2>1, <2>2, <2>3 DEF Progress
<1>10. CASE ReadFieldCount
  <2>1. kind = "count" /\ op.kind = "head" /\ results' = results
    BY <1>1, <1>10 DEF ReadFieldCount, Accepted
  <2>2. op'.kind = "fields" /\ op'.left = Definitions(LastAnswer)
    BY <1>3, <1>10 DEF ReadFieldCount, TypeOK, Operation
  <2>3. RowsResponse(LastAnswer) /\ Definitions(LastAnswer) > 0
    BY <1>3, <1>4, <2>1, Parts
  <2>4. Current' /\ Fetched' /\ HeadExpected'
    BY <1>2, <1>3, <1>5, <2>1, <2>2, NoneCurrent
  <2>5. DefinitionsExpected'
    BY <1>3, <1>4, <1>6, <2>2, <2>3 DEF DefinitionsExpected
  <2> QED BY <1>8, <2>1, <2>4, <2>5 DEF Progress
<1>11. CASE ReadPrepared
  <2>1. kind = "prepared" /\ op.kind = "prepare" /\ results' = results
    BY <1>1, <1>11 DEF ReadPrepared, Accepted
  <2>2. \/ op'.kind = "meta" /\ op'.left = Definitions(LastAnswer) /\ Definitions(LastAnswer) > 0
        \/ op'.kind = "idle"
    <3>1. \/ Head(toClient).n > 0 /\ op' = [op EXCEPT !.kind = "meta", !.left = Head(toClient).n]
          \/ Finish("none")
      BY <1>11 DEF ReadPrepared
    <3>2. Finish("none") => op'.kind = "idle"
      BY DEF Finish, Idle, Op
    <3>3. op' = [op EXCEPT !.kind = "meta", !.left = Head(toClient).n] => op'.kind = "meta" /\ op'.left = Head(toClient).n
      BY DEF TypeOK, Operation
    <3> QED BY <1>3, <3>1, <3>2, <3>3
  <2>3. Current' /\ Fetched' /\ HeadExpected'
    BY <1>2, <1>3, <1>5, <2>1, <2>2, NoneCurrent
  <2>4. DefinitionsExpected'
    <3>1. PrepareResponse(LastAnswer) /\ LastAnswer[1] = "prepared"
      BY <1>4, <2>1
    <3> QED BY <1>3, <1>4, <1>6, <2>2, <3>1 DEF DefinitionsExpected
  <2> QED BY <1>8, <2>1, <2>3, <2>4 DEF Progress
<1> QED BY <1>7, <1>9, <1>10, <1>11

\* A definition: another follows, or the resultset and its rows, or the
\* response is given up.
LEMMA DefinitionTaken ==
  ASSUME TypeOK, LastRest, Handed, Rests, Progress, ReadField \/ ReadBadField \/ ReadMeta
  PROVE  Handed' /\ Progress'
<1>1. PICK kind : Accepted(kind)
  BY DEF ReadField, ReadBadField, ReadMeta
<1>2. op.kind \in {"fields", "meta"}
  BY DEF ReadField, ReadBadField, ReadMeta
<1>3. /\ answers' = answers /\ toServer = <<>> /\ Len(answers) \in Nat \ {0}
      /\ Requested = Len(answers) /\ Requested' = Requested /\ op.req = Len(answers)
      /\ LastAnswer \in AnyResponse /\ LastAnswer' = LastAnswer
      /\ Definitions(LastAnswer) \in Nat /\ Len(LastAnswer) \in Nat
      /\ Consumed \in Nat /\ Consumed' = Consumed + 1
      /\ (toClient' = <<>> <=> Consumed + 1 = Len(LastAnswer))
  BY <1>1, <1>2, OwnNext
<1>4. /\ answers # <<>> /\ answers' # <<>>
      /\ op.left \in 1..Definitions(LastAnswer) /\ Consumed = Definitions(LastAnswer) + 1 - op.left
      /\ IF op.kind = "fields" THEN RowsResponse(LastAnswer)
                               ELSE PrepareResponse(LastAnswer) /\ LastAnswer[1] = "prepared"
  BY <1>2, <1>3 DEF Progress, DefinitionsExpected
<1>5. Current
  BY DEF Progress
<1>6. ASSUME results' = results PROVE Handed'
  BY <1>3, <1>6 DEF Handed, complete
<1>7. ASSUME results' = results, op'.kind = "idle" PROVE Handed' /\ Progress'
  <2>1. Current' /\ Fetched' /\ HeadExpected'
    BY <1>2, <1>3, <1>5, <1>7, NoneCurrent
  <2>2. DefinitionsExpected'
    BY <1>7 DEF DefinitionsExpected
  <2> QED BY <1>6, <1>7, <2>1, <2>2 DEF Progress
<1>8. ASSUME results' = results, op.left > 1, op' = [op EXCEPT !.left = @ - 1] PROVE Handed' /\ Progress'
  <2>1. op'.kind = op.kind /\ op'.left = op.left - 1
    BY <1>8 DEF TypeOK, Operation
  <2>2. Current' /\ Fetched' /\ HeadExpected'
    BY <1>2, <1>3, <1>5, <1>8, <2>1, NoneCurrent
  <2>3. op'.left \in 1..Definitions(LastAnswer) /\ Consumed' = Definitions(LastAnswer) + 1 - op'.left
    BY <1>3, <1>4, <1>8, <2>1
  <2>4. DefinitionsExpected'
    BY <1>3, <1>4, <2>1, <2>3 DEF DefinitionsExpected
  <2> QED BY <1>6, <1>8, <2>2, <2>4 DEF Progress
<1>9. CASE ReadBadField
  <2>1. results' = results /\ op'.kind = "idle"
    BY <1>9 DEF ReadBadField, Finish, Idle, Op
  <2> QED BY <1>7, <2>1
<1>10. CASE ReadMeta
  <2>1. results' = results
    BY <1>10 DEF ReadMeta
  <2>2. op'.kind = "idle" \/ (op.left > 1 /\ op' = [op EXCEPT !.left = @ - 1])
    BY <1>10 DEF ReadMeta, Finish, Idle, Op
  <2> QED BY <1>7, <1>8, <2>1, <2>2
<1>11. CASE ReadField /\ op.left > 1
  BY <1>8, <1>11 DEF ReadField
<1>12. CASE ReadField /\ ~(op.left > 1)
  <2>1. op.kind = "fields" /\ op'.kind = "idle" /\ results' = Append(results, Resultset(op.req, FALSE))
    <3>1. op.kind = "fields" /\ Finish("none") /\ results' = Append(results, Resultset(op.req, FALSE))
      BY <1>12 DEF ReadField
    <3> QED BY <3>1 DEF Finish, Idle, Op
  <2>2. Consumed' = Definitions(LastAnswer) + 1
    BY <1>3, <1>4, <1>12
  <2>3. RowsResponse(LastAnswer) /\ Len(LastAnswer) >= Definitions(LastAnswer) + 2
    BY <1>3, <1>4, <2>1, Parts
  <2>4. toClient' # <<>>
    BY <1>3, <2>2, <2>3
  <2>5. \A pos \in 1..Consumed' : LastAnswer[pos] # "row"
    <3>1. \A pos \in 1..Consumed' : pos \in 1..Len(LastAnswer) /\ pos <= Definitions(LastAnswer) + 1
      BY <1>3, <2>2, <2>3
    <3>2. \A pos \in 1..Len(LastAnswer) :
             pos <= Definitions(LastAnswer) + 1 => LastAnswer[pos] \in {"count", "bad_head", "field", "bad_field"}
      BY <1>3, <2>3, Parts
    <3> QED BY <3>1, <3>2
  <2>6. RowsResponse(LastAnswer') /\ Consumed' > Definitions(LastAnswer')
    BY <1>3, <2>2, <2>3
  <2>7. \A pos \in 1..Consumed' : LastAnswer'[pos] # "row"
    BY <1>3, <2>5
  <2>8. Progress'
    BY <1>2, <1>3, <1>5, <2>1, <2>4, <2>6, <2>7, OneCurrent
  <2>9. Handed'
    <3>1. op.req \in 1..Len(answers) /\ answers' = answers
      BY <1>3
    <3>2. results' = Append(results, Resultset(op.req, FALSE))
      BY <2>1
    <3> QED BY <3>1, <3>2, HandedAppend
  <2> QED BY <2>8, <2>9
<1> QED BY <1>9, <1>10, <1>11, <1>12

-----------------------------------------------------------------------------
(* Rows *)

\* The call in progress and its resultset.
LEMMA CallInProgress ==
  ASSUME TypeOK, Handed, Rests, Progress, op.kind = "fetch"
  PROVE  /\ op.rs \in 1..Len(results) /\ results[op.rs] \in Results /\ results[op.rs].req = Requested
         /\ answers[results[op.rs].req] = LastAnswer /\ results[op.rs].eof_received = FALSE
         /\ op.left \in Nat \ {0} /\ op.got \in Seq(Nat)
         /\ Ordered(results[op.rs].rows, LastAnswer) /\ Ordered(op.got, LastAnswer)
         /\ \A i \in 1..Len(results[op.rs].rows) : results[op.rs].rows[i] <= Consumed
         /\ \A j \in 1..Len(op.got) : op.got[j] <= Consumed
         /\ \A i \in 1..Len(results[op.rs].rows), j \in 1..Len(op.got) : results[op.rs].rows[i] < op.got[j]
         /\ RowsResponse(LastAnswer) /\ Consumed > Definitions(LastAnswer)
         /\ (toClient = <<>> <=> results[op.rs].failed)
         /\ Readable(LastAnswer) /\ ~results[op.rs].failed =>
              \A pos \in 1..Consumed : LastAnswer[pos] = "row" =>
                Occurs(pos, results[op.rs].rows) \/ Occurs(pos, op.got)
<1>1. op.rs \in 1..Len(results) /\ results[op.rs] \in Results
  BY ElementOfSeq DEF Progress, Fetched, TypeOK, Results
<1>2. results[op.rs].req = Requested /\ Requested = Len(answers)
  <2>1. toServer = <<>> /\ op.req = Requested
    BY DEF Rests, OwnRest
  <2>2. Requested = Len(answers)
    BY <2>1, LenProperties DEF Requested, TypeOK
  <2> QED BY <2>1, <2>2 DEF Progress, Fetched
<1>3. results[op.rs].eof_received = FALSE
  BY <1>1 DEF Progress, Fetched, complete, Results
<1>4. answers[results[op.rs].req] = LastAnswer
  BY <1>2 DEF LastAnswer
<1>5. op.left \in Nat \ {0} /\ op.got \in Seq(Nat)
  BY DEF TypeOK, Operation, Progress, Fetched
<1>6. Ordered(results[op.rs].rows, LastAnswer) /\ Ordered(op.got, LastAnswer)
  BY <1>1, <1>4 DEF Handed, Progress, Fetched
<1>7. /\ \A j \in 1..Len(op.got) : op.got[j] <= Consumed
      /\ \A i \in 1..Len(results[op.rs].rows), j \in 1..Len(op.got) : results[op.rs].rows[i] < op.got[j]
  BY DEF Progress, Fetched
<1>8. /\ \A i \in 1..Len(results[op.rs].rows) : results[op.rs].rows[i] <= Consumed
      /\ RowsResponse(LastAnswer) /\ Consumed > Definitions(LastAnswer)
      /\ (toClient = <<>> <=> results[op.rs].failed)
      /\ Readable(LastAnswer) /\ ~results[op.rs].failed =>
           \A pos \in 1..Consumed : LastAnswer[pos] = "row" =>
             Occurs(pos, results[op.rs].rows) \/ Occurs(pos, op.got)
  BY <1>1, <1>2, <1>3 DEF Progress, Current, complete
<1> QED BY <1>1, <1>2, <1>3, <1>4, <1>5, <1>6, <1>7, <1>8

\* A call returns: the rows it hands over are in order, and none is missing.
LEMMA CallReturns ==
  ASSUME TypeOK, Handed, Rests, Progress, op.kind = "fetch", op'.kind = "idle", answers' = answers,
         Requested' = Requested, LastAnswer' = LastAnswer, NEW rows \in Seq(Nat), NEW ended \in BOOLEAN, NEW failed \in BOOLEAN,
         Ordered(rows, LastAnswer),
         \A i \in 1..Len(results[op.rs].rows), j \in 1..Len(rows) : results[op.rs].rows[i] < rows[j],
         \A j \in 1..Len(rows) : rows[j] <= Consumed',
         Consumed' \in Nat, Consumed' > Consumed, Consumed \in Nat, Definitions(LastAnswer) \in Nat,
         Len(LastAnswer) \in Nat, Consumed' <= Len(LastAnswer),
         NEW value,
         /\ value.req = results[op.rs].req /\ value.eof_received = ended /\ value.failed = failed
         /\ value.rows = results[op.rs].rows \o rows,
         results' = [results EXCEPT ![op.rs] = value],
         ended \/ (toClient' = <<>> <=> failed),
         failed => LastAnswer[Len(LastAnswer)] \in {"error", "bad_eof"},
         ended /\ Readable(LastAnswer) => Consumed' = Len(LastAnswer),
         Readable(LastAnswer) /\ ~failed =>
           \A pos \in 1..Consumed' : LastAnswer[pos] = "row" => Occurs(pos, results[op.rs].rows) \/ Occurs(pos, rows),
         ended => ~failed
  PROVE  Handed' /\ Progress'
<1> DEFINE r == results[op.rs]
<1>1. /\ op.rs \in 1..Len(results) /\ r.rows \in Seq(Nat) /\ r.req = Requested
      /\ answers[r.req] = LastAnswer /\ Ordered(r.rows, LastAnswer)
      /\ \A i \in 1..Len(r.rows) : r.rows[i] <= Consumed
      /\ RowsResponse(LastAnswer) /\ Consumed > Definitions(LastAnswer)
  BY CallInProgress DEF Results
<1> HIDE DEF r
<1>2. \A i \in 1..Len(r.rows), j \in 1..Len(rows) : r.rows[i] < rows[j]
  BY DEF r
<1>3. /\ Ordered(r.rows \o rows, LastAnswer)
      /\ \A pos : Occurs(pos, r.rows) \/ Occurs(pos, rows) => Occurs(pos, r.rows \o rows)
      /\ \A i \in 1..Len(r.rows \o rows) : \/ i \in 1..Len(r.rows) /\ (r.rows \o rows)[i] = r.rows[i]
                                           \/ \E j \in 1..Len(rows) : (r.rows \o rows)[i] = rows[j]
  BY <1>1, <1>2, OrderedConcat
<1>4. value.rows = r.rows \o rows /\ value.req = r.req
  BY DEF r
<1>5. Readable(LastAnswer) /\ ~failed => \A pos \in 1..Consumed' : LastAnswer[pos] = "row" => Occurs(pos, value.rows)
  BY <1>3, <1>4 DEF r
<1>6. \A i \in 1..Len(value.rows) : value.rows[i] <= Consumed'
  <2>1. \A i \in 1..Len(r.rows) : r.rows[i] \in Nat
    BY <1>1, ElementOfSeq
  <2>2. \A i \in 1..Len(r.rows) : r.rows[i] <= Consumed'
    <3> SUFFICES ASSUME NEW i \in 1..Len(r.rows) PROVE r.rows[i] <= Consumed'
      OBVIOUS
    <3>1. r.rows[i] \in Nat /\ r.rows[i] <= Consumed
      BY <1>1, <2>1
    <3> HIDE DEF r
    <3> QED BY ONLY <3>1, Consumed \in Nat, Consumed' \in Nat, Consumed' > Consumed
  <2> QED BY <1>3, <1>4, <2>2
<1>7. ended /\ Readable(LastAnswer) => AllRows(value.rows, LastAnswer)
  BY <1>5 DEF AllRows
<1>8. Handed'
  <2>1. /\ value.req = results[op.rs].req
        /\ Ordered(value.rows, answers[value.req])
        /\ value.eof_received /\ Readable(answers[value.req]) => AllRows(value.rows, answers[value.req])
    BY <1>1, <1>3, <1>4, <1>7 DEF r
  <2> QED BY <2>1, HandedUpdate
<1>9. Current'
  <2>1. /\ Len(results') = Len(results)
        /\ \A rs \in 1..Len(results) : results'[rs] = IF rs = op.rs THEN value ELSE results[rs]
    <3>1. results \in Seq(Results)
      BY DEF TypeOK, Results
    <3> QED BY <3>1
  <2>2. \A rs \in 1..Len(results) : results[rs].req = Requested => rs = op.rs
    BY <1>1 DEF Progress, Current, r
  <2>3. \A rs \in 1..Len(results) : results'[rs].req = results[rs].req
    BY <1>4, <2>1 DEF r
  <2>4. results'[op.rs] = value
    BY <1>1, <2>1
  <2>5. Consumed' > Definitions(LastAnswer)
    BY <1>1
  <2>6. ASSUME ~value.eof_received
        PROVE  /\ RowsResponse(LastAnswer') /\ Consumed' > Definitions(LastAnswer')
               /\ (toClient' = <<>> <=> value.failed)
               /\ value.failed => LastAnswer'[Len(LastAnswer')] \in {"error", "bad_eof"}
               /\ Readable(LastAnswer') /\ ~value.failed =>
                    \A pos \in 1..Consumed' : LastAnswer'[pos] = "row" => Occurs(pos, value.rows)
    <3>1. Readable(LastAnswer') /\ ~value.failed =>
            \A pos \in 1..Consumed' : LastAnswer'[pos] = "row" => Occurs(pos, value.rows)
      BY <1>5
    <3> QED BY <1>1, <2>5, <2>6, <3>1
  <2>7. ASSUME NEW rs \in 1..Len(results'), results'[rs].req = Requested'
        PROVE  rs = op.rs /\ results'[rs] = value
    BY <2>1, <2>2, <2>3, <2>4, <2>7
  <2> QED BY <1>6, <2>1, <2>6, <2>7 DEF Current, complete
<1>10. HeadExpected' /\ DefinitionsExpected' /\ Fetched'
  BY DEF HeadExpected, DefinitionsExpected, Fetched
<1> QED BY <1>8, <1>9, <1>10 DEF Progress

\* Nothing is handed over, or what the call has.
LEMMA ReturnedRows ==
  ASSUME TypeOK, Handed, Rests, Progress, op.kind = "fetch", NEW e
  PROVE  /\ Returned(e) \in Seq(Nat) /\ Ordered(Returned(e), LastAnswer)
         /\ \A i \in 1..Len(results[op.rs].rows), j \in 1..Len(Returned(e)) : results[op.rs].rows[i] < Returned(e)[j]
         /\ \A j \in 1..Len(Returned(e)) : Returned(e)[j] <= Consumed
<1>1. CASE Returned(e) = op.got
  BY <1>1, CallInProgress
<1>2. CASE Returned(e) = <<>>
  <2>1. Len(<<>>) = 0 /\ <<>> \in Seq(Nat)
    OBVIOUS
  <2> QED BY <1>2, <2>1 DEF Ordered
<1> QED BY <1>1, <1>2 DEF Returned

\* The next message of the rows.
LEMMA RowTaken ==
  ASSUME TypeOK, LastRest, Handed, Rests, Progress, ReadRow \/ ReadEof \/ ReadBadRow \/ ReadRowError \/ ReadBadEof
  PROVE  Handed' /\ Progress'
<1>1. PICK kind \in {"row", "eof", "huge_row", "bad_row", "error", "bad_eof"} : Accepted(kind)
  BY DEF ReadRow, ReadEof, ReadBadRow, ReadRowError, ReadBadEof
<1>2. op.kind = "fetch"
  BY DEF ReadRow, ReadEof, ReadBadRow, ReadRowError, ReadBadEof
<1>3. /\ answers' = answers /\ Len(answers) \in Nat \ {0}
      /\ Requested = Len(answers) /\ Requested' = Requested
      /\ LastAnswer \in AnyResponse /\ LastAnswer' = LastAnswer
      /\ Definitions(LastAnswer) \in Nat /\ Len(LastAnswer) \in Nat
      /\ Consumed \in Nat /\ Consumed' = Consumed + 1 /\ Consumed + 1 \in 1..Len(LastAnswer)
      /\ (toClient' = <<>> <=> Consumed + 1 = Len(LastAnswer))
      /\ LastAnswer[Consumed + 1] = kind /\ Head(toClient).pos = Consumed + 1
  BY <1>1, <1>2, OwnNext
<1> DEFINE r == results[op.rs]
<1>4. /\ op.rs \in 1..Len(results) /\ r \in Results /\ r.req = Requested /\ r.eof_received = FALSE
      /\ op.left \in Nat \ {0} /\ op.got \in Seq(Nat)
      /\ Ordered(r.rows, LastAnswer) /\ Ordered(op.got, LastAnswer)
      /\ \A i \in 1..Len(r.rows) : r.rows[i] <= Consumed
      /\ \A j \in 1..Len(op.got) : op.got[j] <= Consumed
      /\ \A i \in 1..Len(r.rows), j \in 1..Len(op.got) : r.rows[i] < op.got[j]
      /\ RowsResponse(LastAnswer) /\ Consumed > Definitions(LastAnswer)
      /\ (toClient = <<>> <=> r.failed)
      /\ Readable(LastAnswer) /\ ~r.failed =>
           \A pos \in 1..Consumed : LastAnswer[pos] = "row" => Occurs(pos, r.rows) \/ Occurs(pos, op.got)
  BY <1>2, CallInProgress
<1>5. r.failed = FALSE
  BY <1>1, <1>4 DEF Accepted, Results
<1>6. /\ kind \in {"row", "bad_row", "huge_row"} => Consumed + 1 < Len(LastAnswer)
      /\ kind \in {"eof", "bad_eof", "error"} => Consumed + 1 = Len(LastAnswer)
  <2>1. /\ Consumed + 1 > Definitions(LastAnswer) + 1
        /\ Consumed + 1 < Len(LastAnswer) \/ Consumed + 1 = Len(LastAnswer)
    BY <1>3, <1>4
  <2>2. \A i \in 1..Len(LastAnswer) :
           /\ i > Definitions(LastAnswer) + 1 /\ i < Len(LastAnswer) => LastAnswer[i] \in {"row", "bad_row", "huge_row"}
           /\ i = Len(LastAnswer) => LastAnswer[i] \in {"eof", "bad_eof", "error"}
    BY <1>3, <1>4, Parts
  <2>3. /\ Consumed + 1 < Len(LastAnswer) => kind \in {"row", "bad_row", "huge_row"}
        /\ Consumed + 1 = Len(LastAnswer) => kind \in {"eof", "bad_eof", "error"}
    BY <1>3, <2>1, <2>2
  <2> QED BY <2>1, <2>3
<1>7. kind \in {"bad_row", "huge_row"} => ~Readable(LastAnswer)
  BY <1>3 DEF Readable, Contains
<1>8. /\ \A pos \in 1..(Consumed + 1) : pos \in 1..Consumed \/ pos = Consumed + 1
      /\ \A n \in Nat : n <= Consumed => n <= Consumed + 1 /\ n < Consumed + 1
  BY <1>3
<1>9. \A j \in 1..Len(op.got) : op.got[j] \in Nat
  BY <1>4, ElementOfSeq
<1>10. \A i \in 1..Len(r.rows) : r.rows[i] \in Nat
  BY <1>4, ElementOfSeq DEF Results
<1>h. \A e : Finish(e) => op'.kind = "idle"
  BY DEF Finish, Idle, Op
<1> HIDE DEF r
<1>11. CASE ReadRow
  <2> DEFINE got == Append(op.got, Head(toClient).pos)
  <2>1. kind = "row"
    BY <1>1, <1>11 DEF ReadRow, Accepted
  <2>2. /\ got \in Seq(Nat) /\ Ordered(got, LastAnswer) /\ Occurs(Consumed + 1, got)
        /\ \A other : Occurs(other, op.got) => Occurs(other, got)
        /\ \A j \in 1..Len(got) : \/ j \in 1..Len(op.got) /\ got[j] = op.got[j]
                                  \/ got[j] = Consumed + 1
    <3>1. \A j \in 1..Len(op.got) : op.got[j] < Consumed + 1
      BY <1>4, <1>8, <1>9
    <3>2. PICK pos \in Nat : pos = Consumed + 1
      BY <1>3
    <3>3. pos \in 1..Len(LastAnswer) /\ LastAnswer[pos] = "row" /\ got = Append(op.got, pos)
      BY <1>3, <2>1, <3>2
    <3>4. op.got \in Seq(Nat) /\ Ordered(op.got, LastAnswer) /\ \A j \in 1..Len(op.got) : op.got[j] < pos
      BY <1>4, <3>1, <3>2
    <3> HIDE DEF got
    <3>5. /\ got \in Seq(Nat) /\ Ordered(got, LastAnswer) /\ Occurs(pos, got)
          /\ \A other : Occurs(other, op.got) => Occurs(other, got)
          /\ \A j \in 1..Len(got) : \/ j \in 1..Len(op.got) /\ got[j] = op.got[j]
                                    \/ got[j] = pos
      BY <3>3, <3>4, OrderedAppend
    <3> QED BY <3>2, <3>5
  <2>3. \/ op.left > 1 /\ op' = [op EXCEPT !.left = @ - 1, !.got = got] /\ UNCHANGED results
        \/ Finish("none") /\ HandOver(got)
    BY <1>11 DEF ReadRow
  <2> HIDE DEF got
  <2>4. \A i \in 1..Len(r.rows), j \in 1..Len(got) : r.rows[i] < got[j]
    <3>1. ASSUME NEW i \in 1..Len(r.rows), NEW j \in 1..Len(got) PROVE r.rows[i] < got[j]
      <4>1. CASE j \in 1..Len(op.got) /\ got[j] = op.got[j]
        BY <1>4, <4>1
      <4>2. CASE got[j] = Consumed + 1
        BY <1>4, <1>8, <1>10, <4>2
      <4> QED BY <2>2, <4>1, <4>2
    <3> QED BY <3>1
  <2>5. \A j \in 1..Len(got) : got[j] <= Consumed + 1
    <3>1. ASSUME NEW j \in 1..Len(got) PROVE got[j] <= Consumed + 1
      <4>1. CASE j \in 1..Len(op.got) /\ got[j] = op.got[j]
        BY <1>4, <1>8, <1>9, <4>1
      <4>2. CASE got[j] = Consumed + 1
        BY <1>3, <4>2
      <4> QED BY <2>2, <4>1, <4>2
    <3> QED BY <3>1
  <2>6. Readable(LastAnswer) =>
          \A pos \in 1..(Consumed + 1) : LastAnswer[pos] = "row" => Occurs(pos, r.rows) \/ Occurs(pos, got)
    BY <1>4, <1>5, <1>8, <2>2
  <2>7. toClient' # <<>>
    BY <1>3, <1>6, <2>1
  <2>8. CASE op.left > 1 /\ op' = [op EXCEPT !.left = @ - 1, !.got = got] /\ UNCHANGED results
    <3>1. op'.kind = "fetch" /\ op'.rs = op.rs /\ op'.req = op.req /\ op'.left > 0 /\ op'.got = got
      <4>1. op' = [[op EXCEPT !.left = op.left - 1] EXCEPT !.got = got]
        BY <2>8 DEF TypeOK, Operation
      <4>2. op'.left = op.left - 1 /\ op'.got = got /\ op'.kind = op.kind /\ op'.rs = op.rs /\ op'.req = op.req
        BY <4>1 DEF TypeOK, Operation
      <4> QED BY <1>2, <1>4, <2>8, <4>2
    <3>2. Handed'
      BY <1>3, <2>8 DEF Handed, complete
    <3>3. Fetched'
      <4>1. op.rs \in 1..Len(results') /\ results'[op.rs].req = op'.req /\ ~results'[op.rs].eof_received
        BY <1>2, <2>8, <3>1 DEF Progress, Fetched, complete
      <4> QED BY <1>3, <2>2, <2>4, <2>5, <2>8, <3>1, <4>1 DEF Fetched, complete, r
    <3>4. Current'
      <4>1. \A rs \in 1..Len(results) : results[rs].req = Requested => rs = op.rs
        BY <1>4 DEF Progress, Current, r
      <4>2. \A i \in 1..Len(r.rows) : r.rows[i] <= Consumed + 1
        BY <1>4, <1>8, <1>10
      <4>3. RowsResponse(LastAnswer) /\ Consumed + 1 > Definitions(LastAnswer)
        BY <1>3, <1>4
      <4>4. ASSUME NEW rs \in 1..Len(results), results[rs].req = Requested
            PROVE  /\ \A other \in 1..Len(results) : results[other].req = Requested => other = rs
                   /\ \A i \in 1..Len(results[rs].rows) : results[rs].rows[i] <= Consumed'
                   /\ (toClient' = <<>> <=> results[rs].failed)
                   /\ ~results[rs].failed
                   /\ Readable(LastAnswer) =>
                        \A pos \in 1..Consumed' : LastAnswer[pos] = "row" =>
                          Occurs(pos, results[rs].rows) \/ Occurs(pos, got)
        BY <1>3, <1>5, <2>6, <2>7, <4>1, <4>2, <4>4 DEF r
      <4> QED BY <1>3, <2>8, <3>1, <4>3, <4>4 DEF Current, complete
    <3>5. HeadExpected' /\ DefinitionsExpected'
      BY <3>1 DEF HeadExpected, DefinitionsExpected
    <3> QED BY <3>2, <3>3, <3>4, <3>5 DEF Progress
  <2>9. CASE Finish("none") /\ HandOver(got)
    <3> DEFINE value == [r EXCEPT !.rows = @ \o got]
    <3>1. /\ value.req = r.req /\ value.eof_received = FALSE /\ value.failed = FALSE
          /\ value.rows = r.rows \o got
      BY <1>4, <1>5 DEF Results
    <3>2. results' = [results EXCEPT ![op.rs] = value] /\ op'.kind = "idle"
      BY <1>h, <2>9 DEF HandOver, r
    <3> HIDE DEF value
    <3>3. /\ \A j \in 1..Len(got) : got[j] <= Consumed'
          /\ Readable(LastAnswer) =>
               \A pos \in 1..Consumed' : LastAnswer[pos] = "row" => Occurs(pos, r.rows) \/ Occurs(pos, got)
      BY <1>3, <2>5, <2>6
    <3>4. Consumed' \in Nat /\ Consumed' > Consumed /\ Consumed' <= Len(LastAnswer)
      BY <1>3
    <3> QED BY <1>2, <1>3, <2>2, <2>4, <2>7, <3>1, <3>2, <3>3, <3>4, CallReturns DEF r
  <2> QED BY <2>3, <2>8, <2>9
<1>12. CASE ReadEof
  <2> DEFINE value == [r EXCEPT !.rows = @ \o op.got, !.eof_received = TRUE]
  <2>1. kind \in {"eof", "huge_row"}
    BY <1>1, <1>12 DEF ReadEof, Accepted
  <2>2. /\ value.req = r.req /\ value.eof_received = TRUE /\ value.failed = FALSE
        /\ value.rows = r.rows \o op.got
    BY <1>4, <1>5 DEF Results
  <2>3. results' = [results EXCEPT ![op.rs] = value] /\ op'.kind = "idle"
    BY <1>h, <1>12 DEF ReadEof, r
  <2> HIDE DEF value
  <2>4. Readable(LastAnswer) => Consumed' = Len(LastAnswer)
    BY <1>3, <1>6, <1>7, <2>1
  <2>5. /\ \A j \in 1..Len(op.got) : op.got[j] <= Consumed'
        /\ Readable(LastAnswer) =>
             \A pos \in 1..Consumed' : LastAnswer[pos] = "row" => Occurs(pos, r.rows) \/ Occurs(pos, op.got)
    BY <1>3, <1>4, <1>5, <1>8, <1>9, <2>1
  <2>6. Consumed' \in Nat /\ Consumed' > Consumed /\ Consumed' <= Len(LastAnswer)
    BY <1>3
  <2> QED BY <1>2, <1>3, <1>4, <2>2, <2>3, <2>4, <2>5, <2>6, CallReturns DEF r
<1>13. CASE ReadBadRow
  <2> DEFINE rows == Returned("decode")
             value == [r EXCEPT !.rows = @ \o rows]
  <2>1. kind \in {"bad_row", "huge_row"}
    BY <1>1, <1>13 DEF ReadBadRow, Accepted
  <2>2. /\ value.req = r.req /\ value.eof_received = FALSE /\ value.failed = FALSE
        /\ value.rows = r.rows \o rows
    BY <1>4, <1>5 DEF Results
  <2>3. results' = [results EXCEPT ![op.rs] = value] /\ op'.kind = "idle"
    BY <1>h, <1>13 DEF ReadBadRow, HandOver, r
  <2>4. /\ rows \in Seq(Nat) /\ Ordered(rows, LastAnswer)
        /\ \A i \in 1..Len(r.rows), j \in 1..Len(rows) : r.rows[i] < rows[j]
        /\ \A j \in 1..Len(rows) : rows[j] <= Consumed
    BY <1>2, ReturnedRows DEF r
  <2> HIDE DEF value, rows
  <2>5. toClient' # <<>> /\ ~Readable(LastAnswer)
    BY <1>3, <1>6, <1>7, <2>1
  <2>6. Consumed' \in Nat /\ Consumed' > Consumed /\ Consumed' <= Len(LastAnswer)
    BY <1>3
  <2>7. \A j \in 1..Len(rows) : rows[j] <= Consumed'
    <3>1. \A j \in 1..Len(rows) : rows[j] \in Nat
      BY <2>4, ElementOfSeq
    <3> QED BY <1>3, <1>8, <2>4, <3>1
  <2> QED BY <1>2, <1>3, <2>2, <2>3, <2>4, <2>5, <2>6, <2>7, CallReturns DEF r
<1>14. CASE ReadRowError \/ ReadBadEof
  <2>e. PICK e : FailedEnd(e)
    BY <1>14 DEF ReadRowError, ReadBadEof
  <2> DEFINE rows == Returned(e)
             value == [r EXCEPT !.rows = @ \o rows, !.failed = TRUE]
  <2>1. kind \in {"error", "bad_eof"}
    BY <1>1, <1>14 DEF ReadRowError, ReadBadEof, Accepted
  <2>2. /\ value.req = r.req /\ value.eof_received = FALSE /\ value.failed = TRUE
        /\ value.rows = r.rows \o rows
    BY <1>4, <1>5 DEF Results
  <2>3. results' = [results EXCEPT ![op.rs] = value] /\ op'.kind = "idle"
    BY <1>h, <2>e DEF FailedEnd, r
  <2>4. /\ rows \in Seq(Nat) /\ Ordered(rows, LastAnswer)
        /\ \A i \in 1..Len(r.rows), j \in 1..Len(rows) : r.rows[i] < rows[j]
        /\ \A j \in 1..Len(rows) : rows[j] <= Consumed
    BY <1>2, ReturnedRows DEF r
  <2> HIDE DEF value, rows
  <2>5. toClient' = <<>> /\ LastAnswer[Len(LastAnswer)] \in {"error", "bad_eof"}
    BY <1>3, <1>6, <2>1
  <2>6. Consumed' \in Nat /\ Consumed' > Consumed /\ Consumed' <= Len(LastAnswer)
    BY <1>3
  <2>7. \A j \in 1..Len(rows) : rows[j] <= Consumed'
    <3>1. \A j \in 1..Len(rows) : rows[j] \in Nat
      BY <2>4, ElementOfSeq
    <3> QED BY <1>3, <1>8, <2>4, <3>1
  <2> QED BY <1>2, <1>3, <2>2, <2>3, <2>4, <2>5, <2>6, <2>7, CallReturns DEF r
<1> QED BY <1>11, <1>12, <1>13, <1>14

-----------------------------------------------------------------------------
(* The invariant is kept *)

\* A transfer fails: a call that was reading rows hands over what it has.
LEMMA TransferFails ==
  ASSUME TypeOK, Handed, op.kind = "fetch" => Rests /\ Progress, TransferError
  PROVE  Handed'
<1>1. answers' = answers
  BY DEF TransferError
<1>2. CASE op.kind # "fetch"
  <2>1. results' = results
    BY <1>2 DEF TransferError
  <2> QED BY <1>1, <2>1 DEF Handed, complete
<1>3. CASE op.kind = "fetch"
  <2> DEFINE r == results[op.rs]
             rows == Returned("io")
             value == [r EXCEPT !.rows = @ \o rows]
  <2>1. /\ op.rs \in 1..Len(results) /\ r \in Results /\ r.eof_received = FALSE
        /\ answers[r.req] = LastAnswer /\ Ordered(r.rows, LastAnswer) /\ r.rows \in Seq(Nat)
    BY <1>3, CallInProgress DEF Results
  <2>2. /\ rows \in Seq(Nat) /\ Ordered(rows, LastAnswer)
        /\ \A i \in 1..Len(r.rows), j \in 1..Len(rows) : r.rows[i] < rows[j]
    BY <1>3, ReturnedRows
  <2>3. results' = [results EXCEPT ![op.rs] = value]
    BY <1>3 DEF TransferError, HandOver
  <2> HIDE DEF r, rows
  <2>4. value.req = r.req /\ value.eof_received = FALSE /\ value.rows = r.rows \o rows
    BY <2>1 DEF Results
  <2>5. Ordered(value.rows, answers[value.req])
    BY <2>1, <2>2, <2>4, OrderedConcat
  <2> HIDE DEF value
  <2> QED BY <1>1, <2>3, <2>4, <2>5, HandedUpdate DEF r
<1> QED BY <1>2, <1>3

\* Reading a message of the own response.
LEMMA ReadingDelivers ==
  ASSUME TypeOK, LastRest, Handed, Rests, Progress, Reading, ~ReadForeign, ~ReadMismatch
  PROVE  Handed' /\ Progress'
<1>1. CASE ReadOk \/ ReadError \/ ReadBadHead \/ ReadFieldCount \/ ReadPrepared
  BY <1>1, HeadTaken
<1>2. CASE ReadField \/ ReadBadField \/ ReadMeta
  BY <1>2, DefinitionTaken
<1>3. CASE ReadRow \/ ReadEof \/ ReadBadRow \/ ReadRowError \/ ReadBadEof
  BY <1>3, RowTaken
<1> QED BY <1>1, <1>2, <1>3 DEF Reading

\* The user starts an operation, or has one that needs no message.
LEMMA UserDelivers ==
  ASSUME TypeOK, Handed, Rests, Progress, UserStep
  PROVE  Handed' /\ Progress'
<1>1. Handed'
  <2>1. UNCHANGED <<results, answers>>
    BY DEF UserStep, Query, Prepare, Execute, ExecuteWrongParams, CloseStatement, CloseFails, Fetch, FetchNothing
  <2> QED BY <2>1 DEF Handed, complete
<1>2. \A s \in 1..Len(statements) : statements[s].id \in Nat
  <2>1. \A s \in 1..Len(statements) : statements[s] \in [id : Nat]
    BY ElementOfSeq DEF TypeOK
  <2> QED BY <2>1
<1>3. CASE Query
  <2>1. Ready /\ WriteRequest("query", 0) /\ UNCHANGED <<results, toClient, answers>> /\ op'.kind = "head" /\ 0 \in Nat
    BY <1>3 DEF Query, Op
  <2> QED BY <1>1, <2>1, ProgressRequest
<1>4. CASE Prepare
  <2>1. Ready /\ WriteRequest("prepare", 0) /\ UNCHANGED <<results, toClient, answers>> /\ op'.kind = "prepare" /\ 0 \in Nat
    BY <1>4 DEF Prepare, Op
  <2> QED BY <1>1, <2>1, ProgressRequest
<1>5. ASSUME NEW s \in 1..Len(statements), Execute(s) PROVE Progress'
  BY <1>2, <1>5, ProgressRequest DEF Execute, Op
<1>6. ASSUME NEW s \in 1..Len(statements), CloseStatement(s) PROVE Progress'
  BY <1>2, <1>6, ProgressRequest DEF CloseStatement
<1>7. ASSUME UNCHANGED <<op, results, toServer, toClient, answers>> PROVE Progress'
  BY <1>7 DEF Progress, HeadExpected, DefinitionsExpected, Current, Fetched, Requested, Consumed, LastAnswer, complete
<1>8. ASSUME NEW s \in 1..Len(statements), ExecuteWrongParams(s) PROVE Progress'
  BY <1>7, <1>8 DEF ExecuteWrongParams
<1>9. ASSUME NEW rs \in 1..Len(results), NEW count \in Counts, NEW api \in Apis, Fetch(rs, count, api)
      PROVE  Progress'
  BY <1>9, CountsAssumption, ProgressFetch
<1>10. ASSUME NEW rs \in 1..Len(results), NEW count \in Counts, FetchNothing(rs, count) PROVE Progress'
  BY <1>7, <1>10 DEF FetchNothing
<1>11. ASSUME NEW s \in 1..Len(statements), CloseFails(s) PROVE Progress'
  BY <1>7, <1>11 DEF CloseFails
<1> QED BY <1>1, <1>3, <1>4, <1>5, <1>6, <1>8, <1>9, <1>10, <1>11 DEF UserStep

\* Delivery is inductive.
LEMMA DeliveryStep ==
  ASSUME TypeOK, Delivery, [Next]_vars
  PROVE  Delivery'
<1>1. Running' /\ LastRest' /\ (Lively' => Lively /\ Rests')
  BY RunningStep, LastRestStep, StillLively, RestsStep DEF Delivery
<1>2. op.kind # "idle" => Lively
  BY DEF Delivery, Running, Lively
<1> SUFFICES Handed' /\ (Lively' => Progress')
  BY <1>1 DEF Delivery
<1>3. Handed /\ LastRest /\ (Lively => Rests /\ Progress)
  BY DEF Delivery
<1>4. CASE UserStep
  <2>1. Usable \/ Ready
    BY <1>4 DEF UserStep, Query, Prepare, Execute, ExecuteWrongParams, CloseStatement, CloseFails, Fetch, FetchNothing
  <2>2. Lively
    BY <2>1 DEF Ready, Usable, Lively
  <2> QED BY <1>3, <1>4, <2>2, UserDelivers
<1>5. CASE Reading /\ ~ReadForeign /\ ~ReadMismatch
  <2>1. op.kind # "idle"
    BY <1>5 DEF Reading, ReadOk, ReadError, ReadBadHead, ReadFieldCount, ReadField, ReadBadField, ReadRow, ReadEof, ReadBadRow,
         ReadRowError, ReadBadEof, FailedEnd, ReadPrepared, ReadMeta
  <2> QED BY <1>2, <1>3, <1>5, <2>1, ReadingDelivers
<1>6. CASE ReadForeign \/ ReadMismatch
  <2>1. UNCHANGED <<results, answers>> /\ ~Lively'
    BY <1>6 DEF ReadForeign, ReadMismatch, Finish, Lively
  <2> QED BY <1>3, <2>1 DEF Handed, complete
<1>7. CASE TransferError
  <2>1. ~Lively'
    BY <1>7 DEF TransferError, Finish, Lively
  <2> QED BY <1>2, <1>3, <1>7, <2>1, TransferFails
<1>8. CASE Serve
  <2>1. Lively' => Lively
    BY <1>1
  <2> QED BY <1>3, <1>8, <2>1, HandedServe, ProgressServe
<1>9. CASE UNCHANGED vars
  <2>1. UNCHANGED <<op, results, toServer, toClient, answers>> /\ (Lively' => Lively)
    BY <1>1, <1>9 DEF vars, clientVars
  <2>2. Handed'
    BY <1>3, <2>1 DEF Handed, complete
  <2>3. Lively' => Progress'
    BY <1>3, <2>1
    DEF Progress, HeadExpected, DefinitionsExpected, Current, Fetched, Requested, Consumed, LastAnswer, complete
  <2> QED BY <2>2, <2>3
<1> QED BY <1>4, <1>5, <1>6, <1>7, <1>8, <1>9 DEF Next

\* Nothing has been asked and nothing is there.
LEMMA DeliveryInit == Init => Delivery
<1> SUFFICES ASSUME Init PROVE Delivery
  OBVIOUS
<1>1. /\ op.kind = "idle" /\ error = "none" /\ results = <<>> /\ toServer = <<>> /\ toClient = <<>> /\ answers = <<>>
      /\ Len(<<>>) = 0
  BY DEF Init, Idle, Op
<1>2. Running /\ LastRest /\ Handed
  BY <1>1 DEF Running, LastRest, Handed
<1>3. Rests
  BY <1>1 DEF Rests, ServerQueue, Sorted, FirstIsNext, OnlyRests, OwnRest, ResultsRest
<1>4. Progress
  BY <1>1 DEF Progress, HeadExpected, DefinitionsExpected, Current, Fetched
<1> QED BY <1>2, <1>3, <1>4 DEF Delivery

\* What a session delivers, always.
LEMMA AlwaysDelivers == Spec => []Delivery
BY DeliveryInit, DeliveryStep, TypeCorrect, PTL DEF Spec

-----------------------------------------------------------------------------
(* The theorems *)

\* However the fetches of a resultset are cut up and mixed, whatever fails, the
\* user gets rows of its response, in order and none twice, and all of them
\* when it is complete: for responses of any length, any counts, any width of
\* the sequence number.
THEOREM RowsArriveInOrder == Spec => []RowsInOrder
<1>1. TypeOK /\ Delivery => RowsInOrder
  <2> SUFFICES ASSUME TypeOK, Delivery, NEW rs \in 1..Len(results)
               PROVE  LET rows == results[rs].rows
                          kinds == answers[results[rs].req]
                      IN
                      /\ \A i \in 1..Len(rows) : rows[i] \in 1..Len(kinds) /\ kinds[rows[i]] = "row"
                      /\ \A i \in 1..(Len(rows) - 1) : rows[i] < rows[i + 1]
                      /\ complete(rs) /\ ~Contains(kinds, "bad_row") /\ ~Contains(kinds, "huge_row") =>
                           \A pos \in 1..Len(kinds) : kinds[pos] = "row" => \E i \in 1..Len(rows) : rows[i] = pos
    BY DEF RowsInOrder
  <2>1. /\ Ordered(results[rs].rows, answers[results[rs].req])
        /\ complete(rs) /\ Readable(answers[results[rs].req]) => AllRows(results[rs].rows, answers[results[rs].req])
    BY DEF Delivery, Handed
  <2>2. Len(results[rs].rows) \in Nat
    <3>1. results[rs] \in Results
      BY ElementOfSeq DEF TypeOK, Results
    <3> QED BY <3>1, LenProperties DEF Results
  <2>3. \A i \in 1..(Len(results[rs].rows) - 1) :
           i \in 1..Len(results[rs].rows) /\ i + 1 \in 1..Len(results[rs].rows) /\ i < i + 1
    BY <2>2
  <2> QED BY <2>1, <2>3 DEF Ordered, AllRows, Occurs, Readable
<1> QED BY <1>1, TypeCorrect, AlwaysDelivers, PTL

\* An operation waits for a message that will not come only if it fetches from
\* a resultset whose response ended in an error, or in an OK packet that does
\* not deserialize, and has been read: every other message an operation waits
\* for is in the channel or still to be sent.
THEOREM OnlyFailedEndsStarve == Spec => []StarvedOnlyAfterFailedEnd
<1>1. TypeOK /\ Delivery => StarvedOnlyAfterFailedEnd
  <2> SUFFICES ASSUME TypeOK, Delivery, op.kind # "idle", toServer = <<>>, toClient = <<>>
               PROVE  /\ op.kind = "fetch" /\ results[op.rs].failed
                      /\ LET kinds == answers[op.req] IN kinds[Len(kinds)] \in {"error", "bad_eof"}
    BY DEF StarvedOnlyAfterFailedEnd, Starved
  <2>1. Handed /\ Rests /\ Progress
    BY DEF Delivery, Running, Lively
  <2>2. ASSUME op.kind \in {"head", "prepare", "fields", "meta"} PROVE FALSE
    <3>1. answers # <<>>
      BY <2>1, <2>2 DEF Progress, HeadExpected, DefinitionsExpected
    <3>2. answers \in Seq(AnyResponse) /\ Len(answers) \in Nat \ {0}
      BY <3>1, LenProperties, EmptySeq DEF TypeOK, AnyResponse
    <3>3. LastAnswer \in AnyResponse
      BY <3>2, ElementOfSeq DEF LastAnswer
    <3>4. Consumed = Len(LastAnswer) /\ Len(LastAnswer) \in Nat /\ Definitions(LastAnswer) \in Nat
      <4>1. Len(<<>>) = 0
        OBVIOUS
      <4> QED BY <3>3, <4>1, Parts DEF Consumed
    <3>5. CASE op.kind \in {"head", "prepare"}
      <4>1. Consumed <= 0 /\ (QueryResponse(LastAnswer) \/ PrepareResponse(LastAnswer))
        BY <2>1, <3>5 DEF Progress, HeadExpected
      <4> QED BY <3>3, <3>4, <4>1, Parts
    <3>6. CASE op.kind \in {"fields", "meta"}
      <4>1. /\ op.left \in 1..Definitions(LastAnswer) /\ Consumed = Definitions(LastAnswer) + 1 - op.left
            /\ RowsResponse(LastAnswer) \/ (PrepareResponse(LastAnswer) /\ LastAnswer[1] = "prepared")
        BY <2>1, <3>6 DEF Progress, DefinitionsExpected
      <4>2. CASE RowsResponse(LastAnswer)
        <5>1. Len(LastAnswer) >= Definitions(LastAnswer) + 2
          BY <3>3, <4>2, Parts
        <5> QED BY <3>4, <4>1, <5>1
      <4>3. CASE PrepareResponse(LastAnswer) /\ LastAnswer[1] = "prepared"
        <5>1. Len(LastAnswer) = Definitions(LastAnswer) + 1
          BY <3>3, <4>3, Parts
        <5>2. op.left \in Nat \ {0} /\ Consumed = Definitions(LastAnswer) + 1 - op.left
          BY <3>4, <4>1
        <5> QED BY <3>4, <5>1, <5>2
      <4> QED BY <4>1, <4>2, <4>3
    <3> QED BY <2>2, <3>5, <3>6
  <2>3. op.kind = "fetch"
    BY <2>2 DEF TypeOK, Operation
  <2>4. /\ op.rs \in 1..Len(results) /\ results[op.rs].req = Requested /\ results[op.rs].failed
        /\ results[op.rs].eof_received = FALSE /\ answers[results[op.rs].req] = LastAnswer
    BY <2>1, <2>3, CallInProgress
  <2>5. LastAnswer[Len(LastAnswer)] \in {"error", "bad_eof"}
    BY <2>1, <2>4 DEF Progress, Current, complete
  <2>6. op.req = results[op.rs].req
    BY <2>1, <2>3 DEF Progress, Fetched
  <2> QED BY <2>3, <2>4, <2>5, <2>6
<1> QED BY <1>1, TypeCorrect, AlwaysDelivers, PTL

\* fetch_many completes its resultset exactly when it returns fewer rows than
\* it was asked for, unless it fails.
THEOREM FetchManyKeepsContract == Spec => FetchManyContract
<1> DEFINE Contract ==
      op.kind = "fetch" /\ op'.kind = "idle" /\ error' = "none" =>
        (results'[op.rs].eof_received
           <=> Len(results'[op.rs].rows) - Len(results[op.rs].rows) < op.left + Len(op.got))
<1>1. TypeOK /\ Delivery /\ [Next]_vars => [Contract]_vars
  <2> SUFFICES ASSUME TypeOK, Delivery, Next, op.kind = "fetch", op'.kind = "idle", error' = "none"
               PROVE  results'[op.rs].eof_received
                        <=> Len(results'[op.rs].rows) - Len(results[op.rs].rows) < op.left + Len(op.got)
    OBVIOUS
  <2> DEFINE r == results[op.rs]
  <2>1. Handed /\ Rests /\ Progress
    BY DEF Delivery, Running, Lively
  <2>2. /\ op.rs \in 1..Len(results) /\ r \in Results /\ r.eof_received = FALSE
        /\ op.left \in Nat \ {0} /\ op.got \in Seq(Nat)
    BY <2>1, CallInProgress
  <2>3. r.rows \in Seq(Nat) /\ Len(r.rows) \in Nat /\ Len(op.got) \in Nat
    BY <2>2, LenProperties DEF Results
  <2> HIDE DEF r
  <2>4. ReadRow \/ ReadEof
    <3>1. ~UserStep
      BY DEF UserStep, Query, Prepare, Execute, ExecuteWrongParams, CloseStatement, CloseFails, Fetch, FetchNothing, Ready, Usable
    <3>2. ~Serve
      BY DEF Serve, Respond, clientVars
    <3>3. ~TransferError /\ ~ReadForeign /\ ~ReadMismatch /\ ~ReadBadRow /\ ~ReadRowError /\ ~ReadBadEof
      BY DEF TransferError, ReadForeign, ReadMismatch, ReadBadRow, ReadRowError, ReadBadEof, FailedEnd, Finish
    <3>4. ~ReadOk /\ ~ReadError /\ ~ReadBadHead /\ ~ReadFieldCount /\ ~ReadField /\ ~ReadBadField /\ ~ReadPrepared /\ ~ReadMeta
      BY DEF ReadOk, ReadError, ReadBadHead, ReadFieldCount, ReadField, ReadBadField, ReadPrepared, ReadMeta
    <3> QED BY <3>1, <3>2, <3>3, <3>4 DEF Next, Reading
  <2>5. ASSUME NEW rows \in Seq(Nat), NEW value, results' = [results EXCEPT ![op.rs] = value], value.rows = r.rows \o rows
        PROVE  results'[op.rs] = value /\ Len(results'[op.rs].rows) - Len(r.rows) = Len(rows)
    <3>1. results \in Seq(Results)
      BY DEF TypeOK, Results
    <3>2. results'[op.rs] = value
      BY <2>2, <2>5, <3>1
    <3>3. Len(r.rows \o rows) = Len(r.rows) + Len(rows) /\ Len(rows) \in Nat
      BY <2>3, ConcatProperties, LenProperties
    <3>4. results'[op.rs].rows = r.rows \o rows
      BY <2>5, <3>2
    <3>5. Len(results'[op.rs].rows) = Len(r.rows) + Len(rows)
      BY <3>3, <3>4
    <3> QED BY <2>3, <3>2, <3>3, <3>5
  <2>6. CASE ReadRow
    <3> DEFINE got == Append(op.got, Head(toClient).pos)
               value == [r EXCEPT !.rows = @ \o got]
    <3>1. Head(toClient).pos \in Nat
      BY <2>6, AcceptedType DEF ReadRow, ServerMessages
    <3>2. got \in Seq(Nat) /\ Len(got) = Len(op.got) + 1
      BY <2>2, <3>1, AppendProperties
    <3>3. \/ op.left > 1 /\ op' = [op EXCEPT !.left = @ - 1, !.got = got]
          \/ ~(op.left > 1) /\ HandOver(got)
      BY <2>6 DEF ReadRow
    <3> HIDE DEF got
    <3>4. op' # [op EXCEPT !.left = @ - 1, !.got = got]
      BY DEF TypeOK, Operation
    <3>5. op.left = 1 /\ results' = [results EXCEPT ![op.rs] = value]
      BY <2>2, <3>3, <3>4 DEF HandOver, r
    <3>6. value.rows = r.rows \o got /\ value.eof_received = FALSE
      BY <2>2 DEF Results
    <3> HIDE DEF value
    <3>7. results'[op.rs] = value /\ Len(results'[op.rs].rows) - Len(r.rows) = Len(got)
      BY <2>5, <3>2, <3>5, <3>6
    <3>8. results'[op.rs].eof_received = FALSE /\ Len(got) = op.left + Len(op.got)
      BY <2>3, <3>2, <3>5, <3>6, <3>7
    <3>9. ~(Len(got) < op.left + Len(op.got))
      BY <2>2, <2>3, <3>8
    <3> QED BY <3>7, <3>8, <3>9 DEF r
  <2>7. CASE ReadEof
    <3> DEFINE value == [r EXCEPT !.rows = @ \o op.got, !.eof_received = TRUE]
    <3>1. results' = [results EXCEPT ![op.rs] = value]
      BY <2>7 DEF ReadEof, r
    <3>2. value.rows = r.rows \o op.got /\ value.eof_received = TRUE
      BY <2>2 DEF Results
    <3> HIDE DEF value
    <3>3. results'[op.rs] = value /\ Len(results'[op.rs].rows) - Len(r.rows) = Len(op.got)
      BY <2>2, <2>5, <3>1, <3>2
    <3>4. results'[op.rs].eof_received = TRUE
      BY <3>2, <3>3
    <3>5. Len(op.got) < op.left + Len(op.got)
      BY <2>2, <2>3
    <3> QED BY <3>3, <3>4, <3>5 DEF r
  <2> QED BY <2>4, <2>6, <2>7
<1> QED BY <1>1, TypeCorrect, AlwaysDelivers, PTL DEF Spec, FetchManyContract
=============================================================================
