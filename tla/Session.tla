------------------------------- MODULE Session -------------------------------
(***************************************************************************)
(* The command phase: queries, prepared statements and resultsets sharing  *)
(* one channel (impl/connection.hpp, impl/prepared_statement.hpp,          *)
(* impl/resultset.hpp and the network algorithms behind them).             *)
(*                                                                         *)
(* A step is one message, as channel::read and channel::write hand them    *)
(* over; MessageChannel and Channel say why that is sound.  A message of   *)
(* the server is known by the exchange it belongs to, its position there   *)
(* and what its bytes turn out to be when they are deserialized.  The      *)
(* sequence number it carries is its position modulo SeqMod.               *)
(*                                                                         *)
(* The user does what the documentation of connection asks for: operations *)
(* one at a time, and every resultset read until it is complete or has     *)
(* failed at its last message.                                             *)
(***************************************************************************)
EXTENDS Naturals, Sequences, FiniteSets

CONSTANTS
  SeqMod,       \* values of the sequence number, 256 in the code
  Responses,    \* the responses to a query, as sequences of kinds of messages
  Preparations, \* the responses to a prepare request
  Counts,       \* the row counts given to fetch_many
  All,          \* the count fetch_all uses: more rows than there can be
  MaxRequests   \* bound on the requests of a behaviour

ASSUME SeqModAssumption == SeqMod \in Nat \ {0}

\* What the bytes of a message are: an OK packet, an error packet, the number
\* of fields to come, a field definition, a row, the OK packet that ends the
\* rows (header 0xfe), the answer to a prepare request, its metadata.  "bad"
\* ones do not deserialize (a head is the first message of a response); a
\* "huge" row starts with 0xfe, the prefix of a string of 2^24 bytes or more.
Kinds == {"ok", "error", "bad_head", "count", "field", "bad_field", "row", "bad_row", "huge_row",
          "eof", "bad_eof", "prepared", "meta"}

ASSUME ResponsesAssumption == Responses \subseteq Seq(Kinds) /\ Preparations \subseteq Seq(Kinds)
ASSUME CountsAssumption == Counts \subseteq Nat /\ All \in Nat

\* The number of definitions in a response.
Definitions(kinds) == Cardinality({i \in 1..Len(kinds) : kinds[i] \in {"field", "bad_field", "meta"}})

\* The responses to a query: an OK or an error packet, or the fields and then
\* the rows, ended by an OK or an error packet ...
RowsResponse(kinds) ==
  LET n == Definitions(kinds) IN
  /\ n > 0 /\ n + 2 <= Len(kinds) /\ kinds[1] \in {"count", "bad_head"}
  /\ \A i \in 2..(n + 1) : kinds[i] \in {"field", "bad_field"}
  /\ \A i \in (n + 2)..(Len(kinds) - 1) : kinds[i] \in {"row", "bad_row", "huge_row"}
  /\ kinds[Len(kinds)] \in {"eof", "bad_eof", "error"}
QueryResponse(kinds) == kinds \in {<<"ok">>, <<"error">>, <<"bad_head">>} \/ RowsResponse(kinds)

\* ... and to a prepare request an error packet, or the answer and its metadata.
PrepareResponse(kinds) ==
  \/ kinds = <<"error">>
  \/ /\ Len(kinds) = Definitions(kinds) + 1 /\ kinds[1] \in {"prepared", "bad_head"}
     /\ \A i \in 2..Len(kinds) : kinds[i] = "meta"

ASSUME GrammarAssumption ==
  /\ \A kinds \in Responses : QueryResponse(kinds)
  /\ \A kinds \in Preparations : PrepareResponse(kinds)

Contains(kinds, k) == \E i \in 1..Len(kinds) : kinds[i] = k

\* A response whose end the client does not get to see: a head or a field
\* definition that does not deserialize, or a row taken for the end of the rows,
\* before other messages.
Abandoned(kinds) ==
  \E i \in 1..(Len(kinds) - 1) : kinds[i] \in {"bad_head", "bad_field", "huge_row"}

Apis == {"error_code", "exceptions", "async"}   \* the three overloads of everything

VARIABLES
  sequence_number,  \* channel::sequence_number_
  op,               \* the operation in progress
  error,            \* the error code of the last operation
  results,          \* the resultset objects
  statements,       \* the prepared_statement objects
  toServer,         \* requests on their way to the server
  toClient,         \* messages on their way to the client
  answers,          \* the responses the server has given, by request
  prepared,         \* the statements the server knows: their requests
  foreign           \* positions of messages taken for the answer to another request

clientVars == <<sequence_number, op, error, results, statements, foreign>>
vars == <<clientVars, toServer, toClient, answers, prepared>>

(* Mutations, here and below, are what a bug would make of the definition
   that follows them; no behaviour of the module uses them. *)
NextSeqNoWrap(s) == s + 1

NextSeq(s) == (s + 1) % SeqMod

\* An operation: the request it reads the answer to, the resultset it fills,
\* how many messages or rows it still wants and the rows it has got.
Op(kind, req, rs, left, api) ==
  [kind |-> kind, req |-> req, rs |-> rs, left |-> left, api |-> api, got |-> <<>>]
Idle == Op("idle", 0, 0, 0, "error_code")

NeverComplete(req, complete) ==
  [req |-> req, eof_received |-> FALSE, rows |-> <<>>, failed |-> FALSE]

\* A resultset: its request, eof_received_, the rows handed to the user (by
\* position), and whether its last message was read without completing it: an
\* error, or an OK packet that does not deserialize.
Resultset(req, complete) ==
  [req |-> req, eof_received |-> complete, rows |-> <<>>, failed |-> FALSE]

complete(rs) == results[rs].eof_received

Init ==
  /\ sequence_number = 0 /\ op = Idle /\ error = "none"
  /\ results = <<>> /\ statements = <<>>
  /\ toServer = <<>> /\ toClient = <<>>
  /\ answers = <<>> /\ prepared = {} /\ foreign = {}

-----------------------------------------------------------------------------
(* The user starts an operation *)

Usable == op.kind = "idle" /\ error \notin {"io", "mismatch", "undefined"}
Ready == Usable /\ \A rs \in 1..Len(results) : complete(rs) \/ results[rs].failed

Requested == Len(answers) + Len(toServer)

WriteWithoutReset(kind, stmt) ==
  /\ Requested < MaxRequests
  /\ toServer' = Append(toServer, [kind |-> kind, stmt |-> stmt])
  /\ sequence_number' = NextSeq(sequence_number)
  /\ error' = "none"

\* process_request or process_request of a prepare: serialize, reset the
\* sequence number and write.  Until the answer comes the client only waits.
WriteRequest(kind, stmt) ==
  /\ Requested < MaxRequests
  /\ toServer' = Append(toServer, [kind |-> kind, stmt |-> stmt])
  /\ sequence_number' = NextSeq(0)
  /\ error' = "none"

Query ==
  /\ Ready /\ WriteRequest("query", 0)
  /\ op' = Op("head", Requested + 1, 0, 0, "error_code")
  /\ UNCHANGED <<results, statements, foreign, toClient, answers, prepared>>

Prepare ==
  /\ Ready /\ WriteRequest("prepare", 0)
  /\ op' = Op("prepare", Requested + 1, 0, 0, "error_code")
  /\ UNCHANGED <<results, statements, foreign, toClient, answers, prepared>>

\* check_num_params comes first and needs no network.
Execute(s) ==
  /\ Ready /\ WriteRequest("execute", statements[s].id)
  /\ op' = Op("head", Requested + 1, 0, 0, "error_code")
  /\ UNCHANGED <<results, statements, foreign, toClient, answers, prepared>>

ExecuteWrongParams(s) ==
  /\ Ready /\ s \in 1..Len(statements)
  /\ error' = "wrong_num_params"
  /\ UNCHANGED <<sequence_number, op, results, statements, foreign,
                 toServer, toClient, answers, prepared>>

\* close_statement writes a request that has no answer.
CloseStatement(s) ==
  /\ Ready /\ WriteRequest("close", statements[s].id)
  /\ UNCHANGED <<op, results, statements, foreign, toClient, answers, prepared>>

\* The write fails.
CloseFails(s) ==
  /\ Ready /\ s \in 1..Len(statements)
  /\ sequence_number' = NextSeq(0) /\ error' = "io"
  /\ UNCHANGED <<op, results, statements, foreign, toServer, toClient, answers, prepared>>

\* fetch_one is fetch_many of one row, fetch_all of All rows.  The user may ask
\* again after an error, as long as no other request has been made.
Fetch(rs, count, api) ==
  /\ Usable /\ ~complete(rs) /\ count > 0
  /\ results[rs].req = Requested
  /\ op' = Op("fetch", results[rs].req, rs, count, api)
  /\ error' = "none"
  /\ UNCHANGED <<sequence_number, results, statements, foreign,
                 toServer, toClient, answers, prepared>>

\* Nothing to read: no transfer takes place.
FetchNothing(rs, count) ==
  /\ Usable /\ (complete(rs) \/ count = 0)
  /\ error' = "none"
  /\ UNCHANGED <<sequence_number, op, results, statements, foreign,
                 toServer, toClient, answers, prepared>>

-----------------------------------------------------------------------------
(* An operation reads a message *)

Finish(e) == op' = Idle /\ error' = e

\* channel::read accepts the next message by its sequence number alone.
Accepted(kind) ==
  /\ toClient # <<>>
  /\ Head(toClient).pos % SeqMod = sequence_number
  /\ Head(toClient).req = op.req
  /\ Head(toClient).kind = kind
  /\ sequence_number' = NextSeq(sequence_number)
  /\ toClient' = Tail(toClient)
  /\ UNCHANGED <<foreign, toServer, answers, prepared>>

\* process_response.
ReadOk ==
  /\ op.kind = "head" /\ Accepted("ok")
  /\ results' = Append(results, Resultset(op.req, TRUE))
  /\ Finish("none")
  /\ UNCHANGED statements

ReadError ==
  /\ op.kind \in {"head", "prepare"} /\ Accepted("error")
  /\ Finish("server")
  /\ UNCHANGED <<results, statements>>

\* An answer that is none of these, or does not deserialize; what follows it is
\* left unread.
ReadBadHead ==
  /\ op.kind \in {"head", "prepare"} /\ Accepted("bad_head")
  /\ Finish("decode")
  /\ UNCHANGED <<results, statements>>

ReadFieldCount ==
  /\ op.kind = "head" /\ Accepted("count")
  /\ op' = [op EXCEPT !.kind = "fields", !.left = Head(toClient).n]
  /\ UNCHANGED <<error, results, statements>>

OneFieldTooMany ==
  /\ op.kind = "fields" /\ Accepted("field")
  /\ IF op.left > 0
       THEN op' = [op EXCEPT !.left = @ - 1] /\ UNCHANGED <<error, results>>
       ELSE Finish("none") /\ results' = Append(results, Resultset(op.req, FALSE))
  /\ UNCHANGED statements

\* process_field_definition, for each of them; then create_resultset.
ReadField ==
  /\ op.kind = "fields" /\ Accepted("field")
  /\ IF op.left > 1
       THEN op' = [op EXCEPT !.left = @ - 1] /\ UNCHANGED <<error, results>>
       ELSE Finish("none") /\ results' = Append(results, Resultset(op.req, FALSE))
  /\ UNCHANGED statements

\* The operation fails with the rest of the response unread and no resultset
\* to read it through.
ReadBadField ==
  /\ op.kind = "fields" /\ Accepted("bad_field")
  /\ Finish("decode")
  /\ UNCHANGED <<results, statements>>

\* The user gets the rows of a call when it returns; the overload that throws
\* has nothing to return them with.
HandOver(rows) ==
  results' = [results EXCEPT ![op.rs].rows = @ \o rows]

Returned(e) == IF op.api = "exceptions" /\ e # "none" THEN <<>> ELSE op.got

OneRowTooFew ==
  /\ op.kind = "fetch" /\ Accepted("row")
  /\ LET got == Append(op.got, Head(toClient).pos) IN
     IF op.left > 2
       THEN op' = [op EXCEPT !.left = @ - 1, !.got = got] /\ UNCHANGED <<error, results>>
       ELSE Finish("none") /\ HandOver(got)
  /\ UNCHANGED statements
EofDropsRows ==
  /\ op.kind = "fetch"
  /\ Accepted("eof") \/ Accepted("huge_row")
  /\ Finish("none")
  /\ results' = [results EXCEPT ![op.rs].eof_received = TRUE]
  /\ UNCHANGED statements
GiveUpAfterBadRow ==
  /\ op.kind = "fetch"
  /\ Accepted("bad_row") \/ Accepted("huge_row")
  /\ Finish("decode")
  /\ results' = [results EXCEPT ![op.rs].rows = @ \o Returned("decode"), ![op.rs].failed = TRUE]
  /\ UNCHANGED statements

\* process_read_message and the loop of fetch_many.
ReadRow ==
  /\ op.kind = "fetch" /\ Accepted("row")
  /\ LET got == Append(op.got, Head(toClient).pos) IN
     IF op.left > 1
       THEN op' = [op EXCEPT !.left = @ - 1, !.got = got] /\ UNCHANGED <<error, results>>
       ELSE Finish("none") /\ HandOver(got)
  /\ UNCHANGED statements

ReadEof ==
  /\ op.kind = "fetch"
  /\ Accepted("eof") \/ Accepted("huge_row")
  /\ Finish("none")
  /\ results' = [results EXCEPT ![op.rs].rows = @ \o op.got, ![op.rs].eof_received = TRUE]
  /\ UNCHANGED statements

ReadBadRow ==
  /\ op.kind = "fetch"
  /\ Accepted("bad_row") \/ Accepted("huge_row")
  /\ Finish("decode")
  /\ HandOver(Returned("decode"))
  /\ UNCHANGED statements

\* The last message is an error, or the OK packet does not deserialize: the
\* resultset is not complete, although nothing more will come.
FailedEnd(e) ==
  /\ Finish(e)
  /\ results' = [results EXCEPT ![op.rs].rows = @ \o Returned(e), ![op.rs].failed = TRUE]
  /\ UNCHANGED statements

ReadRowError == op.kind = "fetch" /\ Accepted("error") /\ FailedEnd("server")

ReadBadEof == op.kind = "fetch" /\ Accepted("bad_eof") /\ FailedEnd("decode")

\* prepare_statement: the answer, then the metadata, which is ignored.
NewStatement(id) == statements' = Append(statements, [id |-> id])

ReadPrepared ==
  /\ op.kind = "prepare" /\ Accepted("prepared")
  /\ IF Head(toClient).n > 0
       THEN op' = [op EXCEPT !.kind = "meta", !.left = Head(toClient).n] /\ UNCHANGED <<error, statements>>
       ELSE Finish("none") /\ NewStatement(Head(toClient).req)
  /\ UNCHANGED results

ReadMeta ==
  /\ op.kind = "meta" /\ Accepted("meta")
  /\ IF op.left > 1
       THEN op' = [op EXCEPT !.left = @ - 1] /\ UNCHANGED <<error, statements>>
       ELSE Finish("none") /\ NewStatement(op.req)
  /\ UNCHANGED results

\* What is left of another response is refused if its number is not the one
\* expected ...
ReadMismatch ==
  /\ op.kind # "idle" /\ toClient # <<>>
  /\ Head(toClient).pos % SeqMod # sequence_number
  /\ Finish("mismatch")
  /\ UNCHANGED <<sequence_number, results, statements, foreign,
                 toServer, toClient, answers, prepared>>

NumberIgnored ==
  /\ op.kind # "idle" /\ toClient # <<>>
  /\ Head(toClient).req # op.req
  /\ Finish("undefined")
  /\ foreign' = foreign \cup {Head(toClient).pos}
  /\ UNCHANGED <<sequence_number, results, statements, toServer, toClient, answers, prepared>>

\* ... and otherwise taken for the answer.  What happens then depends on its
\* bytes, and the model does not follow it.
ReadForeign ==
  /\ op.kind # "idle" /\ toClient # <<>>
  /\ Head(toClient).pos % SeqMod = sequence_number
  /\ Head(toClient).req # op.req
  /\ Finish("undefined")
  /\ foreign' = foreign \cup {Head(toClient).pos}
  /\ UNCHANGED <<sequence_number, results, statements, toServer, toClient, answers, prepared>>

TransferError ==
  /\ op.kind # "idle"
  /\ Finish("io")
  /\ IF op.kind = "fetch" THEN HandOver(Returned("io")) ELSE UNCHANGED results
  /\ UNCHANGED <<sequence_number, statements, foreign, toServer, toClient, answers, prepared>>

-----------------------------------------------------------------------------
(* The server *)

\* The messages of a response: its kinds, numbered from 1; the number "n" that
\* a count or a prepare answer announces is the number of definitions.
Messages(req, kinds) ==
  [i \in 1..Len(kinds) |->
     [req |-> req, pos |-> i, kind |-> kinds[i], n |-> Definitions(kinds)]]

Respond(kinds) ==
  /\ toServer' = Tail(toServer)
  /\ toClient' = toClient \o Messages(Len(answers) + 1, kinds)
  /\ answers' = Append(answers, kinds)
  /\ UNCHANGED clientVars

Serve ==
  /\ toServer # <<>>
  /\ LET r == Head(toServer) IN
     \/ /\ r.kind = "query"
        /\ \E kinds \in Responses : Respond(kinds)
        /\ UNCHANGED prepared
     \/ /\ r.kind = "execute"
        /\ IF r.stmt \in prepared THEN \E kinds \in Responses : Respond(kinds)
                                  ELSE Respond(<<"error">>)
        /\ UNCHANGED prepared
     \/ /\ r.kind = "prepare"
        /\ \E kinds \in Preparations :
             /\ Respond(kinds)
             /\ prepared' = IF kinds[1] # "error" THEN prepared \cup {Len(answers) + 1} ELSE prepared
     \/ /\ r.kind = "close"
        /\ Respond(<<>>)
        /\ prepared' = prepared \ {r.stmt}

-----------------------------------------------------------------------------
UserStep ==
  \/ Query \/ Prepare
  \/ \E s \in 1..Len(statements) : Execute(s) \/ ExecuteWrongParams(s) \/ CloseStatement(s) \/ CloseFails(s)
  \/ \E rs \in 1..Len(results), count \in Counts :
       (\E api \in Apis : Fetch(rs, count, api)) \/ FetchNothing(rs, count)

Reading ==
  \/ ReadOk \/ ReadError \/ ReadBadHead \/ ReadFieldCount \/ ReadField \/ ReadBadField
  \/ ReadRow \/ ReadEof \/ ReadBadRow \/ ReadRowError \/ ReadBadEof
  \/ ReadPrepared \/ ReadMeta
  \/ ReadForeign \/ ReadMismatch

Next == UserStep \/ Reading \/ TransferError \/ Serve

Spec == Init /\ [][Next]_vars

\* The handlers of a started operation run and the server answers; no user has
\* to do anything and nothing has to fail.
FairSpec == Spec /\ WF_vars(Reading) /\ WF_vars(Serve)

-----------------------------------------------------------------------------
(* Properties *)

Operation ==
  [kind : {"idle", "head", "fields", "fetch", "prepare", "meta"}, req : Nat, rs : Nat,
   left : Nat, api : Apis, got : Seq(Nat)]

TypeOK ==
  /\ sequence_number \in 0..(SeqMod - 1)
  /\ op \in Operation
  /\ error \in {"none", "server", "decode", "mismatch", "undefined", "io", "wrong_num_params"}
  /\ results \in Seq([req : Nat, eof_received : BOOLEAN, rows : Seq(Nat), failed : BOOLEAN])
  /\ statements \in Seq([id : Nat])
  /\ toServer \in Seq([kind : {"query", "execute", "prepare", "close"}, stmt : Nat])
  /\ toClient \in Seq([req : Nat, pos : Nat, kind : Kinds, n : Nat])
  /\ answers \in Seq(Responses \cup Preparations \cup {<<>>, <<"error">>})
  /\ prepared \in SUBSET Nat /\ foreign \in SUBSET Nat

\* Whenever the user may start a request, after whatever errors, nothing of an
\* earlier response is left in the channel, unless one was abandoned.
InStep ==
  Ready /\ toClient # <<>> => \E req \in 1..Len(answers) : Abandoned(answers[req])

\* channel::read reports a mismatch only for what an abandoned response left.
MismatchOnlyAfterAbandon ==
  error = "mismatch" => \E req \in 1..Len(answers) : Abandoned(answers[req])

\* The sequence number keeps what was left of one response from being taken
\* for the answer to another request, as long as the response is not so long
\* that the one-byte number wraps around.
MisreadOnlyAfterWrap == \A pos \in foreign : pos > SeqMod

\* However the fetches of a resultset are cut up and mixed, the user gets rows
\* of its own response, in order and none twice; and all of them once it is
\* complete, unless a row could not be deserialized.
RowsInOrder ==
  \A rs \in 1..Len(results) :
    LET rows == results[rs].rows
        kinds == answers[results[rs].req]
    IN
    /\ \A i \in 1..Len(rows) : rows[i] \in 1..Len(kinds) /\ kinds[rows[i]] = "row"
    /\ \A i \in 1..(Len(rows) - 1) : rows[i] < rows[i + 1]
    /\ complete(rs) /\ ~Contains(kinds, "bad_row") /\ ~Contains(kinds, "huge_row") =>
         \A pos \in 1..Len(kinds) : kinds[pos] = "row" => \E i \in 1..Len(rows) : rows[i] = pos

\* fetch_many: "Only if count is greater than the available number of rows, the
\* resultset will be completed."
FetchManyContract ==
  [][op.kind = "fetch" /\ op'.kind = "idle" /\ error' = "none" =>
       (results'[op.rs].eof_received
          <=> Len(results'[op.rs].rows) - Len(results[op.rs].rows) < op.left + Len(op.got))]_vars

\* fetch_all: "The resultset is guaranteed to be complete() after this call
\* returns."  An error of the server is enough to break it; what is fetched next
\* starves.
FetchAllCompletes ==
  [][op.kind = "fetch" /\ op.left + Len(op.got) = All /\ op'.kind = "idle" /\ error' \in {"none", "server"} =>
       results'[op.rs].eof_received]_vars

\* An operation waits for a message that will never come only if the user has
\* gone on fetching from a resultset whose last message, an error or an OK packet
\* that does not deserialize, has been read and was reported as an error.
Starved == op.kind # "idle" /\ toServer = <<>> /\ toClient = <<>>
StarvedOnlyAfterFailedEnd ==
  Starved =>
    /\ op.kind = "fetch" /\ results[op.rs].failed
    /\ LET kinds == answers[op.req] IN kinds[Len(kinds)] \in {"error", "bad_eof"}

\* Every other operation returns.
OperationsReturn == op.kind # "idle" ~> (op.kind = "idle" \/ Starved)

\* A complete resultset: "all data has already been retrieved".
AllDataRetrieved ==
  \A rs \in 1..Len(results) : complete(rs) =>
    \A i \in 1..Len(toClient) : toClient[i].req # results[rs].req
=============================================================================
