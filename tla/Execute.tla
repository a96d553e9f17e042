------------------------------- MODULE Execute -------------------------------
(***************************************************************************)
(* The requests about queries and statements as bytes: com_query,          *)
(* com_stmt_prepare and its answer, com_stmt_execute with its parameters,  *)
(* com_stmt_close and com_quit.                                            *)
(*                                                                         *)
(* The size of an execute message is computed first, then the buffer gets  *)
(* that size and the parts are written one after the other without any     *)
(* further check.  Values are those of module Values.  Both the size and   *)
(* the parts assert that there are at most 255 parameters: a build with    *)
(* assertions aborts on more, a build without them sends the message.      *)
(***************************************************************************)
EXTENDS Messages, Values

CONSTANTS
  Texts,          \* of queries and statements
  Answers,        \* what the server may answer to com_stmt_prepare, see Answer
  ParamLists      \* what the user may pass: sequences of values

VARIABLES
  answer,         \* of the server to the last com_stmt_prepare
  stmt_msg_,      \* of the statement prepared last, or Invalid
  request,        \* what the user asked for
  params,         \* params_begin .. params_end of the execution
  buffer,         \* the message being written: execute_processor::buffer_, or the
                  \* channel's shared buffer
  first,          \* the position of the serialization_context in it
  pc,             \* the part of the message written next
  index,          \* the parameters done in that part
  result          \* the error of the last operation, and its text

\* The kinds of value that the variant of value.hpp holds, and the numbers in each
\* (bytes in a string).
NumbersIn ==
  [null |-> 0, int64 |-> 1, uint64 |-> 1, float |-> 2, double |-> 2, date |-> 3, datetime |-> 7, time |-> 2]
IsValue(value) ==
  /\ value.kind \in DOMAIN NumbersIn \cup {"string"}
  /\ value.v \in Seq(Int)
  /\ value.kind # "string" => Len(value.v) = NumbersIn[value.kind]

\* The user passes a sequence of such values.
ASSUME ParamAssumption ==
  \A list \in ParamLists :
    list \in Seq(Range(list)) /\ \A i \in DOMAIN list : IsValue(list[i])

statementVars == <<answer, stmt_msg_>>
executionVars == <<params, first, index>>
vars == <<statementVars, request, buffer, pc, executionVars, result>>

-----------------------------------------------------------------------------
(* Values *)

get_binary_value_size(value) ==
  CASE value.kind \in {"int64", "uint64", "double"} -> 8
    [] value.kind = "float"    -> 4
    [] value.kind = "string"   -> get_size_lenenc(Len(value.v)) + Len(value.v)
    [] value.kind = "date"     -> 5
    [] value.kind = "datetime" -> 12
    [] value.kind = "time"     -> 13
    [] value.kind = "null"     -> 0

serialize_binary_ymd(v) == LittleEndian(v[1], 2) \o SubSeq(v, 2, 3)

\* A time is its seconds and its microseconds, both with its sign.
TimeSignOfSeconds(v) ==
  LET s == Abs(v[1]) IN
  <<12, IF v[1] < 0 THEN 1 ELSE 0>> \o LittleEndian(s \div 86400, 4)
    \o <<(s \div 3600) % 24, (s \div 60) % 60, s % 60>> \o LittleEndian(Abs(v[2]), 4)
serialize_time(v) ==
  LET s == Abs(v[1]) IN
  <<12, IF v[1] < 0 \/ v[2] < 0 THEN 1 ELSE 0>> \o LittleEndian(s \div 86400, 4)
    \o <<(s \div 3600) % 24, (s \div 60) % 60, s % 60>> \o LittleEndian(Abs(v[2]), 4)

serialize_binary_value(value) ==
  LET v == value.v IN
  CASE value.kind \in {"int64", "uint64"} -> LittleEndian(v[1], 8)
    [] value.kind = "float"    -> FloatBytes(float, v)
    [] value.kind = "double"   -> FloatBytes(double, v)
    [] value.kind = "string"   -> serialize_string_lenenc(v)
    [] value.kind = "date"     -> <<4>> \o serialize_binary_ymd(v)
    [] value.kind = "datetime" -> <<11>> \o serialize_binary_ymd(v) \o SubSeq(v, 4, 6) \o LittleEndian(v[7], 4)
    [] value.kind = "time"     -> serialize_time(v)
    [] value.kind = "null"     -> <<>>

get_protocol_field_type(value) ==
  LET type == [int64 |-> "longlong", uint64 |-> "longlong", string |-> "varchar", float |-> "float_",
               double |-> "double_", date |-> "date", datetime |-> "datetime", time |-> "time", null |-> "null"]
  IN protocol_field_type[type[value.kind]]
is_unsigned(value) == value.kind = "uint64"

-----------------------------------------------------------------------------
(* The messages *)

\* The members of com_stmt_execute_packet before the NULL bitmap.
com_stmt_execute == <<23>>
com_stmt_execute_packet == <<int("statement_id", 4), int("flags", 1), int("iteration_count", 4)>>
com_stmt_execute_param_meta_packet == <<enumeration("type", 1), int("unsigned_flag", 1)>>

make_stmt_execute_packet(statement_id) ==
  [statement_id |-> statement_id, flags |-> 0, iteration_count |-> 1]

BitmapSize == byte_count(stmt_execute_null_bitmap_offset, Len(params))

\* The bind flag is the byte after the bitmap.
get_size(message, values) ==
  get_size_struct(com_stmt_execute, com_stmt_execute_packet, message)
    + byte_count(stmt_execute_null_bitmap_offset, Len(values)) + 1
    + Sum([i \in 1..2 |-> com_stmt_execute_param_meta_packet[i].size]) * Len(values)
    + Sum([i \in DOMAIN values |-> get_binary_value_size(values[i])])

\* memcpy to the current position of the context, which then advances.
Write(bytes) ==
  /\ buffer' = [i \in DOMAIN buffer |->
       IF i \in (first + 1)..(first + Len(bytes)) THEN bytes[i - first] ELSE buffer[i]]
  /\ first' = first + Len(bytes)

\* set_null for each parameter that is NULL.
WithNulls(bitmap) ==
  FoldLeft(LAMBDA bits, i :
             IF params[i] = NULL THEN set_null(bits, stmt_execute_null_bitmap_offset, i - 1) ELSE bits,
           bitmap, [i \in DOMAIN params |-> i])

Invalid == <<>>
NoError == Reported(errc.ok, <<>>)
Asked(kind, statement, text) == [kind |-> kind, statement |-> statement, text |-> text]
NoRequest == Asked("none", 0, <<>>)
NoAnswer == [kind |-> "none"]

Init ==
  /\ answer = NoAnswer /\ stmt_msg_ = Invalid /\ request = NoRequest
  /\ params = <<>> /\ buffer = <<>> /\ first = 0
  /\ pc = "idle" /\ index = 0 /\ result = NoError

-----------------------------------------------------------------------------
(* Requests without parameters *)

Request(kind, statement, text, command, fields, message, next) ==
  /\ pc = "idle"
  /\ request' = Asked(kind, statement, text)
  /\ buffer' = serialize_message(command, fields, message)
  /\ pc' = next /\ result' = NoError
  /\ UNCHANGED <<statementVars, executionVars>>

Query(text) == Request("query", 0, text, com_query, com_query_packet, [query |-> text], "sent")

\* The server has the request before it answers.
Prepare(text) ==
  Request("prepare", 0, text, com_stmt_prepare, com_stmt_prepare_packet, [statement |-> text], "prepared")

Close ==
  /\ stmt_msg_ # Invalid
  /\ Request("close", stmt_msg_.statement_id, <<>>, com_stmt_close, com_stmt_close_packet,
             [statement_id |-> stmt_msg_.statement_id], "sent")

Quit == Request("quit", 0, <<>>, com_quit, quit_packet, <<>>, "sent")

Answer(kind, code, text, id, num_columns, num_params, warnings) ==
  [kind |-> kind, code |-> code, text |-> text, id |-> id, num_columns |-> num_columns,
   num_params |-> num_params, warnings |-> warnings]

AnswerBytes(a) ==
  CASE a.kind = "ok"    -> <<0>> \o LittleEndian(a.id, 4) \o LittleEndian(a.num_columns, 2)
                             \o LittleEndian(a.num_params, 2) \o <<0>> \o LittleEndian(a.warnings, 2)
    [] a.kind = "error" -> <<255>> \o LittleEndian(a.code, 2) \o <<35, 72, 89, 48, 48, 48>> \o a.text
    [] a.kind = "other" -> a.text

\* process_response of prepare_statement_processor.
Prepared(bytes) ==
  LET type == deserialize_message_type(bytes)
      response == deserialize_message(com_stmt_prepare_ok_packet, Tail(bytes))
      failure == CASE type.err # "ok"                   -> Reported(errc[type.err], <<>>)
                   [] type.value = error_packet_header  -> process_error_packet(Tail(bytes))
                   [] type.value \notin {0, error_packet_header} -> Reported(errc.protocol_value_error, <<>>)
                   [] OTHER                             -> Reported(errc[response.err], <<>>)
  IN /\ result' = failure
     /\ stmt_msg_' = IF failure.code = errc.ok THEN response.value ELSE Invalid

\* The next operation has a message of its own.
Done ==
  /\ pc' = "idle" /\ request' = NoRequest
  /\ buffer' = <<>> /\ params' = <<>> /\ first' = 0 /\ index' = 0

\* The metadata packets that follow are read and ignored (module Session).
ReadPrepareResponse ==
  \E a \in Answers :
    /\ pc = "prepared"
    /\ answer' = a
    /\ Prepared(AnswerBytes(a))
    /\ Done

Respond ==
  /\ pc = "sent"
  /\ Done
  /\ UNCHANGED <<statementVars, result>>

-----------------------------------------------------------------------------
(* Executions *)

\* assert(num_params >= 0 && num_params <= 255), which get_size_ evaluates and
\* serialize_ evaluates again.
asserted(list) == Len(list) <= 255

\* A build with assertions ends the program before the buffer has a size.
AssertionFails(list) ==
  /\ pc = "idle" /\ stmt_msg_ # Invalid /\ Len(list) = stmt_msg_.num_params
  /\ ~asserted(list)
  /\ pc' = "aborted"
  /\ UNCHANGED <<statementVars, request, buffer, executionVars, result>>

\* An execution begins with an empty buffer, which serialize_message resizes.
StartMessage(list) ==
  /\ pc = "idle" /\ stmt_msg_ # Invalid
  /\ request' = Asked("execute", stmt_msg_.statement_id, <<>>)
  /\ params' = list
  /\ buffer' = [i \in 1..get_size(make_stmt_execute_packet(stmt_msg_.statement_id), list) |-> 0]
  /\ first' = 0 /\ pc' = "head" /\ index' = 0 /\ result' = NoError
  /\ UNCHANGED statementVars

ExecuteUnchecked(list) == StartMessage(list)

\* check_num_params refuses a wrong number before anything is written.
Execute(list) ==
  /\ pc = "idle" /\ stmt_msg_ # Invalid
  /\ \/ Len(list) = stmt_msg_.num_params /\ StartMessage(list)
     \/ /\ Len(list) # stmt_msg_.num_params
        /\ result' = Reported(errc.wrong_num_params, <<>>)
        /\ UNCHANGED <<statementVars, request, buffer, pc, executionVars>>

WriteHead ==
  /\ pc = "head"
  /\ Write(serialize_struct(com_stmt_execute, com_stmt_execute_packet,
                            make_stmt_execute_packet(stmt_msg_.statement_id)))
  /\ pc' = "bitmap"
  /\ UNCHANGED <<statementVars, request, params, index, result>>

\* The bitmap is cleared, a bit set for each NULL, and the bind flag follows.
WriteBitmap ==
  /\ pc = "bitmap"
  /\ Write(WithNulls([i \in 1..BitmapSize |-> 0]) \o <<1>>)
  /\ pc' = "types"
  /\ UNCHANGED <<statementVars, request, params, index, result>>

WriteType ==
  LET param == params[index + 1]
      meta == [type |-> get_protocol_field_type(param), unsigned_flag |-> IF is_unsigned(param) THEN 128 ELSE 0]
  IN /\ pc = "types" /\ index < Len(params)
     /\ Write(serialize_struct(<<>>, com_stmt_execute_param_meta_packet, meta))
     /\ index' = index + 1
     /\ UNCHANGED <<statementVars, request, params, pc, result>>

TypesWritten ==
  /\ pc = "types" /\ index = Len(params)
  /\ pc' = "values" /\ index' = 0
  /\ UNCHANGED <<statementVars, request, params, buffer, first, result>>

WriteValue ==
  /\ pc = "values" /\ index < Len(params)
  /\ Write(serialize_binary_value(params[index + 1]))
  /\ index' = index + 1
  /\ UNCHANGED <<statementVars, request, params, pc, result>>

Send ==
  /\ pc = "values" /\ index = Len(params)
  /\ pc' = "sent"
  /\ UNCHANGED <<statementVars, request, params, buffer, first, index, result>>

Next ==
  \/ \E text \in Texts : Query(text) \/ Prepare(text)
  \/ Close \/ Quit
  \/ ReadPrepareResponse \/ Respond
  \/ \E list \in ParamLists : Execute(list) \/ AssertionFails(list)
  \/ WriteHead \/ WriteBitmap \/ WriteType \/ TypesWritten \/ WriteValue \/ Send

Spec == Init /\ [][Next]_vars

-----------------------------------------------------------------------------
(* Properties *)

\* No part of an execute message is written past the end of the buffer, and the
\* message fills it: the assertion at the end of serialize_message.
MessageFitsBuffer ==
  /\ pc \in {"head", "bitmap", "types", "values"} => first <= Len(buffer)
  /\ pc = "sent" /\ request.kind = "execute" => first = Len(buffer)

(* How a MySQL server reads the messages *)

ServerTime(t, micros) ==
  LET seconds == ((t[2] * 24 + t[3]) * 60 + t[4]) * 60 + t[5] IN
  Value("time", IF t[1] = 1 THEN <<-seconds, -micros>> ELSE <<seconds, micros>>)

\* 8 bytes: unsigned values here are below 2^31 and signed ones above -2^31.
ServerInt(bytes, unsigned) ==
  Got(IF unsigned THEN Value("uint64", <<Unsigned(bytes)>>) ELSE Value("int64", <<Signed(bytes)>>), <<>>)

ServerValue(type, unsigned, bytes) ==
  CASE type = 4  -> Got(Value("float", FloatNumber(float, SubSeq(bytes, 1, 4))), Skip(bytes, 4))
    [] type = 5  -> Got(Value("double", FloatNumber(double, SubSeq(bytes, 1, 8))), Skip(bytes, 8))
    [] type = 8  -> Got(ServerInt(SubSeq(bytes, 1, 8), unsigned).value, Skip(bytes, 8))
    [] type = 10 -> Then(deserialize(bytes, <<1, 2, 1, 1>>), LAMBDA d, rest :
                      Got(Value("date", Tail(d)), rest))
    [] type = 12 -> Then(deserialize(bytes, <<1, 2, 1, 1, 1, 1, 1, 4>>), LAMBDA d, rest :
                      Got(Value("datetime", Tail(d)), rest))
    [] type = 11 -> Then(deserialize(bytes, <<1, 1, 4, 1, 1, 1, 4>>), LAMBDA t, rest :
                      Got(ServerTime(Tail(t), t[7]), rest))
    [] OTHER     -> Then(deserialize_string_lenenc(bytes), LAMBDA string, rest :
                      Got(Value("string", string), rest))

\* The parameters in a message, or an error.
ServerParams(message) ==
  LET num_params == answer.num_params
      bits == (num_params + 7) \div 8
      null(i) == (message[10 + ((i - 1) \div 8) + 1] \div 2^((i - 1) % 8)) % 2 = 1
      types == 11 + bits
      next(read, i) ==
        IF null(i)
          THEN Then(read, LAMBDA values, rest : Got(Append(values, NULL), rest))
          ELSE Then(read, LAMBDA values, rest :
               Then(ServerValue(message[types + 2 * i - 1], message[types + 2 * i] >= 128, rest),
                    LAMBDA value, rest2 : Got(Append(values, value), rest2)))
  IN FoldLeft(next, Got(<<>>, Skip(message, types + 2 * num_params)), [i \in 1..num_params |-> i])

ServerStatement(message) == Unsigned(SubSeq(message, 2, 5))

ServerRequest(message) ==
  CASE message[1] = 3  -> Asked("query", 0, Tail(message))
    [] message[1] = 22 -> Asked("prepare", 0, Tail(message))
    [] message[1] = 23 -> Asked("execute", ServerStatement(message), <<>>)
    [] message[1] = 25 -> Asked("close", ServerStatement(message), <<>>)
    [] OTHER           -> Asked("quit", 0, <<>>)

\* The server gets the request the user made, about the statement that it
\* answered last, and reads from an execution the parameters the user passed, each
\* with its value and its kind, and nothing more.  More than 255 parameters reach
\* the server from a build without assertions only.
ServerGetsRequests ==
  pc \in {"sent", "prepared"} =>
    /\ ServerRequest(buffer) = request
    /\ request.statement # 0 => request.statement = answer.id
    /\ request.kind = "execute" => ServerParams(buffer) = Got(params, <<>>)
=============================================================================
