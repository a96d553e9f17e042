-------------------------------- MODULE Rows --------------------------------
(***************************************************************************)
(* The messages of one resultset, byte by byte: the response to a query or *)
(* an execution (execute_processor), the column definitions, a row         *)
(* (deserialize_text_row, deserialize_binary_row) and the message after    *)
(* the rows (process_read_message).                                        *)
(*                                                                         *)
(* Module Session has the order of these messages for any number of rows   *)
(* and requests; here there is one request and at most one row.  A message *)
(* arrives whole, too short or too long, or has a field out of its range.  *)
(* Reading a column is a step, as each one starts where the one before it  *)
(* stopped.                                                                *)
(***************************************************************************)
EXTENDS Server, Metadata

CONSTANTS
  Replies,      \* what the server may reply to the request
  Cuts,         \* how many bytes may be missing at the end of a message
  Tails         \* what may follow a message

VARIABLES
  protocol,     \* "text" or "binary": the deserializer of the resultset
  reply,        \* what the server means, see Reply
  inbox,        \* its messages that are still to be read
  damaged,      \* whether the client has read a message it should refuse
  pc,           \* the step of the client
  rest,         \* the bytes of the message that are left
  field_count,  \* execute_processor::field_count_
  fields,       \* the field_metadata of the columns
  bitmap,       \* the bytes at null_bitmap_begin
  output,       \* the values of the row read so far
  ok_packet_,   \* the OK packet of the resultset
  result        \* the error the caller gets, and its text

responseVars == <<field_count, fields>>
rowVars == <<bitmap, output>>
vars == <<protocol, reply, inbox, damaged, pc, rest, responseVars, rowVars, ok_packet_, result>>

NoOk == Ok(0, 0, 0, 0, <<>>)
NoError == Reported(errc.ok, <<>>)

\* What the server means: "ok" and "error" come at once, "rows" is a resultset
\* with these columns, at most one row and then final, an OK packet or an error.
\* A value in the row may be past the limits of the client, in both protocols or
\* in those refused.
Reply(kind, columns, rows, refused, final) ==
  [kind |-> kind, columns |-> columns, rows |-> rows, refused |-> refused, final |-> final]

FinalBytes(header, final) ==
  IF "code" \in DOMAIN final THEN ErrorBytes(final.code, final.text) ELSE OkBytes(header, final)

MessagesOf(p, r) ==
  IF r.kind # "rows"
    THEN <<FinalBytes(0, r.final)>>
    ELSE <<serialize_lenenc(Len(r.columns))>>
           \o [i \in DOMAIN r.columns |-> ColumnBytes(r.columns[i])]
           \o [i \in DOMAIN r.rows |-> ServerRow(p, r.columns, r.rows[i])]
           \o <<FinalBytes(254, r.final)>>

\* A message is a string of bytes.
ASSUME ReplyAssumption ==
  /\ Cuts \subseteq Nat /\ Tails \subseteq ByteString
  /\ \A r \in Replies :
       r.kind \in {"ok", "error", "rows"} /\ \A p \in {"text", "binary"} : MessagesOf(p, r) \in Seq(ByteString)

-----------------------------------------------------------------------------
Init ==
  /\ protocol \in {"text", "binary"}
  /\ reply \in Replies
  /\ inbox = MessagesOf(protocol, reply)
  /\ damaged = FALSE
  /\ pc = "response" /\ rest = <<>>
  /\ field_count = 0 /\ fields = <<>>
  /\ bitmap = <<>> /\ output = <<>>
  /\ ok_packet_ = NoOk /\ result = NoError

input == <<protocol, reply>>
arrival == <<inbox, damaged>>

Fails(e) == result' = Reported(errc[e], <<>>) /\ pc' = "failed"

\* A message comes as it was sent or, if it is one whose loss would be noticed,
\* without its last bytes or with some more.  Error packets have no end, and an
\* OK packet may have a message or not (no cut is as long as the whole message).
Noticeable ==
  /\ ~damaged
  /\ Len(inbox) = 1 => "code" \notin DOMAIN reply.final /\ reply.final.info # <<>>

Receive(step, next) ==
  LET m == inbox[1] IN
  /\ pc = step /\ inbox # <<>>
  /\ inbox' = Tail(inbox)
  /\ \/ rest' = m /\ damaged' = (damaged \/ (step = "row" /\ Len(inbox) = 2 /\ protocol \in reply.refused))
     \/ /\ Noticeable /\ damaged' = TRUE
        /\ \/ \E cut \in Cuts : cut <= Len(m) /\ rest' = SubSeq(m, 1, Len(m) - cut)
           \/ \E tail \in Tails : rest' = m \o tail
  /\ pc' = next
  /\ UNCHANGED <<input, responseVars, rowVars, ok_packet_, result>>

ReceiveResponse == Receive("response", "process_response")
ReceiveColumn == Receive("column", "process_field_definition")
ReceiveRow == Receive("row", "process_read_message")

-----------------------------------------------------------------------------
(* execute_processor *)

\* There is no type of message in an empty one (deserialize_message_type).
NoMessageType ==
  /\ pc \in {"process_response", "process_read_message"} /\ rest = <<>>
  /\ Fails("incomplete_message")
  /\ UNCHANGED <<input, arrival, rest, responseVars, rowVars, ok_packet_>>

\* An OK packet ends the operation with an empty, complete resultset.
ProcessOk ==
  LET packet == deserialize_ok_packet(Tail(rest)) IN
  /\ pc = "process_response"
  /\ rest # <<>> /\ rest[1] = ok_packet_header
  /\ IF packet.err = "ok"
       THEN ok_packet_' = packet.value /\ pc' = "complete" /\ UNCHANGED result
       ELSE Fails(packet.err) /\ UNCHANGED ok_packet_
  /\ UNCHANGED <<input, arrival, rest, responseVars, rowVars>>

ProcessError ==
  /\ pc \in {"process_response", "process_read_message"}
  /\ rest # <<>> /\ rest[1] = error_packet_header
  /\ result' = process_error_packet(Tail(rest)) /\ pc' = "failed"
  /\ UNCHANGED <<input, arrival, rest, responseVars, rowVars, ok_packet_>>

\* Anything else is the number of fields, which is not zero.
ProcessFieldCount ==
  LET count == Complete(FirstOf(deserialize_lenenc(rest))) IN
  /\ pc = "process_response"
  /\ rest # <<>> /\ rest[1] \notin {ok_packet_header, error_packet_header}
  /\ IF count.err = "ok" /\ count.value # 0
       THEN field_count' = count.value /\ pc' = "column" /\ UNCHANGED result
       ELSE Fails(IF count.err # "ok" THEN count.err ELSE "protocol_value_error") /\ UNCHANGED field_count
  /\ UNCHANGED <<input, arrival, rest, fields, rowVars, ok_packet_>>

process_field_definition ==
  LET definition == deserialize_message(column_definition_packet, rest) IN
  /\ pc = "process_field_definition"
  /\ IF definition.err = "ok"
       THEN /\ fields' = Append(fields, field_metadata(definition.value))
            /\ pc' = IF Len(fields) + 1 = field_count THEN "row" ELSE "column"
            /\ UNCHANGED result
       ELSE Fails(definition.err) /\ UNCHANGED fields
  /\ UNCHANGED <<input, arrival, rest, field_count, rowVars, ok_packet_>>

-----------------------------------------------------------------------------
(* process_read_message *)

ReadEof ==
  LET packet == deserialize_ok_packet(Tail(rest)) IN
  /\ pc = "process_read_message"
  /\ rest # <<>> /\ rest[1] = eof_packet_header
  /\ IF packet.err = "ok"
       THEN ok_packet_' = packet.value /\ pc' = "complete" /\ UNCHANGED result
       ELSE Fails(packet.err) /\ UNCHANGED ok_packet_
  /\ UNCHANGED <<input, arrival, rest, responseVars, rowVars>>

IsRow ==
  /\ pc = "process_read_message"
  /\ rest # <<>> /\ rest[1] \notin {eof_packet_header, error_packet_header}

BeginTextRow ==
  /\ IsRow /\ protocol = "text"
  /\ output' = <<>> /\ pc' = "reading"
  /\ UNCHANGED <<input, arrival, rest, responseVars, bitmap, ok_packet_, result>>

\* The header byte, which the caller has seen, and the NULL bitmap.
BeginBinaryRow ==
  LET size == byte_count(binary_row_null_bitmap_offset, Len(fields)) IN
  /\ IsRow /\ protocol = "binary"
  /\ output' = <<>>
  /\ IF Len(rest) - 1 < size
       THEN Fails("incomplete_message") /\ UNCHANGED <<rest, bitmap>>
       ELSE /\ bitmap' = SubSeq(rest, 2, size + 1)
            /\ rest' = Skip(rest, size + 1)
            /\ pc' = "reading" /\ UNCHANGED result
  /\ UNCHANGED <<input, arrival, responseVars, ok_packet_>>

ColumnsLeft == pc = "reading" /\ Len(output) < Len(fields)

\* is_next_field_null for a text row, null_bitmap_traits::is_null otherwise.
NextIsNull ==
  IF protocol = "text" THEN rest # <<>> /\ rest[1] = 251
                       ELSE is_null(bitmap, binary_row_null_bitmap_offset, Len(output))

ReadNull ==
  /\ ColumnsLeft /\ NextIsNull
  /\ output' = Append(output, NULL)
  /\ rest' = IF protocol = "text" THEN Skip(rest, 1) ELSE rest
  /\ UNCHANGED <<input, arrival, pc, responseVars, bitmap, ok_packet_, result>>

\* The string of a text row first, then the value in it.
NextValue ==
  LET field == fields[Len(output) + 1] IN
  IF protocol = "binary"
    THEN deserialize_binary_value(field, rest)
    ELSE Then(deserialize_string_lenenc(rest), LAMBDA text, left :
         Then(deserialize_text_value(field, text), LAMBDA value, nothing : Got(value, left)))

ReadValue ==
  LET next == NextValue IN
  /\ ColumnsLeft /\ ~NextIsNull
  /\ IF next.err = "ok"
       THEN output' = Append(output, next.value) /\ rest' = next.rest /\ UNCHANGED <<pc, result>>
       ELSE Fails(next.err) /\ UNCHANGED <<output, rest>>
  /\ UNCHANGED <<input, arrival, responseVars, bitmap, ok_packet_>>

RowEnds(err) ==
  /\ pc = "reading" /\ Len(output) = Len(fields)
  /\ IF err = "ok" THEN pc' = "row" /\ UNCHANGED result ELSE Fails(err)
  /\ UNCHANGED <<input, arrival, rest, responseVars, rowVars, ok_packet_>>

ExtraBytesIgnored == RowEnds("ok")
EndRow == RowEnds(IF rest = <<>> THEN "ok" ELSE "extra_bytes")

Next ==
  \/ ReceiveResponse \/ ReceiveColumn \/ ReceiveRow
  \/ NoMessageType \/ ProcessOk \/ ProcessError \/ ProcessFieldCount \/ process_field_definition
  \/ ReadEof \/ BeginTextRow \/ BeginBinaryRow \/ ReadNull \/ ReadValue \/ EndRow

Spec == Init /\ [][Next]_vars

-----------------------------------------------------------------------------
(* Properties *)

\* The types, with what the documentation of value guarantees: dates and
\* datetimes are days of the calendar up to the year 9999, and times stay below
\* 839 hours.  That much of it holds of text times only, see TimesAreInRange.
LastYear == 9999
max_time == 839 * 3600
ValueOK(p, value) ==
  /\ value.kind \in {"null", "int64", "uint64", "float", "double", "string", "date", "datetime", "time"}
  /\ value.kind \in {"date", "datetime"} =>
       value.v[1] \in 0..LastYear /\ value.v[2] \in 1..12 /\ value.v[3] \in 1..31
       /\ (value.v[3] = 31 => value.v[2] \notin {2, 4, 6, 9, 11})
       /\ (value.v[2] = 2 => value.v[3] <= 29)
  /\ p = "text" /\ value.kind = "time" => value.v[1] < max_time /\ -value.v[1] < max_time

TypeOK ==
  /\ protocol \in {"text", "binary"} /\ reply.kind \in {"ok", "error", "rows"}
  /\ rest \in ByteString /\ bitmap \in ByteString
  /\ Len(fields) <= field_count /\ Len(output) <= Len(fields)
  /\ \A i \in DOMAIN output : ValueOK(protocol, output[i])
  /\ result.code \in 0..errc.protocol_value_error
  /\ pc \in {"response", "process_response", "column", "process_field_definition", "row",
             "process_read_message", "reading", "complete", "failed"}

RowIsRead == pc \in {"row", "complete"} /\ output # <<>>

\* What the client should make of a value: days that do not exist are NULL,
\* times are one signed number.
Understood(value) ==
  CASE value.kind \in {"date", "datetime"} -> DayOrNull(value.kind, value.v)
    [] value.kind = "time" ->
         LET v == value.v
             seconds == v[2] * 3600 + v[3] * 60 + v[4]
         IN Value("time", IF v[1] = 1 THEN <<-seconds, -v[5]>> ELSE <<seconds, v[5]>>)
    [] OTHER -> value

\* A row that arrives whole is read, in both protocols, as the same values, and
\* every column starts where the one before it ended, whichever columns are
\* NULL, zero or not a day of the calendar.
RowIsWhatWasSent ==
  ~damaged =>
    /\ pc = "failed" => result.code < 65536
    /\ \A i \in DOMAIN output : output[i] = Understood(reply.rows[1][i])
    /\ RowIsRead => Len(output) = Len(reply.columns)

\* The caller learns what the server says about the whole resultset: every
\* column by its names, type and flags, the figures of the OK packet at the end,
\* with or without a message, or the error there, and only then is the resultset
\* complete or failed.
ResponseIsWhatWasSent ==
  ~damaged =>
    /\ \A i \in DOMAIN fields :
         LET c == reply.columns[i]
             f == fields[i]
         IN /\ <<f.database, f.table, f.original_table, f.field_name, f.original_field_name>>
                 = <<c.schema, c.table, c.org_table, c.name, c.org_name>>
            /\ <<f.character_set, f.column_length, f.decimals>> = <<c.character_set, c.column_length, c.decimals>>
            /\ f.type = c.type
            /\ <<f.is_not_null, f.is_primary_key, f.is_unique_key, f.is_multiple_key, f.is_unsigned,
                 f.is_zerofill, f.is_auto_increment, f.has_no_default_value, f.is_set_to_now_on_update>>
                 = [k \in 1..9 |-> <<0, 1, 2, 3, 5, 6, 9, 12, 13>>[k] \in c.flags]
    /\ pc \in {"row", "reading"} => Len(fields) = Len(reply.columns)
    /\ pc \in {"complete", "failed"} => inbox = <<>>
    /\ pc = "complete" => ok_packet_ = reply.final
    /\ pc = "failed" => "code" \in DOMAIN reply.final /\ result = Reported(reply.final.code, reply.final.text)

\* Every time is "in range [boost::mysql::min_time and boost::mysql::max_time]", as
\* value.hpp:162 guarantees, in both protocols: 839 hours, and nothing on top.
TimesAreInRange ==
  \A i \in DOMAIN output :
    output[i].kind = "time" =>
      LET v == output[i].v IN Abs(v[1]) < max_time \/ (Abs(v[1]) = max_time /\ v[2] = 0)

\* The value of a column is NULL or of the kind that is documented for the type
\* that field_metadata reports, although types and values are told from different
\* parts of the definition.  Of YEAR nothing is claimed (see DocumentedKind).
FieldTypesAgree ==
  \A i \in DOMAIN output :
    output[i] # NULL /\ fields[i].type # "year" => output[i].kind = DocumentedKind(fields[i])

\* A number is had as the other integer type exactly if it fits, as a double if
\* it is a float, and a time is printed the way a server writes it with six
\* decimals.
ValuesReadBack ==
  ~damaged =>
    \A i \in DOMAIN output :
      LET value == output[i]
          v == reply.rows[1][i].v
      IN /\ value.kind \in {"int64", "uint64"} =>
              /\ get_optional("uint64", value) = IF v[1] >= 0 THEN v ELSE <<>>
              /\ get_optional("int64", value) = IF v[1] < 2^30 THEN v ELSE <<>>
         /\ value.kind \in {"float", "double"} => get_optional("double", value) = v
         /\ value.kind = "time" =>
              print_time(value.v) = ServerText([type |-> "time", decimals |-> 6], v)

\* A message that is too short, too long or has a month, hour or the like out of
\* the range that its protocol checks is never taken for what it should be, be the day NULL or not.
DamageIsNoticed ==
  damaged => pc \in {"process_response", "process_field_definition", "process_read_message", "reading", "failed"}
=============================================================================
