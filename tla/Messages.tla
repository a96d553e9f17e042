------------------------------- MODULE Messages -------------------------------
(***************************************************************************)
(* The messages of the protocol (detail/protocol/*_messages.hpp) and how   *)
(* they are turned into bytes and back.                                    *)
(*                                                                         *)
(* A message is a record; its layout, the get_struct_fields of its type,   *)
(* is a sequence of fields with their names and types.  Numbers stay below *)
(* 2^31.                                                                   *)
(***************************************************************************)
EXTENDS Encoding

\* Fields.
FieldOf(name, type, size) == [name |-> name, type |-> type, size |-> size]
int(name, size) == FieldOf(name, "fixed_size_int", size)
\* An enumeration is serialized as the integer under it.
enumeration(name, size) == int(name, size)
string_fixed(name, size) == FieldOf(name, "string_fixed", size)
int_lenenc(name) == FieldOf(name, "int_lenenc", 0)
string_lenenc(name) == FieldOf(name, "string_lenenc", 0)
string_null(name) == FieldOf(name, "string_null", 0)
string_eof(name) == FieldOf(name, "string_eof", 0)

-----------------------------------------------------------------------------
(* Serialization of a field, by its type: serialization_traits *)

FirstOf(got) == Then(got, LAMBDA numbers, rest : Got(numbers[1], rest))

deserialize_(field, bytes) ==
  CASE field.type = "fixed_size_int" -> FirstOf(deserialize(bytes, <<field.size>>))
    [] field.type = "string_fixed"   -> deserialize_string_fixed(bytes, field.size)
    [] field.type = "int_lenenc"     -> FirstOf(deserialize_lenenc(bytes))
    [] field.type = "string_lenenc"  -> deserialize_string_lenenc(bytes)
    [] field.type = "string_null"    -> deserialize_string_null(bytes)
    [] field.type = "string_eof"     -> deserialize_string_eof(bytes)

serialize_(field, value) ==
  CASE field.type = "fixed_size_int" -> LittleEndian(value, field.size)
    [] field.type = "int_lenenc"     -> serialize_lenenc(value)
    [] field.type = "string_lenenc"  -> serialize_string_lenenc(value)
    [] field.type = "string_null"    -> Append(value, 0)
    [] OTHER                         -> value

get_size_(field, value) ==
  CASE field.type \in {"fixed_size_int", "string_fixed"} -> field.size
    [] field.type = "int_lenenc"     -> get_size_lenenc(value)
    [] field.type = "string_lenenc"  -> get_size_lenenc(Len(value)) + Len(value)
    [] field.type = "string_null"    -> Len(value) + 1
    [] field.type = "string_eof"     -> Len(value)

-----------------------------------------------------------------------------
(* Messages *)

Names(fields) == {fields[i].name : i \in DOMAIN fields}

\* deserialize_struct: field after field until one fails.
deserialize_struct(fields, bytes) ==
  LET add(read, field) ==
        Then(read, LAMBDA values, left :
        Then(deserialize_(field, left), LAMBDA value, left2 : Got(Append(values, value), left2)))
      read == FoldLeft(add, Got(<<>>, bytes), fields)
  IN Then(read, LAMBDA values, left :
       Got([n \in Names(fields) |-> values[CHOOSE i \in DOMAIN fields : fields[i].name = n]], left))

\* A command starts with its number, command is <<>> for the other messages.
serialize_struct(command, fields, message) ==
  command \o FlattenSeq([i \in DOMAIN fields |-> serialize_(fields[i], message[fields[i].name])])

get_size_struct(command, fields, message) ==
  Len(command) + Sum([i \in DOMAIN fields |-> get_size_(fields[i], message[fields[i].name])])

\* The rest of deserialize_message: nothing may follow.
Complete(got) ==
  Then(got, LAMBDA message, rest : IF rest = <<>> THEN Got(message, <<>>) ELSE Failed("extra_bytes"))

deserialize_message(fields, bytes) == Complete(deserialize_struct(fields, bytes))

\* The buffer gets its size first; what does not fit in it would be written
\* past its end, what is missing stays zero.
InBuffer(size, bytes) == [i \in 1..size |-> IF i <= Len(bytes) THEN bytes[i] ELSE 0]
serialize_message(command, fields, message) ==
  InBuffer(get_size_struct(command, fields, message), serialize_struct(command, fields, message))

-----------------------------------------------------------------------------
(* Messages of every phase *)

ok_packet_header == 0
auth_more_data_header == 1
eof_packet_header == 254
auth_switch_request_header == 254
error_packet_header == 255

ok_packet_head ==
  <<int_lenenc("affected_rows"), int_lenenc("last_insert_id"), int("status_flags", 2), int("warnings", 2)>>
ok_packet_info == <<string_lenenc("info")>>
ok_packet == ok_packet_head \o ok_packet_info

OkInfoRequired(bytes) == deserialize_message(ok_packet, bytes)

\* The message at the end of an OK packet may be omitted.
deserialize_ok_packet(bytes) ==
  LET head == deserialize_struct(ok_packet_head, bytes) IN
  IF head.err = "ok" /\ head.rest = <<>>
    THEN Got([n \in Names(ok_packet) |-> IF n = "info" THEN <<>> ELSE head.value[n]], <<>>)
    ELSE deserialize_message(ok_packet, bytes)

err_packet_without_marker ==
  <<int("error_code", 2), string_fixed("sql_state", 5), string_eof("error_message")>>
err_packet ==
  <<int("error_code", 2), string_fixed("sql_state_marker", 1), string_fixed("sql_state", 5),
    string_eof("error_message")>>

\* The codes of the library's own errors; below them are those of a server.
errc ==
  [ok |-> 0, incomplete_message |-> 65536, extra_bytes |-> 65537, sequence_number_mismatch |-> 65538,
   server_unsupported |-> 65539, protocol_value_error |-> 65540, unknown_auth_plugin |-> 65541,
   auth_plugin_requires_ssl |-> 65542, wrong_num_params |-> 65543]

\* The error code and the text for error_info.
Reported(code, info) == [code |-> code, info |-> info]
process_error_packet(bytes) ==
  LET error == deserialize_message(err_packet, bytes) IN
  IF error.err = "ok" THEN Reported(error.value.error_code, error.value.error_message)
                      ELSE Reported(errc[error.err], <<>>)

-----------------------------------------------------------------------------
(* Messages about resultsets and statements *)

\* protocol_field_type: the values a server sends.
protocol_field_type ==
  [decimal |-> 0, tiny |-> 1, short_ |-> 2, long_ |-> 3, float_ |-> 4, double_ |-> 5, null |-> 6,
   timestamp |-> 7, longlong |-> 8, int24 |-> 9, date |-> 10, time |-> 11, datetime |-> 12, year |-> 13,
   varchar |-> 15, bit |-> 16, newdecimal |-> 246, enum_ |-> 247, set |-> 248, tiny_blob |-> 249,
   medium_blob |-> 250, long_blob |-> 251, blob |-> 252, var_string |-> 253, string |-> 254,
   geometry |-> 255]

\* The last two bytes are padding.
column_definition_packet ==
  <<string_lenenc("catalog"), string_lenenc("schema"), string_lenenc("table"),
    string_lenenc("org_table"), string_lenenc("name"), string_lenenc("org_name"),
    int_lenenc("length_of_fixed_fields"), enumeration("character_set", 2), int("column_length", 4),
    enumeration("type", 1), int("flags", 2), int("decimals", 1), int("final_padding", 2)>>

com_stmt_prepare_ok_packet ==
  <<int("statement_id", 4), int("num_columns", 2), int("num_params", 2), int("reserved", 1),
    int("warning_count", 2)>>

com_query == <<3>>
com_query_packet == <<string_eof("query")>>

com_stmt_prepare == <<22>>
com_stmt_prepare_packet == <<string_eof("statement")>>

com_stmt_close == <<25>>
com_stmt_close_packet == <<int("statement_id", 4)>>

com_quit == <<1>>
quit_packet == <<>>
=============================================================================
