------------------------------ MODULE Metadata ------------------------------
(***************************************************************************)
(* field_metadata (metadata.hpp): what a user and the deserializers of     *)
(* rows learn of a column from its column_definition_packet.               *)
(***************************************************************************)
EXTENDS Messages

column_flags ==
  [not_null |-> 0, pri_key |-> 1, unique_key |-> 2, multiple_key |-> 3, blob |-> 4, unsigned_ |-> 5,
   zerofill |-> 6, binary |-> 7, enum_ |-> 8, auto_increment |-> 9, timestamp |-> 10, set |-> 11,
   no_default_value |-> 12, on_update_now |-> 13, part_key |-> 14, num |-> 15]

\* flag_set, with the number of the bit of the flag.
flag_set(flags, flag) == (flags \div 2^column_flags[flag]) % 2 = 1

\* The name of a protocol_field_type; values without a name are no error.
TypeName(code) ==
  IF \E name \in DOMAIN protocol_field_type : protocol_field_type[name] = code
    THEN CHOOSE name \in DOMAIN protocol_field_type : protocol_field_type[name] = code
    ELSE "unnamed"

compute_field_type_string(flags) ==
  CASE flag_set(flags, "set") -> "set"
    [] ~flag_set(flags, "set") /\ flag_set(flags, "enum_") -> "enum_"
    [] ~flag_set(flags, "set") /\ ~flag_set(flags, "enum_") /\ flag_set(flags, "binary") -> "binary"
    [] OTHER -> "char_"

compute_field_type_var_string(flags) == IF flag_set(flags, "binary") THEN "varbinary" ELSE "varchar"

compute_field_type_blob(flags) == IF flag_set(flags, "binary") THEN "blob" ELSE "text"

\* The types that do not depend on flags.
SimpleFieldType ==
  [decimal |-> "decimal", newdecimal |-> "decimal", geometry |-> "geometry", tiny |-> "tinyint",
   short_ |-> "smallint", int24 |-> "mediumint", long_ |-> "int_", longlong |-> "bigint",
   float_ |-> "float_", double_ |-> "double_", bit |-> "bit", date |-> "date", datetime |-> "datetime",
   timestamp |-> "timestamp", time |-> "time", year |-> "year"]

TypeWithoutFlags(protocol_type, flags) ==
  CASE protocol_type = "string" -> "char_" [] protocol_type = "var_string" -> "varchar"
    [] protocol_type = "blob" -> "blob" [] OTHER -> SimpleFieldType[protocol_type]
compute_field_type(protocol_type, flags) ==
  CASE protocol_type \in DOMAIN SimpleFieldType -> SimpleFieldType[protocol_type]
    [] protocol_type = "string"     -> compute_field_type_string(flags)
    [] protocol_type = "var_string" -> compute_field_type_var_string(flags)
    [] protocol_type = "blob"       -> compute_field_type_blob(flags)
    [] OTHER                        -> "unknown"

\* The accessors of field_metadata, for the packet it keeps.
field_metadata(msg) ==
  LET flag(name) == flag_set(msg.flags, name) IN
  [database |-> msg.schema, table |-> msg.table, original_table |-> msg.org_table,
   field_name |-> msg.name, original_field_name |-> msg.org_name,
   character_set |-> msg.character_set, column_length |-> msg.column_length,
   protocol_type |-> TypeName(msg.type), type |-> compute_field_type(TypeName(msg.type), msg.flags),
   decimals |-> msg.decimals,
   is_not_null |-> flag("not_null"), is_primary_key |-> flag("pri_key"),
   is_unique_key |-> flag("unique_key"), is_multiple_key |-> flag("multiple_key"),
   is_unsigned |-> flag("unsigned_"), is_zerofill |-> flag("zerofill"),
   is_auto_increment |-> flag("auto_increment"), has_no_default_value |-> flag("no_default_value"),
   is_set_to_now_on_update |-> flag("on_update_now")]

\* The kind of value that value.hpp documents for a column, if it is not NULL.
\* What it documents for YEAR contradicts itself: a std::uint32_t in the list of
\* types, which no value holds, and std::uint64_t in that of the variant.
IntegerTypes == {"tinyint", "smallint", "mediumint", "int_", "bigint"}
DocumentedKind(field) ==
  CASE field.type \in IntegerTypes -> IF field.is_unsigned THEN "uint64" ELSE "int64"
    [] field.type = "float_"   -> "float"
    [] field.type = "double_"  -> "double"
    [] field.type = "date"     -> "date"
    [] field.type \in {"datetime", "timestamp"} -> "datetime"
    [] field.type = "time"     -> "time"
    [] OTHER                   -> "string"
=============================================================================
