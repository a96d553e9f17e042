------------------------------- MODULE Server -------------------------------
(***************************************************************************)
(* How a MySQL server writes the messages of a resultset, from the wire    *)
(* protocol: nothing in this module is in the repository.                  *)
(*                                                                         *)
(* A column has the names of column_definition_packet, the type of its     *)
(* CREATE TABLE (as field_type calls it) and the set of its flags.         *)
(***************************************************************************)
EXTENDS Values

-----------------------------------------------------------------------------
(* Column definitions *)

\* The code of each type, and the flags that come with it.
TypeCode ==
  [tinyint |-> 1, smallint |-> 2, int_ |-> 3, float_ |-> 4, double_ |-> 5, timestamp |-> 7, bigint |-> 8,
   mediumint |-> 9, date |-> 10, time |-> 11, datetime |-> 12, year |-> 13, bit |-> 16, decimal |-> 246,
   text |-> 252, blob |-> 252, varchar |-> 253, varbinary |-> 253, char_ |-> 254, binary |-> 254,
   enum_ |-> 254, set |-> 254, geometry |-> 255]
TypeFlags(type) ==
  CASE type \in {"blob", "geometry"}    -> {4, 7}
    [] type = "text"                    -> {4}
    [] type \in {"varbinary", "binary"} -> {7}
    [] type = "enum_"                   -> {8}
    [] type = "set"                     -> {11}
    [] type \in {"year"}                -> {5, 6}
    [] type = "bit"                     -> {5}
    [] type \in {"date", "time", "datetime", "timestamp"} -> {7}
    [] OTHER                            -> {}

Column(type, flags, decimals) ==
  [catalog |-> <<100, 101, 102>>, schema |-> <<115>>, table |-> <<116, 49>>, org_table |-> <<>>,
   name |-> <<110>>, org_name |-> <<110, 50, 0>>, character_set |-> 45, column_length |-> 65536,
   type |-> type, flags |-> flags \cup TypeFlags(type), decimals |-> decimals]

ColumnBytes(c) ==
  FlattenSeq([i \in 1..6 |-> serialize_string_lenenc(
      <<c.catalog, c.schema, c.table, c.org_table, c.name, c.org_name>>[i])])
    \o <<12>> \o LittleEndian(c.character_set, 2) \o LittleEndian(c.column_length, 4)
    \o <<TypeCode[c.type]>> \o LittleEndian(MapThenSumSet(LAMBDA k : 2^k, c.flags), 2)
    \o <<c.decimals, 0, 0>>

-----------------------------------------------------------------------------
(* The end of a resultset *)

\* An OK packet may leave its message out if that is empty.
Ok(affected_rows, last_insert_id, status_flags, warnings, info) ==
  [affected_rows |-> affected_rows, last_insert_id |-> last_insert_id, status_flags |-> status_flags,
   warnings |-> warnings, info |-> info]
OkBytes(header, ok_) ==
  <<header>> \o serialize_lenenc(ok_.affected_rows) \o serialize_lenenc(ok_.last_insert_id)
    \o LittleEndian(ok_.status_flags, 2) \o LittleEndian(ok_.warnings, 2)
    \o (IF ok_.info = <<>> THEN <<>> ELSE serialize_string_lenenc(ok_.info))

ErrorBytes(code, text) ==
  <<255>> \o LittleEndian(code, 2) \o <<35, 52, 50, 48, 48, 48>> \o text

-----------------------------------------------------------------------------
(* Rows *)

IntSize ==
  [tinyint |-> 1, smallint |-> 2, year |-> 2, mediumint |-> 4, int_ |-> 4, bigint |-> 8]

Decimal(n) == Padded(n, 1 + Cardinality({k \in 1..9 : n >= 10^k}))

Fraction(column, micros) ==
  LET decimals == Min({column.decimals, 6}) IN
  IF decimals = 0 THEN <<>> ELSE <<Dot>> \o Padded(micros \div 10^(6 - decimals), decimals)

\* mantissa * 2^exponent with as many decimals as it needs, or an infinity.
FloatText(v) ==
  LET k == IF v[2] < 0 THEN -v[2] ELSE 0
      n == Abs(v[1]) * (IF v[2] < 0 THEN 5^k ELSE 2^v[2])
  IN IF v[2] > 30 THEN <<105, 110, 102>>
     ELSE (IF v[1] < 0 THEN <<Minus>> ELSE <<>>) \o Decimal(n \div 10^k)
            \o (IF k = 0 THEN <<>> ELSE <<Dot>> \o Padded(n % 10^k, k))

DateText(v) == Padded(v[1], 4) \o <<Minus>> \o Padded(v[2], 2) \o <<Minus>> \o Padded(v[3], 2)
ClockText(hours, m, s) == hours \o <<Colon>> \o Padded(m, 2) \o <<Colon>> \o Padded(s, 2)

ServerText(column, v) ==
  CASE column.type = "year" -> Padded(v[1], 4)
    [] column.type \in DOMAIN IntSize \ {"year"} -> IF v[1] < 0 THEN <<Minus>> \o Decimal(-v[1]) ELSE Decimal(v[1])
    [] column.type \in {"float_", "double_"} -> FloatText(v)
    [] column.type = "date" -> DateText(v)
    [] column.type \in {"datetime", "timestamp"} ->
         DateText(v) \o <<Space>> \o ClockText(Padded(v[4], 2), v[5], v[6]) \o Fraction(column, v[7])
    [] column.type = "time" ->
         (IF v[1] = 1 THEN <<Minus>> ELSE <<>>)
           \o ClockText(Padded(v[2], IF v[2] > 99 THEN 3 ELSE 2), v[3], v[4]) \o Fraction(column, v[5])
    [] OTHER -> v

Zero(v, from, to) == \A i \in from..to : v[i] = 0
DateBytes(v) == LittleEndian(v[1], 2) \o SubSeq(v, 2, 3)

\* Parts at the end that are zero are left out.
ServerBinary(column, v) ==
  CASE column.type \in DOMAIN IntSize -> LittleEndian(v[1], IntSize[column.type])
    [] column.type = "float_" -> FloatBytes(float, v)
    [] column.type = "double_" -> FloatBytes(double, v)
    [] column.type = "date" -> IF Zero(v, 1, 3) THEN <<0>> ELSE <<4>> \o DateBytes(v)
    [] column.type \in {"datetime", "timestamp"} ->
         IF Zero(v, 1, 7) THEN <<0>>
         ELSE IF Zero(v, 4, 7) THEN <<4>> \o DateBytes(v)
         ELSE IF Zero(v, 7, 7) THEN <<7>> \o DateBytes(v) \o SubSeq(v, 4, 6)
         ELSE <<11>> \o DateBytes(v) \o SubSeq(v, 4, 6) \o LittleEndian(v[7], 4)
    [] column.type = "time" ->
         LET dhms == <<v[1]>> \o LittleEndian(v[2] \div 24, 4) \o <<v[2] % 24, v[3], v[4]>> IN
         IF Zero(v, 2, 5) THEN <<0>>
         ELSE IF v[5] = 0 THEN <<8>> \o dhms
         ELSE <<12>> \o dhms \o LittleEndian(v[5], 4)
    [] OTHER -> serialize_string_lenenc(v)

\* One bit for each column, after two that are not used.
ServerBitmap(values) ==
  [k \in 1..((Len(values) + 2 + 7) \div 8) |->
     MapThenSumSet(LAMBDA bit : 2^bit,
       {bit \in 0..7 : LET i == 8 * (k - 1) + bit - 1 IN i \in DOMAIN values /\ values[i] = NULL})]

ServerRow(p, columns, values) ==
  LET text(i) == IF values[i] = NULL THEN <<251>>
                                     ELSE serialize_string_lenenc(ServerText(columns[i], values[i].v))
      binary(i) == IF values[i] = NULL THEN <<>> ELSE ServerBinary(columns[i], values[i].v)
  IN IF p = "text" THEN FlattenSeq([i \in DOMAIN values |-> text(i)])
                   ELSE <<0>> \o ServerBitmap(values) \o FlattenSeq([i \in DOMAIN values |-> binary(i)])
=============================================================================
