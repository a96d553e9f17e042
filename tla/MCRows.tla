------------------------------- MODULE MCRows -------------------------------
(***************************************************************************)
(* Rows for TLC: each type with its zero, its ends and what the calendar   *)
(* does not have, pairs of those, and rows of NULLs and numbers with as    *)
(* many columns as make the NULL bitmap one byte longer; every SQL type    *)
(* with and without flags; the ends of a resultset.                        *)
(***************************************************************************)
EXTENDS Rows

Columns(column, kind, values) == {[column |-> column, value |-> Value(kind, v)] : v \in values}
UnsignedFlag == 5

Bytes(n) == [i \in 1..n |-> 251 + (i % 5)]

OneColumn ==
  Columns(Column("tinyint", {}, 0), "int64", {<<0>>, <<127>>, <<-1>>, <<-128>>})
    \cup Columns(Column("tinyint", {UnsignedFlag}, 0), "uint64", {<<128>>, <<255>>})
    \cup Columns(Column("smallint", {}, 0), "int64", {<<32767>>, <<-32768>>})
    \cup Columns(Column("year", {}, 0), "uint64", {<<0>>, <<2155>>})
    \cup Columns(Column("mediumint", {}, 0), "int64", {<<-8388608>>})
    \cup Columns(Column("bigint", {}, 0), "int64", {<<-1>>, <<2^30 - 1>>})
    \cup Columns(Column("bigint", {UnsignedFlag}, 0), "uint64", {<<251>>, <<2^30 - 1>>, <<2^30>>})
    \cup Columns(Column("float_", {}, 31), "float", {<<0, 0>>, <<-17, -3>>, <<8191, -6>>})
    \cup Columns(Column("double_", {}, 31), "double", {<<3, 10>>, <<-1, -8>>})
    \cup Columns(Column("varchar", {}, 0), "string", {<<>>, <<0>>, Bytes(3), Bytes(250), Bytes(251)})
    \cup Columns(Column("date", {}, 0), "date",
           {<<0, 0, 0>>, <<2020, 2, 29>>, <<2019, 2, 29>>, <<1900, 2, 29>>, <<2010, 0, 5>>, <<9999, 12, 31>>,
            <<2000, 4, 31>>})
    \cup Columns(Column("datetime", {}, 0), "datetime",
           {<<0, 0, 0, 0, 0, 0, 0>>, <<2020, 2, 29, 0, 0, 0, 0>>, <<2010, 11, 0, 10, 0, 59, 0>>,
            <<9999, 12, 31, 23, 59, 59, 0>>})
    \cup Columns(Column("timestamp", {}, 2), "datetime",
           {<<2020, 1, 1, 0, 0, 0, 850000>>, <<2019, 2, 30, 1, 2, 3, 10000>>})
    \cup Columns(Column("datetime", {}, 31), "datetime", {<<1, 1, 1, 0, 0, 0, 1>>})
    \cup Columns(Column("time", {}, 0), "time",
           {<<0, 0, 0, 0, 0>>, <<1, 838, 59, 59, 0>>, <<0, 100, 0, 1, 0>>, <<1, 0, 0, 1, 0>>})
    \cup Columns(Column("time", {}, 3), "time",
           {<<1, 0, 0, 0, 5000>>, <<0, 23, 59, 59, 999000>>, <<0, 24, 0, 0, 0>>})
    \cup Columns(Column("time", {}, 6), "time", {<<1, 838, 59, 59, 999999>>})

\* Values no server should send, two infinities among them.
OutOfRange ==
  Columns(Column("float_", {}, 31), "float", {<<1, 128>>})
    \cup Columns(Column("double_", {}, 31), "double", {<<-1, 1024>>})
    \cup Columns(Column("date", {}, 0), "date", {<<2010, 13, 1>>, <<2010, 12, 32>>})
    \cup Columns(Column("datetime", {}, 1), "datetime",
           {<<2010, 13, 1, 0, 0, 0, 0>>, <<2010, 2, 30, 24, 0, 0, 0>>, <<2010, 1, 1, 0, 60, 0, 0>>})
    \cup Columns(Column("time", {}, 2), "time", {<<0, 840, 0, 0, 0>>, <<1, 10, 0, 60, 0>>})

\* Of these the limits of the two protocols differ: binary times go on past the
\* 839 hours that are documented.
AcceptedInBinary == Columns(Column("time", {}, 0), "time", {<<0, 839, 0, 0, 0>>, <<1, 839, 59, 59, 0>>})

Null(c) == [c EXCEPT !.value = NULL]
Sent(cs, refused) ==
  Reply("rows", [i \in DOMAIN cs |-> cs[i].column], <<[i \in DOMAIN cs |-> cs[i].value]>>, refused, NoOk)
Row(cs) == Sent(cs, {})

Number == [column |-> Column("tinyint", {}, 0), value |-> Value("int64", <<-5>>)]
WideRow(n, nulls) == Row([i \in 1..n |-> IF i \in nulls THEN Null(Number) ELSE Number])

LongColumn == [column |-> Column("blob", {}, 0), value |-> Value("string", [i \in 1..65536 |-> 7])]

\* Second columns of the pairs: one for each way to encode a value.
SecondColumn ==
  Columns(Column("tinyint", {}, 0), "int64", {<<-1>>})
    \cup Columns(Column("varchar", {}, 0), "string", {<<>>, Bytes(251)})
    \cup Columns(Column("date", {}, 0), "date", {<<0, 0, 0>>, <<2019, 2, 29>>})
    \cup Columns(Column("timestamp", {}, 2), "datetime", {<<2020, 1, 1, 0, 0, 0, 850000>>})
    \cup Columns(Column("time", {}, 3), "time", {<<1, 0, 0, 0, 5000>>})

\* Columns of every type with flags of every kind, and the ends of a resultset.
DefinedColumns ==
  {Column(type, flags, decimals) :
     type \in DOMAIN TypeCode, flags \in {{}, {0, 1, 9}, {2, 12}, {0, 3, 5, 6}, {13, 14, 15}}, decimals \in {0, 31}}
Finals ==
  {NoOk, Ok(0, 0, 2, 0, <<82, 0>>), Ok(251, 65536, 34, 3, [i \in 1..12 |-> 33]),
   [code |-> 1064, text |-> <<66, 97, 100>>], [code |-> 65535, text |-> <<>>]}

MCReplies ==
  {Row(<<c>>) : c \in OneColumn}
    \cup {Sent(<<c>>, {"text", "binary"}) : c \in OutOfRange}
    \cup {Sent(<<c>>, {"text"}) : c \in AcceptedInBinary}
    \cup {Row(<<c, d>>) : c \in OneColumn, d \in SecondColumn}
    \cup {Row(<<Null(c), d>>) : c \in OneColumn, d \in SecondColumn}
    \cup UNION {{WideRow(n, nulls) : nulls \in SUBSET (1..n)} : n \in {6, 7}}
    \cup {WideRow(n, {i, 15}) : n \in 14..16, i \in 1..16}
    \cup {Row(<<LongColumn, Number>>)}
    \cup {Reply("rows", <<c>>, <<>>, {}, NoOk) : c \in DefinedColumns}
    \cup {Reply("rows", <<Number.column>>, rows, {}, final) : rows \in {<<>>, <<<<NULL>>>>}, final \in Finals}
    \cup {Reply("ok", <<>>, <<>>, {}, final) : final \in {f \in Finals : "code" \notin DOMAIN f}}
    \cup {Reply("error", <<>>, <<>>, {}, final) : final \in {f \in Finals : "code" \in DOMAIN f}}

MCTails == {<<0>>, <<251>>}
=============================================================================
