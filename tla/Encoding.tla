------------------------------ MODULE Encoding ------------------------------
(***************************************************************************)
(* The data types of the protocol (detail/protocol/serialization): fixed-  *)
(* size and length-encoded integers, strings that are length-encoded, end  *)
(* with a zero, have a fixed size or fill the rest of the message; and the *)
(* NULL bitmap (null_bitmap_traits.hpp).                                   *)
(*                                                                         *)
(* A byte is a number below 256 and a message a sequence of bytes.  A      *)
(* deserialization_context is the sequence of bytes that are left; what a  *)
(* deserialization returns is Failed(error) or Got(value, bytes left).     *)
(* Values are tagged tuples of numbers.                                    *)
(*                                                                         *)
(* Operators named after a mistake (BitPosWithoutOffset) are mutations of  *)
(* the definition that follows them, used by no behaviour.                 *)
(***************************************************************************)
EXTENDS Integers, SequencesExt

Byte == 0..255
ByteString == Seq(Byte)

Value(kind, v) == [kind |-> kind, v |-> v]
NULL == Value("null", <<>>)

Failed(err) == [err |-> err, value |-> <<>>, rest |-> <<>>]
Got(value, rest) == [err |-> "ok", value |-> value, rest |-> rest]

\* The next step of a deserialization, unless the one before it failed.
Then(got, next(_, _)) == IF got.err = "ok" THEN next(got.value, got.rest) ELSE got

Skip(bytes, n) == SubSeq(bytes, n + 1, Len(bytes))

-----------------------------------------------------------------------------
(* Integers, least significant byte first *)

BytesNotMasked(n, width) ==
  LET shifted[i \in 0..width] == IF i = 0 THEN n ELSE shifted[i - 1] \div 256
  IN [i \in 1..width |-> shifted[i - 1]]
LittleEndian(n, width) ==
  LET shifted[i \in 0..width] == IF i = 0 THEN n ELSE shifted[i - 1] \div 256
  IN [i \in 1..width |-> shifted[i - 1] % 256]

Unsigned(bytes) == FoldRight(LAMBDA byte, high : high * 256 + byte, bytes, 0)

\* Two's complement: the most significant byte carries the sign.
Signed(bytes) ==
  LET top == Last(bytes) IN
  FoldRight(LAMBDA byte, high : high * 256 + byte, Front(bytes),
            IF top >= 128 THEN top - 256 ELSE top)

Sum(widths) == FoldLeft(+, 0, widths)

\* deserialize for fixed-size integers: all of them are there, or the message
\* is incomplete.
deserialize(bytes, widths) ==
  LET start(i) == Sum(SubSeq(widths, 1, i - 1)) IN
  IF Len(bytes) < Sum(widths)
    THEN Failed("incomplete_message")
    ELSE Got([i \in 1..Len(widths) |->
                Unsigned(SubSeq(bytes, start(i) + 1, start(i) + widths[i]))],
             Skip(bytes, Sum(widths)))

-----------------------------------------------------------------------------
(* Length-encoded integers and strings *)

serialize_lenenc(n) ==
  CASE n < 251                       -> <<n>>
    [] n >= 251 /\ n < 65536         -> <<252>> \o LittleEndian(n, 2)
    [] n >= 65536 /\ n < 16777216    -> <<253>> \o LittleEndian(n, 3)
    [] OTHER                         -> <<254>> \o LittleEndian(n, 8)

LenencSizeOffByOne(n) ==
  CASE n <= 251 -> 1 [] n > 251 /\ n < 65536 -> 3 [] n >= 65536 /\ n < 16777216 -> 4 [] OTHER -> 9
get_size_lenenc(n) ==
  CASE n < 251                       -> 1
    [] n >= 251 /\ n < 65536         -> 3
    [] n >= 65536 /\ n < 16777216    -> 4
    [] OTHER                         -> 9

LenencWidth(first) ==
  CASE first = 252 -> 2 [] first = 253 -> 3 [] first = 254 -> 8 [] OTHER -> 0

\* Any other first byte is the value: 251 and 255 too.
deserialize_lenenc(bytes) ==
  Then(deserialize(bytes, <<1>>), LAMBDA first, rest :
    IF LenencWidth(first[1]) = 0 THEN Got(first, rest)
                                 ELSE deserialize(rest, <<LenencWidth(first[1])>>))

deserialize_string_lenenc(bytes) ==
  Then(deserialize_lenenc(bytes), LAMBDA length, rest :
    IF Len(rest) < length[1]
      THEN Failed("incomplete_message")
      ELSE Got(SubSeq(rest, 1, length[1]), Skip(rest, length[1])))

serialize_string_lenenc(string) == serialize_lenenc(Len(string)) \o string

-----------------------------------------------------------------------------
(* The other strings *)

\* Up to the first zero, which is left out.
deserialize_string_null(bytes) ==
  IF \A i \in DOMAIN bytes : bytes[i] # 0
    THEN Failed("incomplete_message")
    ELSE LET end == CHOOSE i \in DOMAIN bytes : bytes[i] = 0 /\ \A j \in 1..(i - 1) : bytes[j] # 0
         IN Got(SubSeq(bytes, 1, end - 1), Skip(bytes, end))

\* All that is left: this never fails.
deserialize_string_eof(bytes) == Got(bytes, <<>>)

deserialize_string_fixed(bytes, size) ==
  IF Len(bytes) < size THEN Failed("incomplete_message")
                       ELSE Got(SubSeq(bytes, 1, size), Skip(bytes, size))

\* deserialize_message_type: the first byte.
deserialize_message_type(bytes) ==
  Then(deserialize(bytes, <<1>>), LAMBDA type, rest : Got(type[1], rest))

-----------------------------------------------------------------------------
(* null_bitmap_traits; fields count from 0 as in the code *)

stmt_execute_null_bitmap_offset == 0
binary_row_null_bitmap_offset == 2

byte_count(offset, num_fields) == (num_fields + 7 + offset) \div 8

byte_pos(offset, field_pos) == (field_pos + offset) \div 8

BitPosWithoutOffset(offset, field_pos) == field_pos % 8
bit_pos(offset, field_pos) == (field_pos + offset) % 8

is_null(bitmap, offset, field_pos) ==
  (bitmap[byte_pos(offset, field_pos) + 1] \div 2^bit_pos(offset, field_pos)) % 2 = 1

\* |= with the bit of a field
set_null(bitmap, offset, field_pos) ==
  LET added == IF is_null(bitmap, offset, field_pos) THEN 0 ELSE 2^bit_pos(offset, field_pos) IN
  [k \in DOMAIN bitmap |-> bitmap[k] + IF k = byte_pos(offset, field_pos) + 1 THEN added ELSE 0]
=============================================================================
