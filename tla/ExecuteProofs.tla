---------------------------- MODULE ExecuteProofs -----------------------------
(***************************************************************************)
(* Execute messages fit the buffer that was sized for them, for every list *)
(* of parameters: no part is written past the end of it, and when the last *)
(* value is written it is full.                                            *)
(***************************************************************************)
EXTENDS Execute, EncodingProofs

(* The size of a value *)

LEMMA IntegerSize == \A n : \A width \in Nat : Sized(LittleEndian(n, width), width)
BY LittleEndianSize DEF Sized

LEMMA ShortSize ==
  /\ Sized(<<>>, 0)
  /\ \A a : Sized(<<a>>, 1)
  /\ \A a, b : Sized(<<a, b>>, 2)
  /\ \A a, b, c : Sized(<<a, b, c>>, 3)
<1>1. 0 \in Nat /\ 1 \in Nat /\ 2 \in Nat /\ 3 \in Nat
  OBVIOUS
<1> QED BY <1>1, Short, Zenon DEF Sized

LEMMA FloatSize ==
  ASSUME NEW type \in {float, double}, NEW number
  PROVE  Sized(FloatBytes(type, number), type.size)
<1> DEFINE m == IF number[1] < 0 THEN -number[1] ELSE number[1]
           bits == CHOOSE n \in 0..24 : 2^n <= m /\ m < 2^(n + 1)
           top == (number[2] + bits + type.bias) * 2^type.fraction + (m - 2^bits) * 2^(type.fraction - bits)
           number_ == IF m = 0 THEN 0 ELSE top
           bytes == LittleEndian(number_, 4)
           signed == [bytes EXCEPT ![4] = IF number[1] < 0 THEN @ + 128 ELSE @]
           zeros == [i \in 1..(type.size - 4) |-> 0]
<1>1. FloatBytes(type, number) = zeros \o signed
  BY Zenon DEF FloatBytes
<1>2. type.size - 4 \in Nat /\ (type.size - 4) + 4 = type.size
  BY DEF float, double
<1>3. Sized(zeros, type.size - 4)
  <2>1. zeros = [i \in 1..(type.size - 4) |-> zeros[i]]
    OBVIOUS
  <2> HIDE DEF zeros
  <2> QED BY <1>2, <2>1, Listed DEF Sized
<1>4. Sized(signed, 4)
  <2>1. bytes = [i \in 1..4 |-> bytes[i]]
    <3> HIDE DEF number_
    <3> QED BY DEF LittleEndian
  <2>2. signed = [i \in 1..4 |-> signed[i]]
    <3> HIDE DEF bytes
    <3> QED BY <2>1
  <2> HIDE DEF signed
  <2> QED BY <2>2, Listed DEF Sized
<1> HIDE DEF zeros, signed
<1>5. Sized(zeros \o signed, (type.size - 4) + 4)
  BY <1>3, <1>4, JoinedSize, Zenon
<1> QED BY <1>1, <1>2, <1>5, Zenon

LEMMA YmdSize ==
  ASSUME NEW v \in Seq(Int), Len(v) >= 3
  PROVE  Sized(serialize_binary_ymd(v), 4)
<1>1. SubSeq(v, 2, 3) \in Seq(Int) /\ Len(SubSeq(v, 2, 3)) = 2
  OBVIOUS
<1>2. Sized(SubSeq(v, 2, 3), 2)
  BY <1>1 DEF IsSeq, Sized
<1>3. Sized(LittleEndian(v[1], 2), 2) /\ 2 + 2 = 4
  BY IntegerSize
<1>4. Sized(LittleEndian(v[1], 2) \o SubSeq(v, 2, 3), 2 + 2)
  BY <1>2, <1>3, JoinedSize, Zenon
<1> QED BY <1>3, <1>4, Zenon DEF serialize_binary_ymd

LEMMA TimeSize ==
  ASSUME NEW v
  PROVE  Sized(serialize_time(v), 13)
<1> DEFINE s == Abs(v[1])
           sign == IF v[1] < 0 \/ v[2] < 0 THEN 1 ELSE 0
           head == <<12, sign>>
           days == LittleEndian(s \div 86400, 4)
           hours == (s \div 3600) % 24
           minutes == (s \div 60) % 60
           seconds == s % 60
           hms == <<hours, minutes, seconds>>
           micros == LittleEndian(Abs(v[2]), 4)
<1>1. serialize_time(v) = head \o days \o hms \o micros
  BY DEF serialize_time
<1>2. Sized(head, 2) /\ Sized(hms, 3)
  <2> HIDE DEF sign, hours, minutes, seconds
  <2> QED BY ShortSize, Zenon
<1>3. Sized(days, 4) /\ Sized(micros, 4)
  <2>1. 4 \in Nat
    OBVIOUS
  <2> DEFINE d == s \div 86400
             u == Abs(v[2])
  <2>2. Sized(LittleEndian(d, 4), 4) /\ Sized(LittleEndian(u, 4), 4)
    <3> HIDE DEF d, u
    <3> QED BY <2>1, IntegerSize, Zenon
  <2> QED BY <2>2
<1> HIDE DEF head, days, hms, micros
<1>4. Sized(head \o days \o hms \o micros, 2 + 4 + 3 + 4)
  BY <1>2, <1>3, JoinedSize, Zenon
<1>5. 2 + 4 + 3 + 4 = 13
  OBVIOUS
<1> QED BY <1>1, <1>4, <1>5, Zenon

\* The sizes of get_binary_value_size are those of serialize_binary_value.
LEMMA ValueSize ==
  ASSUME NEW value, IsValue(value)
  PROVE  Sized(serialize_binary_value(value), get_binary_value_size(value))
<1> DEFINE v == value.v
<1>1. CASE value.kind \in {"int64", "uint64"}
  <2>1. serialize_binary_value(value) = LittleEndian(v[1], 8) /\ get_binary_value_size(value) = 8
    BY <1>1 DEF serialize_binary_value, get_binary_value_size
  <2>2. 8 \in Nat
    OBVIOUS
  <2> QED BY <2>1, <2>2, IntegerSize, Zenon
<1>2. CASE value.kind = "float"
  <2>1. serialize_binary_value(value) = FloatBytes(float, v) /\ get_binary_value_size(value) = 4
    BY <1>2 DEF serialize_binary_value, get_binary_value_size
  <2>2. float.size = 4 /\ float \in {float, double}
    BY DEF float
  <2> QED BY <2>1, <2>2, FloatSize, Zenon
<1>3. CASE value.kind = "double"
  <2>1. serialize_binary_value(value) = FloatBytes(double, v) /\ get_binary_value_size(value) = 8
    BY <1>3 DEF serialize_binary_value, get_binary_value_size
  <2>2. double.size = 8 /\ double \in {float, double}
    BY DEF double
  <2> QED BY <2>1, <2>2, FloatSize, Zenon
<1>4. CASE value.kind = "string"
  <2>1. /\ serialize_binary_value(value) = serialize_string_lenenc(v)
        /\ get_binary_value_size(value) = get_size_lenenc(Len(v)) + Len(v)
    BY <1>4 DEF serialize_binary_value, get_binary_value_size
  <2>2. IsSeq(v)
    BY DEF IsValue, IsSeq
  <2>3. Sized(serialize_string_lenenc(v), get_size_lenenc(Len(v)) + Len(v))
    <3> HIDE DEF v
    <3> QED BY <2>2, LenencStringSize, Zenon DEF Sized
  <2> QED BY <2>1, <2>3
<1>5. CASE value.kind = "date"
  <2>1. serialize_binary_value(value) = <<4>> \o serialize_binary_ymd(v) /\ get_binary_value_size(value) = 5
    BY <1>5 DEF serialize_binary_value, get_binary_value_size
  <2>2. v \in Seq(Int) /\ Len(v) >= 3 /\ 1 + 4 = 5
    <3>1. v \in Seq(Int) /\ Len(v) = 3
      BY <1>5 DEF IsValue, NumbersIn
    <3> HIDE DEF v
    <3> QED BY <3>1
  <2> HIDE DEF v
  <2>3. Sized(serialize_binary_ymd(v), 4)
    BY <2>2, YmdSize, Zenon
  <2>4. Sized(<<4>>, 1)
    BY ShortSize, Zenon
  <2>5. Sized(<<4>> \o serialize_binary_ymd(v), 1 + 4)
    BY <2>3, <2>4, JoinedSize, Zenon
  <2> QED BY <2>1, <2>2, <2>5, Zenon
<1>6. CASE value.kind = "datetime"
  <2> DEFINE ymd == serialize_binary_ymd(v)
             hms == SubSeq(v, 4, 6)
             micros == LittleEndian(v[7], 4)
  <2>1. /\ serialize_binary_value(value) = <<11>> \o ymd \o hms \o micros
        /\ get_binary_value_size(value) = 12
    BY <1>6 DEF serialize_binary_value, get_binary_value_size
  <2>2. v \in Seq(Int) /\ Len(v) = 7
    BY <1>6 DEF IsValue, NumbersIn
  <2>3. Sized(ymd, 4)
    <3> HIDE DEF v
    <3>1. Len(v) >= 3
      BY <2>2
    <3> QED BY <2>2, <3>1, YmdSize, Zenon
  <2>4. Sized(<<11>>, 1)
    BY ShortSize, Zenon
  <2>5. Sized(hms, 3)
    <3>1. hms \in Seq(Int) /\ Len(hms) = 3
      BY <2>2
    <3> QED BY <3>1 DEF IsSeq, Sized
  <2>6. Sized(micros, 4)
    BY IntegerSize
  <2> HIDE DEF ymd, hms, micros
  <2>7. Sized(<<11>> \o ymd \o hms \o micros, 1 + 4 + 3 + 4)
    BY <2>3, <2>4, <2>5, <2>6, JoinedSize, Zenon
  <2>8. 1 + 4 + 3 + 4 = 12
    OBVIOUS
  <2> QED BY <2>1, <2>7, <2>8, Zenon
<1>7. CASE value.kind = "time"
  <2>1. serialize_binary_value(value) = serialize_time(v) /\ get_binary_value_size(value) = 13
    BY <1>7 DEF serialize_binary_value, get_binary_value_size
  <2> HIDE DEF v
  <2> QED BY <2>1, TimeSize, Zenon
<1>8. CASE value.kind = "null"
  <2>1. serialize_binary_value(value) = <<>> /\ get_binary_value_size(value) = 0
    BY <1>8 DEF serialize_binary_value, get_binary_value_size
  <2> QED BY <2>1, ShortSize, Zenon
<1> QED BY <1>1, <1>2, <1>3, <1>4, <1>5, <1>6, <1>7, <1>8 DEF IsValue, NumbersIn

-----------------------------------------------------------------------------
(* The NULL bitmap *)

\* One field after the other, starting from cleared bits.
Bits(size) == [1..size -> Int]
Marked(k, bits) ==
  IF params[k] = NULL THEN set_null(bits, stmt_execute_null_bitmap_offset, k - 1) ELSE bits

LEMMA SetNullKeepsSize ==
  ASSUME NEW size \in Nat, NEW bits \in Bits(size), NEW k \in Nat \ {0}
  PROVE  Marked(k, bits) \in Bits(size)
<1>1. \A p \in Nat : 2^p \in Int
  OBVIOUS
<1>2. bit_pos(stmt_execute_null_bitmap_offset, k - 1) \in Nat
  BY DEF bit_pos, stmt_execute_null_bitmap_offset
<1> DEFINE added == IF is_null(bits, stmt_execute_null_bitmap_offset, k - 1)
                      THEN 0 ELSE 2^bit_pos(stmt_execute_null_bitmap_offset, k - 1)
           at == byte_pos(stmt_execute_null_bitmap_offset, k - 1) + 1
<1>3. added \in Int
  BY <1>1, <1>2
<1>4. set_null(bits, stmt_execute_null_bitmap_offset, k - 1)
        = [j \in DOMAIN bits |-> bits[j] + IF j = at THEN added ELSE 0]
  BY Zenon DEF set_null
<1> HIDE DEF added, at
<1>5. set_null(bits, stmt_execute_null_bitmap_offset, k - 1) \in Bits(size)
  BY <1>3, <1>4 DEF Bits
<1> QED BY <1>5 DEF Marked

LEMMA BitmapKeepsSize ==
  ASSUME NEW size \in Nat, NEW bitmap \in Bits(size), NEW n \in Nat, params = [i \in 1..n |-> params[i]]
  PROVE  WithNulls(bitmap) \in Bits(size)
<1> DEFINE step == [k \in 1..n |-> [bits \in Bits(size) |-> Marked(k, bits)]]
<1>1. PICK f : Folds_(f, 1..n, Bits(size), bitmap, Greatest(n), step)
  <2>1. Steps(step, 1..n, Bits(size))
    <3>1. \A k \in 1..n : \A bits \in Bits(size) : Marked(k, bits) \in Bits(size)
      BY SetNullKeepsSize
    <3> QED BY <3>1 DEF Steps
  <2>2. IsFiniteSet(1..n) /\ Chooses(Greatest(n), 1..n) /\ bitmap \in Bits(size)
    BY GreatestChooses, FiniteInterval
  <2> HIDE DEF step
  <2> QED BY <2>1, <2>2, FoldExists, Zenon
<1>2. f[{}] = bitmap /\ f \in [SUBSET (1..n) -> Bits(size)]
  <2> HIDE DEF step
  <2> QED BY <1>1 DEF Folds_, Folded
<1>3. \A s \in SUBSET (1..n) : s # {} =>
        f[s] = Marked(Max(s), f[s \ {Max(s)}]) /\ Max(s) \in 1..n
  <2> SUFFICES ASSUME NEW s \in SUBSET (1..n), s # {}
               PROVE  f[s] = Marked(Max(s), f[s \ {Max(s)}]) /\ Max(s) \in 1..n
    OBVIOUS
  <2>1. Greatest(n)[s] = Max(s) /\ Max(s) \in 1..n
    BY GreatestChooses
  <2>2. f[s] = step[Max(s)][f[s \ {Max(s)}]]
    <3> HIDE DEF step
    <3> QED BY <1>1, <2>1, Zenon DEF Folds_, Folded
  <2>3. f[s \ {Max(s)}] \in Bits(size)
    BY <1>2
  <2> QED BY <2>1, <2>2, <2>3
<1> DEFINE order == [i \in DOMAIN params |-> i]
           Marks(k, bits) == IF params[order[k]] = NULL
                               THEN set_null(bits, stmt_execute_null_bitmap_offset, order[k] - 1) ELSE bits
           it == CHOOSE it : it = [s \in SUBSET DOMAIN order |->
                                     IF s = {} THEN bitmap ELSE Marks(Max(s), it[s \ {Max(s)}])]
<1>4. DOMAIN params = 1..n /\ DOMAIN order = 1..n /\ \A k \in 1..n : order[k] = k
  OBVIOUS
<1>5. f = [s \in SUBSET DOMAIN order |-> IF s = {} THEN bitmap ELSE Marks(Max(s), f[s \ {Max(s)}])]
  <2>1. \A s \in SUBSET (1..n) : s # {} => Marked(Max(s), f[s \ {Max(s)}]) = Marks(Max(s), f[s \ {Max(s)}])
    <3> HIDE DEF order
    <3> QED BY <1>3, <1>4 DEF Marked
  <2> DEFINE next(s) == IF s = {} THEN bitmap ELSE Marks(Max(s), f[s \ {Max(s)}])
  <2>2. \A s \in SUBSET (1..n) : f[s] = next(s)
    <3> HIDE DEF Marks, order
    <3> QED BY <1>2, <1>3, <2>1
  <2>3. f = [s \in SUBSET (1..n) |-> next(s)]
    <3> HIDE DEF next
    <3> QED BY <1>2, <2>2
  <2> HIDE DEF Marks, order
  <2> QED BY <1>4, <2>3, Zenon
<1>6. it = [s \in SUBSET DOMAIN order |-> IF s = {} THEN bitmap ELSE Marks(Max(s), it[s \ {Max(s)}])]
  <2> HIDE DEF Marks, order
  <2> QED BY <1>5, Zenon
<1>7. WithNulls(bitmap) = it[DOMAIN order]
  BY Zenon DEF WithNulls, FoldLeft, MapThenFoldSet
<1> HIDE DEF it
<1>8. it[1..n] = f[1..n]
  <2>1. it[{}] = f[{}]
    <3> HIDE DEF Marks, order
    <3> QED BY <1>4, <1>5, <1>6
  <2>2. \A s \in SUBSET (1..n) :
          s # {} /\ it[s \ {Greatest(n)[s]}] = f[s \ {Greatest(n)[s]}] => it[s] = f[s]
    <3> SUFFICES ASSUME NEW s \in SUBSET (1..n), s # {},
                        it[s \ {Greatest(n)[s]}] = f[s \ {Greatest(n)[s]}]
                 PROVE  it[s] = f[s]
      OBVIOUS
    <3> HIDE DEF Marks, order
    <3>1. s \in SUBSET DOMAIN order
      BY <1>4
    <3>2. it[s] = Marks(Max(s), it[s \ {Max(s)}])
      BY <1>6, <3>1, Zenon
    <3>3. f[s] = Marks(Max(s), f[s \ {Max(s)}])
      BY <1>5, <3>1, Zenon
    <3>4. Greatest(n)[s] = Max(s)
      BY GreatestChooses
    <3> QED BY <3>2, <3>3, <3>4, Zenon
  <2>3. IsFiniteSet(1..n) /\ Chooses(Greatest(n), 1..n)
    BY GreatestChooses, FiniteInterval
  <2>4. SameSteps(it, f, 1..n, Greatest(n))
    BY <2>1, <2>2 DEF SameSteps
  <2> QED BY <2>3, <2>4, FoldUnique, Zenon
<1> QED BY <1>2, <1>4, <1>7, <1>8

-----------------------------------------------------------------------------
(* The parts of an execute message, and where each of them is *)

HeadSize(id) == get_size_struct(com_stmt_execute, com_stmt_execute_packet, make_stmt_execute_packet(id))
NullBitmapSize(list) == byte_count(stmt_execute_null_bitmap_offset, Len(list))
ValueSizes(list) == [i \in DOMAIN list |-> get_binary_value_size(list[i])]
TotalSize(id, list) ==
  HeadSize(id) + NullBitmapSize(list) + 1 + 2 * Len(list) + Sum(ValueSizes(list))

Position(part, id, list, i) ==
  CASE part = "head"   -> 0
    [] part = "bitmap" -> HeadSize(id)
    [] part = "types"  -> HeadSize(id) + NullBitmapSize(list) + 1 + 2 * i
    [] part = "values" -> HeadSize(id) + NullBitmapSize(list) + 1 + 2 * Len(list) + SumTo(ValueSizes(list), i)

Writing == {"head", "bitmap", "types", "values"}

Layout ==
  /\ pc \in Writing =>
       /\ params \in ParamLists
       /\ index \in 0..Len(params)
       /\ pc \in {"head", "bitmap"} => index = 0
       /\ buffer = [i \in 1..TotalSize(stmt_msg_.statement_id, params) |-> buffer[i]]
       /\ first = Position(pc, stmt_msg_.statement_id, params, index)
  /\ pc = "sent" /\ request.kind = "execute" => first = Len(buffer)

LEMMA ListSizes ==
  ASSUME NEW list \in ParamLists
  PROVE  /\ Len(list) \in Nat /\ list = [i \in 1..Len(list) |-> list[i]]
         /\ \A i \in 1..Len(list) : IsValue(list[i])
         /\ ValueSizes(list) \in [1..Len(list) -> Nat]
         /\ NullBitmapSize(list) \in Nat
<1>1. list \in Seq(Range(list)) /\ \A i \in DOMAIN list : IsValue(list[i])
  BY ParamAssumption
<1>2. Len(list) \in Nat /\ DOMAIN list = 1..Len(list) /\ list = [i \in 1..Len(list) |-> list[i]]
  BY <1>1
<1>3. \A i \in 1..Len(list) : get_binary_value_size(list[i]) \in Nat
  BY <1>1, <1>2, ValueSize DEF Sized
<1>4. NullBitmapSize(list) \in Nat
  BY <1>2 DEF NullBitmapSize, byte_count, stmt_execute_null_bitmap_offset
<1> QED BY <1>1, <1>2, <1>3, <1>4 DEF ValueSizes

LEMMA HeadFits ==
  ASSUME NEW id
  PROVE  Sized(serialize_struct(com_stmt_execute, com_stmt_execute_packet, make_stmt_execute_packet(id)),
               HeadSize(id))
<1>1. IsSeq(com_stmt_execute)
  BY Short DEF com_stmt_execute
<1>2. Layouts(com_stmt_execute_packet, make_stmt_execute_packet(id))
  BY DEF Layouts, com_stmt_execute_packet, Fits, FieldTypes, int, FieldOf
<1> QED BY <1>1, <1>2, StructSize DEF Sized, HeadSize

LEMMA MetaFits ==
  ASSUME NEW meta
  PROVE  /\ Sized(serialize_struct(<<>>, com_stmt_execute_param_meta_packet, meta), 2)
         /\ Sum([i \in 1..2 |-> com_stmt_execute_param_meta_packet[i].size]) = 2
<1> DEFINE fields == com_stmt_execute_param_meta_packet
           sizes == [i \in 1..2 |-> fields[i].size]
<1>1. IsSeq(<<>>) /\ Len(<<>>) = 0
  BY Short
<1>2. /\ DOMAIN fields = 1..2
      /\ \A i \in 1..2 : fields[i].type = "fixed_size_int" /\ fields[i].size = 1
  BY DEF com_stmt_execute_param_meta_packet, enumeration, int, FieldOf
<1>3. Layouts(fields, meta)
  BY DEF Layouts, com_stmt_execute_param_meta_packet, Fits, FieldTypes, enumeration, int, FieldOf
<1>4. Sum(sizes) = 2
  <2> DEFINE g == [i \in 0..2 |-> i]
  <2>1. sizes \in [1..2 -> Int] /\ g[0] = 0 /\ g[2] = 2 /\ \A k \in 1..2 : g[k] = g[k - 1] + sizes[k]
    BY <1>2
  <2> HIDE DEF sizes, g
  <2>2. 2 \in Nat
    OBVIOUS
  <2> QED BY <2>1, <2>2, SumValue
<1>5. get_size_struct(<<>>, fields, meta) = 0 + Sum(sizes)
  <2>1. [i \in DOMAIN fields |-> get_size_(fields[i], meta[fields[i].name])] = sizes
    BY <1>2 DEF get_size_
  <2> HIDE DEF fields, sizes
  <2> QED BY <1>1, <2>1, Zenon DEF get_size_struct
<1>6. Sized(serialize_struct(<<>>, fields, meta), get_size_struct(<<>>, fields, meta))
  <2> HIDE DEF fields
  <2> QED BY <1>1, <1>3, StructSize, Zenon DEF Sized
<1> HIDE DEF fields, sizes
<1>7. get_size_struct(<<>>, fields, meta) = 2
  BY <1>4, <1>5
<1>8. Sized(serialize_struct(<<>>, fields, meta), 2) /\ Sum(sizes) = 2
  BY <1>4, <1>6, <1>7, Zenon
<1> QED BY <1>8 DEF fields, sizes

LEMMA SizeOfMessage ==
  ASSUME NEW id, NEW list \in ParamLists
  PROVE  get_size(make_stmt_execute_packet(id), list) = TotalSize(id, list)
<1>1. Sum([i \in 1..2 |-> com_stmt_execute_param_meta_packet[i].size]) = 2
  BY MetaFits
<1>2. get_size(make_stmt_execute_packet(id), list) =
        HeadSize(id) + NullBitmapSize(list) + 1 + 2 * Len(list) + Sum(ValueSizes(list))
  BY <1>1, Zenon DEF get_size, HeadSize, NullBitmapSize, ValueSizes
<1> QED BY <1>2 DEF TotalSize

\* The positions of the parts are in this order, and none is past the end.
LEMMA PositionsInBuffer ==
  ASSUME NEW id, NEW list \in ParamLists, NEW i \in 0..Len(list)
  PROVE  /\ HeadSize(id) \in Nat /\ TotalSize(id, list) \in Nat
         /\ \A part \in Writing : Position(part, id, list, i) \in Nat
                                    /\ Position(part, id, list, i) <= TotalSize(id, list)
         /\ Position("values", id, list, Len(list)) = TotalSize(id, list)
         /\ Position("values", id, list, 0) = Position("types", id, list, Len(list))
         /\ i < Len(list) => Position("values", id, list, i + 1)
                               = Position("values", id, list, i) + get_binary_value_size(list[i + 1])
<1> DEFINE n == Len(list)
           a == ValueSizes(list)
<1>1. n \in Nat /\ a \in [1..n -> Nat] /\ NullBitmapSize(list) \in Nat
  BY ListSizes
<1>2. HeadSize(id) \in Nat
  BY HeadFits DEF Sized
<1>3. a \in [1..n -> Int]
  BY <1>1
<1>4. i < n => a[i + 1] = get_binary_value_size(list[i + 1])
  BY ListSizes DEF ValueSizes
<1> HIDE DEF a
<1>5. /\ SumTo(a, 0) = 0 /\ SumTo(a, n) = Sum(a)
      /\ \A k \in 1..n : SumTo(a, k) = SumTo(a, k - 1) + a[k]
  BY <1>1, <1>3, SumPrefix
<1>6. \A j, k \in 0..n : j <= k => SumTo(a, j) \in Nat /\ SumTo(a, j) <= SumTo(a, k)
  BY <1>1, SumGrows
<1>7. SumTo(a, i) \in Nat /\ SumTo(a, i) <= Sum(a) /\ Sum(a) \in Nat
  BY <1>1, <1>5, <1>6
<1>8. i < n => SumTo(a, i + 1) = SumTo(a, i) + a[i + 1]
  BY <1>1, <1>5
<1>9. TotalSize(id, list) = HeadSize(id) + NullBitmapSize(list) + 1 + 2 * n + Sum(a)
  BY DEF TotalSize, a
<1>10. \A j : /\ Position("head", id, list, j) = 0
              /\ Position("bitmap", id, list, j) = HeadSize(id)
              /\ Position("types", id, list, j) = HeadSize(id) + NullBitmapSize(list) + 1 + 2 * j
              /\ Position("values", id, list, j) =
                   HeadSize(id) + NullBitmapSize(list) + 1 + 2 * n + SumTo(a, j)
  BY DEF Position, a
<1> HIDE DEF n
<1>11. i \in Int /\ 0 <= i /\ i <= n
  BY DEF n
<1>12. TotalSize(id, list) \in Nat
  BY <1>1, <1>2, <1>7, <1>9
<1>13. \A part \in Writing : Position(part, id, list, i) \in Nat
                               /\ Position(part, id, list, i) <= TotalSize(id, list)
  <2>1. Position("head", id, list, i) \in Nat /\ Position("head", id, list, i) <= TotalSize(id, list)
    BY <1>10, <1>12
  <2>2. Position("bitmap", id, list, i) \in Nat /\ Position("bitmap", id, list, i) <= TotalSize(id, list)
    BY <1>1, <1>2, <1>7, <1>9, <1>10
  <2>3. Position("types", id, list, i) \in Nat /\ Position("types", id, list, i) <= TotalSize(id, list)
    <3>1. Position("types", id, list, i) = HeadSize(id) + NullBitmapSize(list) + 1 + 2 * i
      BY <1>10
    <3> QED BY <3>1, <1>1, <1>2, <1>7, <1>9, <1>11
  <2>4. Position("values", id, list, i) \in Nat /\ Position("values", id, list, i) <= TotalSize(id, list)
    BY <1>1, <1>2, <1>7, <1>9, <1>10
  <2> QED BY <2>1, <2>2, <2>3, <2>4 DEF Writing
<1>14. Position("values", id, list, n) = TotalSize(id, list)
  BY <1>5, <1>9, <1>10
<1>15. Position("values", id, list, 0) = Position("types", id, list, n)
  BY <1>1, <1>2, <1>5, <1>10
<1>16. i < n => Position("values", id, list, i + 1)
                  = Position("values", id, list, i) + get_binary_value_size(list[i + 1])
  BY <1>1, <1>2, <1>3, <1>4, <1>7, <1>8, <1>10, <1>11
<1> QED BY <1>2, <1>12, <1>13, <1>14, <1>15, <1>16 DEF n

-----------------------------------------------------------------------------
(* The invariant *)

Phases == {"idle", "sent", "prepared", "aborted"} \cup Writing

ExecuteInv == pc \in Phases /\ Layout

LEMMA Lengths ==
  ASSUME ExecuteInv, pc \in Writing
  PROVE  /\ TotalSize(stmt_msg_.statement_id, params) \in Nat
         /\ Len(buffer) = TotalSize(stmt_msg_.statement_id, params)
<1>1. params \in ParamLists /\ index \in 0..Len(params)
      /\ buffer = [i \in 1..TotalSize(stmt_msg_.statement_id, params) |-> buffer[i]]
  BY DEF ExecuteInv, Layout
<1>2. TotalSize(stmt_msg_.statement_id, params) \in Nat
  BY <1>1, PositionsInBuffer
<1> QED BY <1>1, <1>2, Listed, Zenon

\* A part is written at the position where the one before it ended.
LEMMA PartWritten ==
  ASSUME ExecuteInv, pc \in Writing, NEW bytes, NEW n, Sized(bytes, n), Write(bytes)
  PROVE  /\ first' = Position(pc, stmt_msg_.statement_id, params, index) + n
         /\ buffer' = [i \in 1..TotalSize(stmt_msg_.statement_id, params) |-> buffer'[i]]
         /\ n \in Nat
<1>1. first = Position(pc, stmt_msg_.statement_id, params, index)
      /\ buffer = [i \in 1..TotalSize(stmt_msg_.statement_id, params) |-> buffer[i]]
  BY DEF ExecuteInv, Layout
<1>2. Len(bytes) = n /\ n \in Nat
  BY DEF Sized
<1>3. first' = first + n
  BY <1>2 DEF Write
<1> DEFINE size == TotalSize(stmt_msg_.statement_id, params)
<1>4. DOMAIN buffer = 1..size
  BY <1>1
<1>5. buffer' = [i \in 1..size |-> IF i \in (first + 1)..(first + Len(bytes)) THEN bytes[i - first] ELSE buffer[i]]
  BY <1>4, Zenon DEF Write
<1>6. buffer' = [i \in 1..size |-> buffer'[i]]
  <2> HIDE DEF size
  <2> QED BY <1>5
<1> QED BY <1>1, <1>2, <1>3, <1>6

LEMMA InitExecuteInv == Init => ExecuteInv
BY DEF Init, ExecuteInv, Phases, Layout, Writing

LEMMA StepExecuteInv ==
  ASSUME ExecuteInv, [Next]_vars
  PROVE  ExecuteInv'
<1>1. ASSUME NEW kind, NEW statement, NEW text, NEW command, NEW fields, NEW message, NEW next,
             Request(kind, statement, text, command, fields, message, next),
             kind # "execute", next \in {"sent", "prepared"}
      PROVE  ExecuteInv'
  <2>1. pc' = next /\ request'.kind = kind
    BY <1>1 DEF Request, Asked
  <2> QED BY <1>1, <2>1 DEF ExecuteInv, Phases, Layout, Writing
<1>2. ASSUME NEW text, Query(text) PROVE ExecuteInv'
  BY <1>1, <1>2 DEF Query
<1>3. ASSUME NEW text, Prepare(text) PROVE ExecuteInv'
  BY <1>1, <1>3 DEF Prepare
<1>4. CASE Close
  BY <1>1, <1>4 DEF Close
<1>5. CASE Quit
  BY <1>1, <1>5 DEF Quit
<1>6. CASE ReadPrepareResponse \/ Respond
  <2>1. pc' = "idle"
    BY <1>6 DEF ReadPrepareResponse, Respond, Done
  <2> QED BY <2>1 DEF ExecuteInv, Phases, Layout, Writing
<1>7. ASSUME NEW list \in ParamLists, Execute(list) PROVE ExecuteInv'
  <2>1. CASE StartMessage(list)
    <3> DEFINE id == stmt_msg_.statement_id
    <3>1. /\ pc' = "head" /\ params' = list /\ first' = 0 /\ index' = 0 /\ stmt_msg_' = stmt_msg_
          /\ buffer' = [i \in 1..get_size(make_stmt_execute_packet(id), list) |-> 0]
      BY <2>1 DEF StartMessage, statementVars
    <3>2. buffer' = [i \in 1..TotalSize(id, list) |-> buffer'[i]]
      <4>1. get_size(make_stmt_execute_packet(id), list) = TotalSize(id, list)
        BY SizeOfMessage
      <4> HIDE DEF id
      <4> QED BY <3>1, <4>1
    <3>3. 0 \in 0..Len(list)
      BY ListSizes
    <3>4. Position("head", id, list, 0) = 0
      BY DEF Position
    <3> HIDE DEF id
    <3>5. stmt_msg_'.statement_id = id
      BY <3>1 DEF id
    <3> QED BY <3>1, <3>2, <3>3, <3>4, <3>5 DEF ExecuteInv, Phases, Layout, Writing
  <2>2. CASE UNCHANGED <<statementVars, request, buffer, pc, executionVars>>
    BY <2>2 DEF ExecuteInv, Layout, statementVars, executionVars
  <2> QED BY <1>7, <2>1, <2>2 DEF Execute
<1>8. CASE WriteHead
  <2> DEFINE id == stmt_msg_.statement_id
  <2>1. /\ pc = "head" /\ pc' = "bitmap" /\ index' = index /\ params' = params /\ stmt_msg_' = stmt_msg_
        /\ Write(serialize_struct(com_stmt_execute, com_stmt_execute_packet, make_stmt_execute_packet(id)))
    BY <1>8 DEF WriteHead, statementVars
  <2>2. params \in ParamLists /\ index \in 0..Len(params) /\ index = 0
    BY <2>1 DEF ExecuteInv, Layout, Writing
  <2>3. /\ first' = Position("head", id, params, index) + HeadSize(id)
        /\ buffer' = [i \in 1..TotalSize(id, params) |-> buffer'[i]]
        /\ HeadSize(id) \in Nat
    BY <2>1, HeadFits, PartWritten, Zenon DEF Writing
  <2>4. Position("head", id, params, index) = 0 /\ Position("bitmap", id, params, index) = HeadSize(id)
    BY DEF Position
  <2> HIDE DEF id
  <2>5. stmt_msg_'.statement_id = id
    BY <2>1 DEF id
  <2> QED BY <2>1, <2>2, <2>3, <2>4, <2>5 DEF ExecuteInv, Phases, Layout, Writing
<1>9. CASE WriteBitmap
  <2> DEFINE id == stmt_msg_.statement_id
             bitmap == WithNulls([i \in 1..BitmapSize |-> 0])
  <2>1. /\ pc = "bitmap" /\ pc' = "types" /\ index' = index /\ params' = params /\ stmt_msg_' = stmt_msg_
        /\ Write(bitmap \o <<1>>)
    BY <1>9 DEF WriteBitmap, statementVars
  <2>2. params \in ParamLists /\ index \in 0..Len(params) /\ index = 0
    BY <2>1 DEF ExecuteInv, Layout, Writing
  <2>3. Sized(bitmap, NullBitmapSize(params))
    <3>1. BitmapSize = NullBitmapSize(params)
      BY DEF BitmapSize, NullBitmapSize
    <3>2. /\ NullBitmapSize(params) \in Nat /\ Len(params) \in Nat
          /\ params = [i \in 1..Len(params) |-> params[i]]
      BY <2>2, ListSizes
    <3>3. bitmap \in Bits(NullBitmapSize(params))
      <4>1. [i \in 1..BitmapSize |-> 0] \in Bits(NullBitmapSize(params))
        BY <3>1 DEF Bits
      <4> QED BY <3>2, <4>1, BitmapKeepsSize
    <3>4. bitmap = [i \in 1..NullBitmapSize(params) |-> bitmap[i]]
      <4> HIDE DEF bitmap
      <4> QED BY <3>3 DEF Bits
    <3> HIDE DEF bitmap
    <3> QED BY <3>2, <3>4, Listed, Zenon DEF Sized
  <2>4. Sized(bitmap \o <<1>>, NullBitmapSize(params) + 1)
    <3> HIDE DEF bitmap
    <3>1. Sized(<<1>>, 1)
      BY ShortSize, Zenon
    <3> QED BY <2>3, <3>1, JoinedSize, Zenon
  <2>5. /\ first' = Position("bitmap", id, params, index) + (NullBitmapSize(params) + 1)
        /\ buffer' = [i \in 1..TotalSize(id, params) |-> buffer'[i]]
    <3> HIDE DEF bitmap
    <3> QED BY <2>1, <2>4, PartWritten, Zenon DEF Writing
  <2>6. HeadSize(id) \in Nat /\ NullBitmapSize(params) \in Nat
    BY <2>2, HeadFits, ListSizes DEF Sized
  <2> HIDE DEF id, bitmap
  <2>7. Position("types", id, params, index) = Position("bitmap", id, params, index) + (NullBitmapSize(params) + 1)
    BY <2>2, <2>6 DEF Position
  <2>8. stmt_msg_'.statement_id = id
    BY <2>1 DEF id
  <2> QED BY <2>1, <2>2, <2>5, <2>7, <2>8 DEF ExecuteInv, Phases, Layout, Writing
<1>10. CASE WriteType
  <2> DEFINE id == stmt_msg_.statement_id
             param == params[index + 1]
             meta == [type |-> get_protocol_field_type(param),
                      unsigned_flag |-> IF is_unsigned(param) THEN 128 ELSE 0]
  <2>1. /\ pc = "types" /\ pc' = "types" /\ index < Len(params) /\ index' = index + 1
        /\ params' = params /\ stmt_msg_' = stmt_msg_
        /\ Write(serialize_struct(<<>>, com_stmt_execute_param_meta_packet, meta))
    BY <1>10 DEF WriteType, statementVars
  <2>2. params \in ParamLists /\ index \in 0..Len(params)
    BY <2>1 DEF ExecuteInv, Layout, Writing
  <2>3. /\ first' = Position("types", id, params, index) + 2
        /\ buffer' = [i \in 1..TotalSize(id, params) |-> buffer'[i]]
    <3> HIDE DEF meta
    <3> QED BY <2>1, MetaFits, PartWritten, Zenon DEF Writing
  <2>4. HeadSize(id) \in Nat /\ NullBitmapSize(params) \in Nat /\ Len(params) \in Nat
    BY <2>2, HeadFits, ListSizes DEF Sized
  <2> HIDE DEF id, meta
  <2>5. index + 1 \in 0..Len(params)
    BY <2>1, <2>2, <2>4
  <2>6. Position("types", id, params, index + 1) = Position("types", id, params, index) + 2
    BY <2>2, <2>4 DEF Position
  <2>7. stmt_msg_'.statement_id = id
    BY <2>1 DEF id
  <2> QED BY <2>1, <2>2, <2>3, <2>5, <2>6, <2>7 DEF ExecuteInv, Phases, Layout, Writing
<1>11. CASE TypesWritten
  <2> DEFINE id == stmt_msg_.statement_id
  <2>1. /\ pc = "types" /\ pc' = "values" /\ index = Len(params) /\ index' = 0
        /\ params' = params /\ stmt_msg_' = stmt_msg_ /\ buffer' = buffer /\ first' = first
    BY <1>11 DEF TypesWritten, statementVars
  <2>2. /\ params \in ParamLists /\ index \in 0..Len(params)
        /\ buffer = [i \in 1..TotalSize(id, params) |-> buffer[i]]
        /\ first = Position("types", id, params, index)
    BY <2>1 DEF ExecuteInv, Layout, Writing
  <2>3. Position("values", id, params, 0) = Position("types", id, params, Len(params))
    BY <2>2, PositionsInBuffer
  <2>4. 0 \in 0..Len(params)
    BY <2>2, ListSizes
  <2> HIDE DEF id
  <2>5. stmt_msg_'.statement_id = id
    BY <2>1 DEF id
  <2> QED BY <2>1, <2>2, <2>3, <2>4, <2>5 DEF ExecuteInv, Phases, Layout, Writing
<1>12. CASE WriteValue
  <2> DEFINE id == stmt_msg_.statement_id
             param == params[index + 1]
  <2>1. /\ pc = "values" /\ pc' = "values" /\ index < Len(params) /\ index' = index + 1
        /\ params' = params /\ stmt_msg_' = stmt_msg_
        /\ Write(serialize_binary_value(param))
    BY <1>12 DEF WriteValue, statementVars
  <2>2. params \in ParamLists /\ index \in 0..Len(params)
    BY <2>1 DEF ExecuteInv, Layout, Writing
  <2>3. IsValue(param) /\ index + 1 \in 0..Len(params)
    <3>1. index + 1 \in 1..Len(params) /\ Len(params) \in Nat
      BY <2>1, <2>2, ListSizes
    <3> QED BY <2>2, <3>1, ListSizes
  <2>4. Sized(serialize_binary_value(param), get_binary_value_size(param))
    BY <2>3, ValueSize
  <2>5. /\ first' = Position("values", id, params, index) + get_binary_value_size(param)
        /\ buffer' = [i \in 1..TotalSize(id, params) |-> buffer'[i]]
    <3> HIDE DEF param
    <3> QED BY <2>1, <2>4, PartWritten, Zenon DEF Writing
  <2>6. Position("values", id, params, index + 1)
          = Position("values", id, params, index) + get_binary_value_size(param)
    BY <2>1, <2>2, PositionsInBuffer
  <2> HIDE DEF id, param
  <2>7. stmt_msg_'.statement_id = id
    BY <2>1 DEF id
  <2> QED BY <2>1, <2>2, <2>3, <2>5, <2>6, <2>7 DEF ExecuteInv, Phases, Layout, Writing
<1>13. CASE Send
  <2>1. /\ pc = "values" /\ index = Len(params) /\ pc' = "sent" /\ first' = first /\ buffer' = buffer
        /\ params \in ParamLists /\ index \in 0..Len(params)
        /\ first = Position("values", stmt_msg_.statement_id, params, index)
    BY <1>13 DEF Send, ExecuteInv, Layout, Writing
  <2>2. first = TotalSize(stmt_msg_.statement_id, params)
    BY <2>1, PositionsInBuffer
  <2>3. Len(buffer) = TotalSize(stmt_msg_.statement_id, params)
    BY <2>1, Lengths DEF Writing
  <2> QED BY <2>1, <2>2, <2>3 DEF ExecuteInv, Phases, Layout, Writing
<1>14. ASSUME NEW list \in ParamLists, AssertionFails(list) PROVE ExecuteInv'
  <2>1. pc' = "aborted"
    BY <1>14 DEF AssertionFails
  <2> QED BY <2>1 DEF ExecuteInv, Phases, Layout, Writing
<1>15. CASE UNCHANGED vars
  BY <1>15 DEF vars, statementVars, executionVars, ExecuteInv, Layout
<1> QED
  BY <1>2, <1>3, <1>4, <1>5, <1>6, <1>7, <1>8, <1>9, <1>10, <1>11, <1>12, <1>13, <1>14, <1>15 DEF Next

\* MessageFitsBuffer, for every list of parameters: the sizes that get_size adds
\* up are those of what serialize_message writes, so it never writes past the
\* buffer and its final assertion holds.
THEOREM ExecuteMessagesFit == Spec => []MessageFitsBuffer
<1>1. ExecuteInv => MessageFitsBuffer
  <2> SUFFICES ASSUME ExecuteInv PROVE MessageFitsBuffer
    OBVIOUS
  <2>1. ASSUME pc \in Writing PROVE first <= Len(buffer)
    <3>1. /\ params \in ParamLists /\ index \in 0..Len(params)
          /\ first = Position(pc, stmt_msg_.statement_id, params, index)
      BY <2>1 DEF ExecuteInv, Layout
    <3>2. first <= TotalSize(stmt_msg_.statement_id, params)
      BY <2>1, <3>1, PositionsInBuffer
    <3> QED BY <2>1, <3>2, Lengths
  <2> QED BY <2>1 DEF MessageFitsBuffer, Writing, ExecuteInv, Layout
<1> QED BY <1>1, InitExecuteInv, StepExecuteInv, PTL DEF Spec
=============================================================================
