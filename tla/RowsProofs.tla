------------------------------ MODULE RowsProofs ------------------------------
(***************************************************************************)
(* What the deserializers of rows return, whatever the bytes they read     *)
(* are: a value of the kind that goes with the metadata of its column, in  *)
(* the range the client promises for that kind; the second half of the     *)
(* module is about the ranges, and about what is left to read.             *)
(***************************************************************************)
EXTENDS Rows, EncodingProofs

(* The kinds of value that are read *)

\* What a deserialization returns is NULL, of a kind, or an error.
Reads(kind, got) == got.err = "ok" => got.value = NULL \/ got.value.kind = kind

LEMMA ReadOne ==
  /\ \A kind, err : err # "ok" => Reads(kind, Failed(err))
  /\ \A kind, got : got.err # "ok" => Reads(kind, got)
  /\ \A kind, v, left : Reads(kind, Got(Value(kind, v), left))
  /\ \A kind, left : Reads(kind, Got(NULL, left))
  /\ \A kind, fields_, left : Reads(kind, Got(DayOrNull(kind, fields_), left))
BY DEF Reads, Failed, Got, Value, NULL, DayOrNull

LEMMA ReadInt == \A field, bytes : Reads(IntKind(field), binary_int(field, bytes))
<1> SUFFICES ASSUME NEW field, NEW bytes PROVE Reads(IntKind(field), binary_int(field, bytes))
  OBVIOUS
<1>1. \/ binary_int(field, bytes) = Failed("incomplete_message")
      \/ \E v, left : binary_int(field, bytes) = Got(Value(IntKind(field), v), left)
  BY Zenon DEF binary_int
<1> QED BY <1>1, ReadOne

LEMMA ReadFloat ==
  \A field, bytes :
    Reads(IF field.protocol_type = "float_" THEN "float" ELSE "double", binary_float(field, bytes))
<1> SUFFICES ASSUME NEW field, NEW bytes
             PROVE  Reads(IF field.protocol_type = "float_" THEN "float" ELSE "double", binary_float(field, bytes))
  OBVIOUS
<1> DEFINE type == IF field.protocol_type = "float_" THEN float ELSE double
<1>1. \/ \E err \in {"incomplete_message", "protocol_value_error"} : binary_float(field, bytes) = Failed(err)
      \/ \E v, left : binary_float(field, bytes) = Got(Value(type.kind, v), left)
  BY Zenon DEF binary_float
<1>2. type.kind = IF field.protocol_type = "float_" THEN "float" ELSE "double"
  BY DEF float, double
<1> QED BY <1>1, <1>2, ReadOne

\* A date in the binary protocol, step by step.
DateParts(bytes, length, ymd) ==
  /\ length = deserialize(bytes, <<1>>)
  /\ ymd = deserialize_binary_ymd(length.rest)
  /\ deserialize_binary_value_date(bytes)
       = IF length.err # "ok" THEN length
         ELSE IF length.value[1] < 4 THEN Got(NULL, length.rest)
         ELSE IF ymd.err # "ok" THEN ymd
         ELSE Got(DayOrNull("date", ymd.value), ymd.rest)

LEMMA DateSteps == \A bytes : \E length, ymd : DateParts(bytes, length, ymd)
<1> SUFFICES ASSUME NEW bytes PROVE \E length, ymd : DateParts(bytes, length, ymd)
  OBVIOUS
<1>1. PICK length : length = deserialize(bytes, <<1>>)
  OBVIOUS
<1>2. PICK ymd : ymd = deserialize_binary_ymd(length.rest)
  OBVIOUS
<1>3. DateParts(bytes, length, ymd)
  BY <1>1, <1>2, Zenon DEF DateParts, deserialize_binary_value_date, Then
<1> QED BY <1>3, Zenon

LEMMA ReadDate == \A bytes : Reads("date", deserialize_binary_value_date(bytes))
BY DateSteps, ReadOne DEF DateParts

\* A datetime in the binary protocol.
DatetimeOf(length, ymd, hms, micros, tod) ==
  IF length.err # "ok" THEN length
  ELSE IF ymd.err # "ok" THEN ymd
  ELSE IF hms.err # "ok" THEN hms
  ELSE IF micros.err # "ok" THEN micros
  ELSE IF tod.err # "ok" THEN tod
  ELSE Got(DayOrNull("datetime", ymd.value \o tod.value), tod.rest)
DatetimeParts(bytes, length, ymd, hms, micros, tod) ==
  /\ length = deserialize(bytes, <<1>>)
  /\ ymd = IF length.value[1] >= 4 THEN deserialize_binary_ymd(length.rest) ELSE Got(<<0, 0, 0>>, length.rest)
  /\ hms = Optional(length.value[1] >= 7, ymd.rest, <<1, 1, 1>>)
  /\ micros = Optional(length.value[1] >= 11, hms.rest, <<4>>)
  /\ tod = Checked(hms.value \o micros.value, Append(max_hms, max_micro), micros.rest)
  /\ deserialize_binary_value_datetime(bytes) = DatetimeOf(length, ymd, hms, micros, tod)

LEMMA DatetimeSteps ==
  \A bytes : \E length, ymd, hms, micros, tod : DatetimeParts(bytes, length, ymd, hms, micros, tod)
<1> SUFFICES ASSUME NEW bytes
             PROVE  \E length, ymd, hms, micros, tod : DatetimeParts(bytes, length, ymd, hms, micros, tod)
  OBVIOUS
<1>1. PICK length : length = deserialize(bytes, <<1>>)
  OBVIOUS
<1>2. PICK ymd : ymd = IF length.value[1] >= 4 THEN deserialize_binary_ymd(length.rest)
                                              ELSE Got(<<0, 0, 0>>, length.rest)
  OBVIOUS
<1>3. PICK hms : hms = Optional(length.value[1] >= 7, ymd.rest, <<1, 1, 1>>)
  OBVIOUS
<1>4. PICK micros : micros = Optional(length.value[1] >= 11, hms.rest, <<4>>)
  OBVIOUS
<1>5. PICK tod : tod = Checked(hms.value \o micros.value, Append(max_hms, max_micro), micros.rest)
  OBVIOUS
<1>6. deserialize_binary_value_datetime(bytes)
        = IF length.err # "ok" THEN length
          ELSE IF ymd.err # "ok" THEN ymd
          ELSE IF hms.err # "ok" THEN hms
          ELSE IF micros.err # "ok" THEN micros
          ELSE IF tod.err # "ok" THEN tod
          ELSE Got(DayOrNull("datetime", ymd.value \o tod.value), tod.rest)
  <2> DEFINE fifth(d, v, left5) == Got(DayOrNull("datetime", d \o v), left5)
             fourth(d, h, m, left4) == Then(Checked(h \o m, Append(max_hms, max_micro), left4),
                                            LAMBDA v, left5 : fifth(d, v, left5))
             third(l, d, h, left3) == Then(Optional(l[1] >= 11, left3, <<4>>), LAMBDA m, left4 : fourth(d, h, m, left4))
             second(l, d, left2) == Then(Optional(l[1] >= 7, left2, <<1, 1, 1>>),
                                         LAMBDA h, left3 : third(l, d, h, left3))
             first(l, left) == Then(IF l[1] >= 4 THEN deserialize_binary_ymd(left) ELSE Got(<<0, 0, 0>>, left),
                                    LAMBDA d, left2 : second(l, d, left2))
  <2>1. deserialize_binary_value_datetime(bytes) = Then(length, first)
    BY <1>1 DEF deserialize_binary_value_datetime
  <2>2. Then(length, first) = IF length.err = "ok" THEN first(length.value, length.rest) ELSE length
    <3> HIDE DEF first
    <3> QED BY Zenon DEF Then
  <2>3. first(length.value, length.rest) = IF ymd.err = "ok" THEN second(length.value, ymd.value, ymd.rest) ELSE ymd
    <3> HIDE DEF second
    <3> QED BY <1>2, Zenon DEF Then
  <2>4. second(length.value, ymd.value, ymd.rest)
          = IF hms.err = "ok" THEN third(length.value, ymd.value, hms.value, hms.rest) ELSE hms
    <3> HIDE DEF third
    <3> QED BY <1>3, Zenon DEF Then
  <2>5. third(length.value, ymd.value, hms.value, hms.rest)
          = IF micros.err = "ok" THEN fourth(ymd.value, hms.value, micros.value, micros.rest) ELSE micros
    <3> HIDE DEF fourth
    <3> QED BY <1>4, Zenon DEF Then
  <2>6. fourth(ymd.value, hms.value, micros.value, micros.rest)
          = IF tod.err = "ok" THEN fifth(ymd.value, tod.value, tod.rest) ELSE tod
    <3> HIDE DEF fifth
    <3> QED BY <1>5, Zenon DEF Then
  <2> HIDE DEF first, second, third, fourth
  <2> QED BY <2>1, <2>2, <2>3, <2>4, <2>5, <2>6
<1>7. DatetimeParts(bytes, length, ymd, hms, micros, tod)
  BY <1>1, <1>2, <1>3, <1>4, <1>5, <1>6, Zenon DEF DatetimeParts, DatetimeOf
<1> QED BY <1>7, Zenon

LEMMA ReadDatetime == \A bytes : Reads("datetime", deserialize_binary_value_datetime(bytes))
<1> SUFFICES ASSUME NEW bytes PROVE Reads("datetime", deserialize_binary_value_datetime(bytes))
  OBVIOUS
<1>1. PICK length, ymd, hms, micros, tod : DatetimeParts(bytes, length, ymd, hms, micros, tod)
  BY DatetimeSteps
<1>2. deserialize_binary_value_datetime(bytes) = DatetimeOf(length, ymd, hms, micros, tod)
  BY <1>1, Zenon DEF DatetimeParts
<1> QED BY <1>2, ReadOne DEF DatetimeOf

\* A time in the binary protocol.
TimeOf(length, t, micros, dhms) ==
  IF length.err # "ok" THEN length
  ELSE IF t.err # "ok" THEN t
  ELSE IF micros.err # "ok" THEN micros
  ELSE IF dhms.err # "ok" THEN dhms
  ELSE Got(ComposedTime(t.value[1] # 0, dhms.value[1] * 24 + dhms.value[2], dhms.value[3],
                        dhms.value[4], dhms.value[5]), dhms.rest)
TimeParts(bytes, length, t, micros, dhms) ==
  /\ length = deserialize(bytes, <<1>>)
  /\ t = Optional(length.value[1] >= 8, length.rest, <<1, 4, 1, 1, 1>>)
  /\ micros = Optional(length.value[1] >= 12, t.rest, <<4>>)
  /\ dhms = Checked(Tail(t.value) \o micros.value, <<34>> \o Append(max_hms, max_micro), micros.rest)
  /\ deserialize_binary_value_time(bytes) = TimeOf(length, t, micros, dhms)

LEMMA TimeSteps == \A bytes : \E length, t, micros, dhms : TimeParts(bytes, length, t, micros, dhms)
<1> SUFFICES ASSUME NEW bytes PROVE \E length, t, micros, dhms : TimeParts(bytes, length, t, micros, dhms)
  OBVIOUS
<1>1. PICK length : length = deserialize(bytes, <<1>>)
  OBVIOUS
<1>2. PICK t : t = Optional(length.value[1] >= 8, length.rest, <<1, 4, 1, 1, 1>>)
  OBVIOUS
<1>3. PICK micros : micros = Optional(length.value[1] >= 12, t.rest, <<4>>)
  OBVIOUS
<1>4. PICK dhms : dhms = Checked(Tail(t.value) \o micros.value, <<34>> \o Append(max_hms, max_micro), micros.rest)
  OBVIOUS
<1>5. deserialize_binary_value_time(bytes)
        = IF length.err # "ok" THEN length
          ELSE IF t.err # "ok" THEN t
          ELSE IF micros.err # "ok" THEN micros
          ELSE IF dhms.err # "ok" THEN dhms
          ELSE Got(ComposedTime(t.value[1] # 0, dhms.value[1] * 24 + dhms.value[2], dhms.value[3],
                                dhms.value[4], dhms.value[5]), dhms.rest)
  <2> DEFINE fourth(v, d, left4) == Got(ComposedTime(v[1] # 0, d[1] * 24 + d[2], d[3], d[4], d[5]), left4)
             third(v, m, left3) == Then(Checked(Tail(v) \o m, <<34>> \o Append(max_hms, max_micro), left3),
                                        LAMBDA d, left4 : fourth(v, d, left4))
             second(l, v, left2) == Then(Optional(l[1] >= 12, left2, <<4>>), LAMBDA m, left3 : third(v, m, left3))
             first(l, left) == Then(Optional(l[1] >= 8, left, <<1, 4, 1, 1, 1>>), LAMBDA v, left2 : second(l, v, left2))
  <2>1. deserialize_binary_value_time(bytes) = Then(length, first)
    BY <1>1 DEF deserialize_binary_value_time
  <2>2. Then(length, first) = IF length.err = "ok" THEN first(length.value, length.rest) ELSE length
    <3> HIDE DEF first
    <3> QED BY Zenon DEF Then
  <2>3. first(length.value, length.rest) = IF t.err = "ok" THEN second(length.value, t.value, t.rest) ELSE t
    <3> HIDE DEF second
    <3> QED BY <1>2, Zenon DEF Then
  <2>4. second(length.value, t.value, t.rest) = IF micros.err = "ok" THEN third(t.value, micros.value, micros.rest) ELSE micros
    <3> HIDE DEF third
    <3> QED BY <1>3, Zenon DEF Then
  <2>5. third(t.value, micros.value, micros.rest) = IF dhms.err = "ok" THEN fourth(t.value, dhms.value, dhms.rest) ELSE dhms
    <3> HIDE DEF fourth
    <3> QED BY <1>4, Zenon DEF Then
  <2> HIDE DEF first, second, third
  <2> QED BY <2>1, <2>2, <2>3, <2>4, <2>5
<1>6. TimeParts(bytes, length, t, micros, dhms)
  BY <1>1, <1>2, <1>3, <1>4, <1>5, Zenon DEF TimeParts, TimeOf
<1> QED BY <1>6, Zenon

LEMMA ReadTime == \A bytes : Reads("time", deserialize_binary_value_time(bytes))
<1> SUFFICES ASSUME NEW bytes PROVE Reads("time", deserialize_binary_value_time(bytes))
  OBVIOUS
<1>1. PICK length, t, micros, dhms : TimeParts(bytes, length, t, micros, dhms)
  BY TimeSteps
<1>2. deserialize_binary_value_time(bytes) = TimeOf(length, t, micros, dhms)
  BY <1>1, Zenon DEF TimeParts
<1>3. \A n, h, m, s, u : \E v : ComposedTime(n, h, m, s, u) = Value("time", v)
  BY DEF ComposedTime
<1> QED BY <1>2, <1>3, ReadOne DEF TimeOf

LEMMA ReadTextInt == \A field, text : Reads(IntKind(field), text_int(field, text))
<1> SUFFICES ASSUME NEW field, NEW text PROVE Reads(IntKind(field), text_int(field, text))
  OBVIOUS
<1>1. \/ text_int(field, text) = Failed("protocol_value_error")
      \/ \E v, left : text_int(field, text) = Got(Value(IntKind(field), v), left)
  BY Zenon DEF text_int
<1> QED BY <1>1, ReadOne

LEMMA ReadTextFloat ==
  \A field, text :
    Reads(IF field.protocol_type = "float_" THEN "float" ELSE "double", text_float(field, text))
<1> SUFFICES ASSUME NEW field, NEW text
             PROVE  Reads(IF field.protocol_type = "float_" THEN "float" ELSE "double", text_float(field, text))
  OBVIOUS
<1>1. \/ text_float(field, text) = Failed("protocol_value_error")
      \/ \E v, left : text_float(field, text) =
           Got(Value(IF field.protocol_type = "float_" THEN "float" ELSE "double", v), left)
  BY Zenon DEF text_float
<1> QED BY <1>1, ReadOne

\* Dates and times in the text protocol.
TextDateParts(text, ymd) ==
  /\ ymd = deserialize_text_ymd(text)
  /\ deserialize_text_value_date(text)
       = IF ymd.err = "ok" THEN Got(DayOrNull("date", ymd.value), ymd.rest) ELSE ymd

LEMMA TextDateSteps == \A text : \E ymd : TextDateParts(text, ymd)
BY Zenon DEF deserialize_text_value_date, Then, TextDateParts

LEMMA ReadTextDate == \A text : Reads("date", deserialize_text_value_date(text))
BY TextDateSteps, ReadOne DEF TextDateParts

TextDatetimeParts(field, text, ymd, time, tod) ==
  /\ ymd = deserialize_text_ymd(SubSeq(text, 1, 10))
  /\ time = ParsedTime(Skip(text, 11), 2, sanitize_decimals(field.decimals))
  /\ tod = Checked(time.value, Append(max_hms, max_micro), time.rest)
  /\ deserialize_text_value_datetime(field, text)
       = IF Len(text) # 19 + FractionSize(sanitize_decimals(field.decimals)) THEN Failed("protocol_value_error")
         ELSE IF ymd.err # "ok" THEN ymd
         ELSE IF time.err # "ok" THEN time
         ELSE IF tod.err # "ok" THEN tod
         ELSE Got(DayOrNull("datetime", ymd.value \o tod.value), tod.rest)

LEMMA TextDatetimeSteps ==
  \A field, text : \E ymd, time, tod : TextDatetimeParts(field, text, ymd, time, tod)
<1> SUFFICES ASSUME NEW field, NEW text PROVE \E ymd, time, tod : TextDatetimeParts(field, text, ymd, time, tod)
  OBVIOUS
<1>1. PICK ymd : ymd = deserialize_text_ymd(SubSeq(text, 1, 10))
  OBVIOUS
<1>2. PICK time : time = ParsedTime(Skip(text, 11), 2, sanitize_decimals(field.decimals))
  OBVIOUS
<1>3. PICK tod : tod = Checked(time.value, Append(max_hms, max_micro), time.rest)
  OBVIOUS
<1>4. deserialize_text_value_datetime(field, text)
        = IF Len(text) # 19 + FractionSize(sanitize_decimals(field.decimals)) THEN Failed("protocol_value_error")
          ELSE IF ymd.err # "ok" THEN ymd
          ELSE IF time.err # "ok" THEN time
          ELSE IF tod.err # "ok" THEN tod
          ELSE Got(DayOrNull("datetime", ymd.value \o tod.value), tod.rest)
  BY <1>1, <1>2, <1>3, ZenonT(60) DEF deserialize_text_value_datetime, Then
<1>5. TextDatetimeParts(field, text, ymd, time, tod)
  BY <1>1, <1>2, <1>3, <1>4, Zenon DEF TextDatetimeParts
<1> QED BY <1>5, Zenon

LEMMA ReadTextDatetime == \A field, text : Reads("datetime", deserialize_text_value_datetime(field, text))
<1> SUFFICES ASSUME NEW field, NEW text PROVE Reads("datetime", deserialize_text_value_datetime(field, text))
  OBVIOUS
<1>1. PICK ymd, time, tod : TextDatetimeParts(field, text, ymd, time, tod)
  BY TextDatetimeSteps
<1> QED BY <1>1, ReadOne DEF TextDatetimeParts

TextTimeParts(field, text, parsed, checked) ==
  LET decimals == sanitize_decimals(field.decimals)
      least == 8 + FractionSize(decimals)
  IN /\ parsed = ParsedTime(IF text[1] = Minus THEN Tail(text) ELSE text, 3, decimals)
     /\ checked = Checked(parsed.value, <<838, 59, 59, max_micro>>, parsed.rest)
     /\ deserialize_text_value_time(field, text)
          = IF Len(text) \notin least..(least + 2) THEN Failed("protocol_value_error")
            ELSE IF parsed.err # "ok" THEN parsed
            ELSE IF checked.err # "ok" THEN checked
            ELSE LET t == checked.value IN
                 Got(ComposedTime(text[1] = Minus, t[1], t[2], t[3], t[4]), checked.rest)

LEMMA TextTimeSteps == \A field, text : \E parsed, checked : TextTimeParts(field, text, parsed, checked)
<1> SUFFICES ASSUME NEW field, NEW text PROVE \E parsed, checked : TextTimeParts(field, text, parsed, checked)
  OBVIOUS
<1> DEFINE decimals == sanitize_decimals(field.decimals)
           least == 8 + FractionSize(decimals)
           negative == text[1] = Minus
           last(t, left) == Got(ComposedTime(negative, t[1], t[2], t[3], t[4]), left)
           parsed == ParsedTime(IF negative THEN Tail(text) ELSE text, 3, decimals)
           checked == Checked(parsed.value, <<838, 59, 59, max_micro>>, parsed.rest)
           read == Then(parsed, LAMBDA time, left : Then(Checked(time, <<838, 59, 59, max_micro>>, left), last))
<1>1. deserialize_text_value_time(field, text)
        = IF Len(text) \notin least..(least + 2) THEN Failed("protocol_value_error") ELSE read
  BY DEF deserialize_text_value_time
<1>2. read = IF parsed.err = "ok"
               THEN IF checked.err = "ok" THEN last(checked.value, checked.rest) ELSE checked
               ELSE parsed
  <2> HIDE DEF last, parsed
  <2> QED BY Zenon DEF Then
<1>3. TextTimeParts(field, text, parsed, checked)
  <2> HIDE DEF parsed, checked, read
  <2>1. parsed = ParsedTime(IF negative THEN Tail(text) ELSE text, 3, decimals)
    BY DEF parsed
  <2>2. checked = Checked(parsed.value, <<838, 59, 59, max_micro>>, parsed.rest)
    BY DEF checked
  <2>3. deserialize_text_value_time(field, text)
          = IF Len(text) \notin least..(least + 2) THEN Failed("protocol_value_error")
            ELSE IF parsed.err # "ok" THEN parsed
            ELSE IF checked.err # "ok" THEN checked
            ELSE last(checked.value, checked.rest)
    <3> HIDE DEF last
    <3> QED BY <1>1, <1>2
  <2> QED BY <2>1, <2>2, <2>3, Zenon DEF TextTimeParts
<1> QED
  <2> HIDE DEF parsed, checked
  <2> QED BY <1>3, Zenon

LEMMA ReadTextTime == \A field, text : Reads("time", deserialize_text_value_time(field, text))
<1> SUFFICES ASSUME NEW field, NEW text PROVE Reads("time", deserialize_text_value_time(field, text))
  OBVIOUS
<1>1. PICK parsed, checked : TextTimeParts(field, text, parsed, checked)
  BY TextTimeSteps
<1>2. \A n, h, m, s, u : \E v : ComposedTime(n, h, m, s, u) = Value("time", v)
  BY DEF ComposedTime
<1>3. PICK got : got = deserialize_text_value_time(field, text)
  OBVIOUS
<1> DEFINE t == checked.value
           least == 8 + FractionSize(sanitize_decimals(field.decimals))
           last == Got(ComposedTime(text[1] = Minus, t[1], t[2], t[3], t[4]), checked.rest)
<1>4. got = IF Len(text) \notin least..(least + 2) THEN Failed("protocol_value_error")
            ELSE IF parsed.err # "ok" THEN parsed
            ELSE IF checked.err # "ok" THEN checked
            ELSE last
  BY <1>1, <1>3, Zenon DEF TextTimeParts
<1>5. Reads("time", last)
  BY <1>2, ReadOne
<1> HIDE DEF t, least, last
<1>6. "protocol_value_error" # "ok"
  OBVIOUS
<1> QED BY ONLY <1>3, <1>4, <1>5, <1>6, ReadOne

-----------------------------------------------------------------------------
(* The kinds of value that are documented *)

\* What the deserializers read for a column.
KindRead(field) ==
  CASE field.protocol_type \in IntTypes      -> IntKind(field)
    [] field.protocol_type = "float_"        -> "float"
    [] field.protocol_type = "double_"       -> "double"
    [] field.protocol_type = "date"          -> "date"
    [] field.protocol_type \in DatetimeTypes -> "datetime"
    [] field.protocol_type = "time"          -> "time"
    [] OTHER                                 -> "string"

LEMMA ReadString ==
  ASSUME NEW bytes
  PROVE  Reads("string", Then(deserialize_string_lenenc(bytes), LAMBDA string, left :
                           Got(Value("string", string), left)))
<1>1. PICK got : got = deserialize_string_lenenc(bytes)
  OBVIOUS
<1>2. Then(deserialize_string_lenenc(bytes), LAMBDA string, left : Got(Value("string", string), left))
        = IF got.err = "ok" THEN Got(Value("string", got.value), got.rest) ELSE got
  BY <1>1, Zenon DEF Then
<1> QED BY <1>2, ReadOne

LEMMA ProtocolTypes ==
  /\ IntTypes = {"tiny", "short_", "year", "int24", "long_", "longlong"}
  /\ FloatTypes = {"float_", "double_"} /\ DatetimeTypes = {"datetime", "timestamp"}
BY DEF IntTypes, IntWidth, FloatTypes, DatetimeTypes

LEMMA BinaryKind ==
  ASSUME NEW field, NEW bytes
  PROVE  Reads(KindRead(field), deserialize_binary_value(field, bytes))
<1> DEFINE type == field.protocol_type
           got == deserialize_binary_value(field, bytes)
<1>1. CASE type \in IntTypes
  <2>1. got = binary_int(field, bytes) /\ KindRead(field) = IntKind(field)
    BY <1>1, ProtocolTypes DEF deserialize_binary_value, KindRead
  <2> QED BY <2>1, ReadInt
<1>2. CASE type \in FloatTypes
  <2>1. /\ got = binary_float(field, bytes)
        /\ KindRead(field) = IF field.protocol_type = "float_" THEN "float" ELSE "double"
    BY <1>2, ProtocolTypes DEF deserialize_binary_value, KindRead
  <2> QED BY <2>1, ReadFloat
<1>3. CASE type = "date"
  <2>1. got = deserialize_binary_value_date(bytes) /\ KindRead(field) = "date"
    BY <1>3, ProtocolTypes DEF deserialize_binary_value, KindRead
  <2> QED BY <2>1, ReadDate
<1>4. CASE type \in DatetimeTypes
  <2>1. got = deserialize_binary_value_datetime(bytes) /\ KindRead(field) = "datetime"
    BY <1>4, ProtocolTypes DEF deserialize_binary_value, KindRead
  <2> QED BY <2>1, ReadDatetime
<1>5. CASE type = "time"
  <2>1. got = deserialize_binary_value_time(bytes) /\ KindRead(field) = "time"
    BY <1>5, ProtocolTypes DEF deserialize_binary_value, KindRead
  <2> QED BY <2>1, ReadTime
<1>6. CASE type \notin IntTypes \cup FloatTypes \cup DatetimeTypes \cup {"date", "time"}
  <2>1. KindRead(field) = "string"
    BY <1>6, ProtocolTypes DEF KindRead
  <2>2. got = Then(deserialize_string_lenenc(bytes), LAMBDA string, left : Got(Value("string", string), left))
    BY <1>6, ProtocolTypes DEF deserialize_binary_value
  <2> QED BY <2>1, <2>2, ReadString
<1> QED BY <1>1, <1>2, <1>3, <1>4, <1>5, <1>6

LEMMA TextKind ==
  ASSUME NEW field, NEW text
  PROVE  Reads(KindRead(field), deserialize_text_value(field, text))
<1> DEFINE type == field.protocol_type
           got == deserialize_text_value(field, text)
<1>1. CASE type \in IntTypes
  <2>1. got = text_int(field, text) /\ KindRead(field) = IntKind(field)
    BY <1>1, ProtocolTypes DEF deserialize_text_value, KindRead
  <2> QED BY <2>1, ReadTextInt
<1>2. CASE type \in FloatTypes
  <2>1. /\ got = text_float(field, text)
        /\ KindRead(field) = IF field.protocol_type = "float_" THEN "float" ELSE "double"
    BY <1>2, ProtocolTypes DEF deserialize_text_value, KindRead
  <2> QED BY <2>1, ReadTextFloat
<1>3. CASE type = "date"
  <2>1. got = deserialize_text_value_date(text) /\ KindRead(field) = "date"
    BY <1>3, ProtocolTypes DEF deserialize_text_value, KindRead
  <2> QED BY <2>1, ReadTextDate
<1>4. CASE type \in DatetimeTypes
  <2>1. got = deserialize_text_value_datetime(field, text) /\ KindRead(field) = "datetime"
    BY <1>4, ProtocolTypes DEF deserialize_text_value, KindRead
  <2> QED BY <2>1, ReadTextDatetime
<1>5. CASE type = "time"
  <2>1. got = deserialize_text_value_time(field, text) /\ KindRead(field) = "time"
    BY <1>5, ProtocolTypes DEF deserialize_text_value, KindRead
  <2> QED BY <2>1, ReadTextTime
<1>6. CASE type \notin IntTypes \cup FloatTypes \cup DatetimeTypes \cup {"date", "time"}
  <2>1. KindRead(field) = "string"
    BY <1>6, ProtocolTypes DEF KindRead
  <2>2. got = Got(Value("string", text), <<>>)
    BY <1>6, ProtocolTypes DEF deserialize_text_value
  <2> QED BY <2>1, <2>2, ReadOne
<1> QED BY <1>1, <1>2, <1>3, <1>4, <1>5, <1>6

\* A column as field_metadata tells it, from whatever definition.
IsMetadata(field) ==
  \E flags : field.type = compute_field_type(field.protocol_type, flags)

LEMMA FieldMetadata == \A msg : IsMetadata(field_metadata(msg))
BY DEF field_metadata, IsMetadata

LEMMA DocumentedKindIsRead ==
  ASSUME NEW field, IsMetadata(field), field.type # "year"
  PROVE  DocumentedKind(field) = KindRead(field)
<1> DEFINE p == field.protocol_type
<1>1. PICK flags : field.type = compute_field_type(p, flags)
  BY DEF IsMetadata
<1>2. CASE p \in DOMAIN SimpleFieldType
  <2>1. p \notin {"string", "var_string", "blob"}
    BY <1>2 DEF SimpleFieldType
  <2>2. field.type = SimpleFieldType[p]
    BY <1>1, <1>2, <2>1 DEF compute_field_type
  <2> QED BY <1>2, <2>2, ProtocolTypes DEF SimpleFieldType, DocumentedKind, KindRead, IntegerTypes, IntKind
<1>3. CASE p \notin DOMAIN SimpleFieldType
  <2>1. field.type \in {"set", "enum_", "binary", "char_", "varbinary", "varchar", "blob", "text", "unknown"}
    BY <1>1, <1>3
    DEF compute_field_type, compute_field_type_string, compute_field_type_var_string, compute_field_type_blob
  <2>2. DocumentedKind(field) = "string"
    BY <2>1 DEF DocumentedKind, IntegerTypes
  <2>3. KindRead(field) = "string"
    BY <1>3, ProtocolTypes DEF SimpleFieldType, KindRead
  <2> QED BY <2>2, <2>3
<1> QED BY <1>2, <1>3

-----------------------------------------------------------------------------
(* The invariant *)

LEMMA Appended ==
  ASSUME NEW s, IsSeq(s), NEW x
  PROVE  /\ IsSeq(Append(s, x)) /\ Len(s) \in Nat /\ Len(Append(s, x)) = Len(s) + 1
         /\ DOMAIN s = 1..Len(s) /\ DOMAIN Append(s, x) = 1..(Len(s) + 1)
         /\ \A i \in 1..Len(s) : Append(s, x)[i] = s[i]
         /\ Append(s, x)[Len(s) + 1] = x
<1>1. PICK T : s \in Seq(T)
  BY DEF IsSeq
<1>2. s \in Seq(T \cup {x}) /\ x \in T \cup {x}
  BY <1>1
<1> QED BY <1>2 DEF IsSeq

\* A row is read by the columns it has: each value is of the kind that the
\* deserializer of its column reads.
KindsRead ==
  /\ IsSeq(fields) /\ IsSeq(output) /\ Len(output) <= Len(fields)
  /\ \A i \in DOMAIN fields : IsMetadata(fields[i])
  /\ \A i \in DOMAIN output : output[i] = NULL \/ output[i].kind = KindRead(fields[i])

LEMMA InitKinds == Init => KindsRead
<1> SUFFICES ASSUME Init PROVE KindsRead
  OBVIOUS
<1>1. fields = <<>> /\ output = <<>>
  BY DEF Init
<1> QED BY <1>1, Short DEF KindsRead

\* The next value of a row.
LEMMA ValueAppended ==
  ASSUME KindsRead, ColumnsLeft, NEW value, value = NULL \/ value.kind = KindRead(fields[Len(output) + 1]),
         output' = Append(output, value), UNCHANGED fields
  PROVE  KindsRead'
<1>1. /\ IsSeq(output') /\ Len(output) \in Nat /\ Len(output') = Len(output) + 1
      /\ DOMAIN output = 1..Len(output) /\ DOMAIN output' = 1..(Len(output) + 1)
      /\ \A i \in 1..Len(output) : output'[i] = output[i]
      /\ output'[Len(output) + 1] = value
  BY Appended DEF KindsRead
<1>2. Len(output) < Len(fields) /\ Len(fields) \in Nat
  BY Appended DEF ColumnsLeft, KindsRead
<1>3. \A i \in DOMAIN output' : output'[i] = NULL \/ output'[i].kind = KindRead(fields'[i])
  BY <1>1 DEF KindsRead
<1>4. Len(output') <= Len(fields')
  BY <1>1, <1>2
<1> QED BY <1>1, <1>3, <1>4 DEF KindsRead

LEMMA NextValueKind ==
  Reads(KindRead(fields[Len(output) + 1]), NextValue)
<1> DEFINE field == fields[Len(output) + 1]
<1>1. CASE protocol = "binary"
  <2>1. NextValue = deserialize_binary_value(field, rest)
    BY <1>1 DEF NextValue
  <2> QED BY <2>1, BinaryKind
<1>2. CASE protocol # "binary"
  <2> DEFINE text == deserialize_string_lenenc(rest)
             value == deserialize_text_value(field, text.value)
  <2>1. NextValue = IF text.err = "ok"
                      THEN IF value.err = "ok" THEN Got(value.value, text.rest) ELSE value
                      ELSE text
    <3> DEFINE next(string, left) ==
          Then(deserialize_text_value(field, string), LAMBDA v, nothing : Got(v, left))
    <3>1. NextValue = Then(text, next)
      BY <1>2 DEF NextValue
    <3>2. next(text.value, text.rest) = IF value.err = "ok" THEN Got(value.value, text.rest) ELSE value
      <4> HIDE DEF text
      <4> QED BY Zenon DEF Then
    <3>3. Then(text, next) = IF text.err = "ok" THEN next(text.value, text.rest) ELSE text
      <4> HIDE DEF next, text
      <4> QED BY Zenon DEF Then
    <3> HIDE DEF next, text, value
    <3> QED BY <3>1, <3>2, <3>3
  <2>2. Reads(KindRead(field), value)
    BY TextKind
  <2> HIDE DEF field, text, value
  <2> QED BY <2>1, <2>2 DEF Reads, Got, field
<1> QED BY <1>1, <1>2

LEMMA StepKinds ==
  ASSUME KindsRead, [Next]_vars
  PROVE  KindsRead'
<1>1. CASE UNCHANGED responseVars /\ UNCHANGED rowVars
  BY <1>1 DEF responseVars, rowVars, KindsRead
<1>2. CASE \/ ReceiveResponse \/ ReceiveColumn \/ ReceiveRow \/ NoMessageType \/ ProcessOk \/ ProcessError
           \/ ReadEof \/ EndRow \/ UNCHANGED vars
  BY <1>1, <1>2
  DEF ReceiveResponse, ReceiveColumn, ReceiveRow, Receive, NoMessageType, ProcessOk, ProcessError, ReadEof,
      EndRow, RowEnds, vars
<1>3. CASE ProcessFieldCount
  <2>1. UNCHANGED fields /\ UNCHANGED rowVars
    BY <1>3 DEF ProcessFieldCount
  <2> QED BY <2>1 DEF rowVars, KindsRead
<1>4. CASE process_field_definition
  <2>1. CASE fields' = fields
    <3>1. UNCHANGED rowVars
      BY <1>4 DEF process_field_definition
    <3> QED BY <2>1, <3>1 DEF rowVars, KindsRead
  <2>2. ASSUME NEW msg, fields' = Append(fields, field_metadata(msg))
        PROVE  KindsRead'
    <3>1. /\ IsSeq(fields') /\ Len(fields) \in Nat /\ Len(fields') = Len(fields) + 1
          /\ DOMAIN fields = 1..Len(fields) /\ DOMAIN fields' = 1..(Len(fields) + 1)
          /\ \A i \in 1..Len(fields) : fields'[i] = fields[i]
          /\ fields'[Len(fields) + 1] = field_metadata(msg)
      BY <2>2, Appended DEF KindsRead
    <3>2. \A i \in DOMAIN fields' : IsMetadata(fields'[i])
      BY <3>1, FieldMetadata DEF KindsRead
    <3>3. output' = output
      BY <1>4 DEF process_field_definition, rowVars
    <3>4. DOMAIN output \subseteq DOMAIN fields /\ DOMAIN output = 1..Len(output) /\ Len(output) \in Nat
      <4>1. DOMAIN output = 1..Len(output) /\ Len(output) \in Nat
        BY Appended DEF KindsRead
      <4> QED BY <3>1, <4>1 DEF KindsRead
    <3>5. \A i \in DOMAIN output' : output'[i] = NULL \/ output'[i].kind = KindRead(fields'[i])
      BY <3>1, <3>3, <3>4 DEF KindsRead
    <3>6. IsSeq(output') /\ Len(output') <= Len(fields')
      BY <3>1, <3>3, <3>4 DEF KindsRead
    <3> QED BY <3>1, <3>2, <3>5, <3>6 DEF KindsRead
  <2> QED BY <1>4, <2>1, <2>2 DEF process_field_definition
<1>5. CASE BeginTextRow \/ BeginBinaryRow
  <2>1. output' = <<>> /\ UNCHANGED fields
    BY <1>5 DEF BeginTextRow, BeginBinaryRow, responseVars
  <2>2. Len(fields) \in Nat
    BY Appended DEF KindsRead
  <2>3. IsSeq(<<>>) /\ Len(<<>>) = 0 /\ DOMAIN <<>> = {}
    BY Short
  <2> QED BY <2>1, <2>2, <2>3 DEF KindsRead
<1>6. CASE ReadNull
  <2>1. ColumnsLeft /\ output' = Append(output, NULL) /\ UNCHANGED fields
    BY <1>6 DEF ReadNull, responseVars
  <2> QED BY <2>1, ValueAppended
<1>7. CASE ReadValue
  <2>1. CASE NextValue.err = "ok"
    <3>1. ColumnsLeft /\ output' = Append(output, NextValue.value) /\ UNCHANGED fields
      BY <1>7, <2>1 DEF ReadValue, responseVars
    <3>2. NextValue.value = NULL \/ NextValue.value.kind = KindRead(fields[Len(output) + 1])
      BY <2>1, NextValueKind DEF Reads
    <3> QED BY <3>1, <3>2, ValueAppended
  <2>2. CASE NextValue.err # "ok"
    <3>1. UNCHANGED responseVars /\ UNCHANGED rowVars
      BY <1>7, <2>2 DEF ReadValue, rowVars
    <3> QED BY <1>1, <3>1
  <2> QED BY <2>1, <2>2
<1> QED BY <1>2, <1>3, <1>4, <1>5, <1>6, <1>7 DEF Next

\* FieldTypesAgree for whatever the server and the network send: the type that
\* field_metadata computes from one part of the definition goes with the value read
\* by another.
THEOREM TypesAgreeForAnyMessages == Spec => []FieldTypesAgree
<1>1. KindsRead => FieldTypesAgree
  <2> SUFFICES ASSUME KindsRead, NEW i \in DOMAIN output, output[i] # NULL, fields[i].type # "year"
               PROVE  output[i].kind = DocumentedKind(fields[i])
    BY DEF FieldTypesAgree
  <2>1. DOMAIN output = 1..Len(output) /\ Len(output) \in Nat /\ DOMAIN fields = 1..Len(fields) /\ Len(fields) \in Nat
    BY Appended DEF KindsRead
  <2>2. i \in DOMAIN fields
    BY <2>1 DEF KindsRead
  <2>3. DocumentedKind(fields[i]) = KindRead(fields[i])
    BY <2>2, DocumentedKindIsRead DEF KindsRead
  <2> QED BY <2>3 DEF KindsRead
<1> QED BY <1>1, InitKinds, StepKinds, PTL DEF Spec

-----------------------------------------------------------------------------
(* What is left after reading, whatever the bytes *)

\* A deserialization that stays in the message, with the errors there are.
Errors == {"incomplete_message", "extra_bytes", "protocol_value_error"}
Stays(got) == got.err \in {"ok"} \cup Errors /\ got.rest \in ByteString

LEMMA StaysOrFails ==
  /\ \A err \in Errors : Stays(Failed(err)) /\ Failed(err).err = err /\ err # "ok"
  /\ \A value : \A left \in ByteString :
       LET got == Got(value, left) IN Stays(got) /\ got.err = "ok" /\ got.value = value /\ got.rest = left
<1>1. <<>> \in ByteString
  BY DEF ByteString
<1> QED BY <1>1 DEF Stays, Failed, Got, Errors

LEMMA Parts ==
  ASSUME NEW bytes \in ByteString
  PROVE  /\ Len(bytes) \in Nat
         /\ \A n \in Nat : Skip(bytes, n) \in ByteString
         /\ \A m, n \in Nat : m + n <= Len(bytes) => SubSeq(bytes, m + 1, m + n) \in [1..n -> Byte]
         /\ \A n \in Nat :
              n <= Len(bytes) => SubSeq(bytes, 1, n) \in ByteString /\ Len(SubSeq(bytes, 1, n)) = n
         /\ bytes # <<>> => Tail(bytes) \in ByteString
<1>1. bytes \in Seq(Byte) /\ Len(bytes) \in Nat
  BY DEF ByteString
<1>2. ASSUME NEW n \in Nat PROVE Skip(bytes, n) \in Seq(Byte)
  BY <1>1 DEF Skip
<1>3. ASSUME NEW m \in Nat, NEW n \in Nat, m + n <= Len(bytes)
      PROVE  SubSeq(bytes, m + 1, m + n) \in [1..n -> Byte]
  <2>1. SubSeq(bytes, m + 1, m + n) \in Seq(Byte) /\ Len(SubSeq(bytes, m + 1, m + n)) = n
    BY <1>1, <1>3
  <2>2. PICK s : s = SubSeq(bytes, m + 1, m + n)
    OBVIOUS
  <2>3. s \in [1..n -> Byte]
    <3>1. s \in Seq(Byte) /\ Len(s) = n
      BY <2>1, <2>2
    <3> QED BY ONLY <3>1
  <2> QED BY <2>2, <2>3
<1>4. ASSUME NEW n \in Nat, n <= Len(bytes)
      PROVE  SubSeq(bytes, 1, n) \in Seq(Byte) /\ Len(SubSeq(bytes, 1, n)) = n
  BY <1>1, <1>4
<1>5. bytes # <<>> => Tail(bytes) \in Seq(Byte)
  BY <1>1
<1> QED BY <1>1, <1>2, <1>3, <1>4, <1>5 DEF ByteString

IsOfWidth(number, width) == \E s \in [1..width -> Byte] : number = Unsigned(s)

LEMMA UnsignedPart ==
  ASSUME NEW bytes \in ByteString, NEW m \in Nat, NEW n \in Nat, m + n <= Len(bytes)
  PROVE  LET number == Unsigned(SubSeq(bytes, m + 1, m + n)) IN number \in Nat /\ IsOfWidth(number, n)
<1>1. PICK s : s = SubSeq(bytes, m + 1, m + n)
  OBVIOUS
<1>2. s \in [1..n -> Byte]
  BY <1>1, Parts
<1>3. s \in [1..n -> Nat]
  <2>1. s = [i \in 1..n |-> s[i]] /\ \A i \in 1..n : s[i] \in Byte
    BY <1>2
  <2>2. \A byte \in Byte : byte \in Nat
    BY DEF Byte
  <2> QED BY ONLY <2>1, <2>2
<1>4. Unsigned(s) \in Nat
  BY <1>3, UnsignedIsNat
<1>5. IsOfWidth(Unsigned(s), n)
  BY <1>2, Zenon DEF IsOfWidth
<1> QED BY <1>1, <1>4, <1>5, Zenon

\* Fixed-size integers are numbers of their widths, as many as there are widths.
LEMMA NumbersOfWidths ==
  ASSUME NEW bytes \in ByteString, NEW n \in Nat, NEW widths \in [1..n -> Nat]
  PROVE  LET got == deserialize(bytes, widths) IN
         /\ Stays(got)
         /\ got.err = "ok" => got.value \in [1..n -> Nat] /\ \A i \in 1..n : IsOfWidth(got.value[i], widths[i])
<1> DEFINE start(i) == Sum(SubSeq(widths, 1, i - 1))
           numbers == [i \in 1..Len(widths) |-> Unsigned(SubSeq(bytes, start(i) + 1, start(i) + widths[i]))]
<1>1. /\ SumTo(widths, n) = Sum(widths)
      /\ \A k \in 1..n : SumTo(widths, k) = SumTo(widths, k - 1) + widths[k]
      /\ \A j, k \in 0..n : j <= k => SumTo(widths, j) \in Nat /\ SumTo(widths, j) <= SumTo(widths, k)
  <2>1. widths \in [1..n -> Int]
    OBVIOUS
  <2> QED BY <2>1, SumPrefix, SumGrows
<1>2. Len(widths) = n /\ Len(bytes) \in Nat /\ Sum(widths) \in Nat
  BY <1>1, Parts
<1>3. ASSUME NEW i \in 1..n PROVE start(i) = SumTo(widths, i - 1)
  <2>1. SubSeq(widths, 1, i - 1) = [k \in 1..(i - 1) |-> widths[k]]
    BY <1>2
  <2> QED BY <2>1, Zenon DEF SumTo
<1>4. CASE Len(bytes) < Sum(widths)
  <2>1. deserialize(bytes, widths) = Failed("incomplete_message")
    BY <1>4, Zenon DEF deserialize
  <2> QED BY <2>1, StaysOrFails DEF Errors
<1>5. CASE ~(Len(bytes) < Sum(widths))
  <2>1. deserialize(bytes, widths) = Got(numbers, Skip(bytes, Sum(widths)))
    BY <1>5, Zenon DEF deserialize
  <2>2. ASSUME NEW i \in 1..n
        PROVE  LET number == Unsigned(SubSeq(bytes, start(i) + 1, start(i) + widths[i])) IN
               number \in Nat /\ IsOfWidth(number, widths[i])
    <3>1. i - 1 \in 0..n /\ i \in 0..n /\ n \in 0..n /\ i - 1 <= i /\ i <= n /\ widths[i] \in Nat
      OBVIOUS
    <3>2. start(i) \in Nat /\ start(i) + widths[i] <= Sum(widths)
      BY <1>1, <1>3, <3>1
    <3> HIDE DEF start
    <3>3. start(i) + widths[i] <= Len(bytes)
      BY <1>2, <1>5, <3>1, <3>2
    <3> QED BY <3>1, <3>2, <3>3, UnsignedPart
  <2>3. numbers \in [1..n -> Nat]
    <3> HIDE DEF start
    <3> QED BY <1>2, <2>2
  <2>5. ASSUME NEW i \in 1..n PROVE IsOfWidth(numbers[i], widths[i])
    <3> HIDE DEF start
    <3>1. i \in 1..Len(widths)
      BY <1>2, <2>5
    <3>2. numbers[i] = Unsigned(SubSeq(bytes, start(i) + 1, start(i) + widths[i]))
      BY <3>1, Zenon
    <3> QED BY <2>2, <2>5, <3>2, Zenon
  <2>6. Skip(bytes, Sum(widths)) \in ByteString
    BY <1>2, Parts
  <2> HIDE DEF numbers
  <2> QED BY <2>1, <2>3, <2>5, <2>6, StaysOrFails
<1> QED BY <1>4, <1>5

LEMMA NumbersRead ==
  ASSUME NEW bytes \in ByteString, NEW n \in Nat, NEW widths \in [1..n -> Nat]
  PROVE  LET got == deserialize(bytes, widths) IN
         Stays(got) /\ (got.err = "ok" => got.value \in [1..n -> Nat])
BY NumbersOfWidths, Zenon

LEMMA NumberRead ==
  ASSUME NEW bytes \in ByteString, NEW width \in Nat
  PROVE  LET got == deserialize(bytes, <<width>>) IN
         Stays(got) /\ (got.err = "ok" => got.value \in [1..1 -> Nat])
<1>1. <<width>> \in [1..1 -> Nat]
  OBVIOUS
<1> QED BY <1>1, NumbersRead

LEMMA LenencRead ==
  ASSUME NEW bytes \in ByteString
  PROVE  LET got == deserialize_lenenc(bytes) IN
         Stays(got) /\ (got.err = "ok" => got.value \in [1..1 -> Nat])
<1>1. PICK first : first = deserialize(bytes, <<1>>)
  OBVIOUS
<1>2. PICK more : more = deserialize(first.rest, <<LenencWidth(first.value[1])>>)
  OBVIOUS
<1>3. deserialize_lenenc(bytes)
        = IF first.err = "ok"
            THEN IF LenencWidth(first.value[1]) = 0 THEN Got(first.value, first.rest) ELSE more
            ELSE first
  BY <1>1, <1>2, Zenon DEF deserialize_lenenc, Then
<1>4. Stays(first) /\ (first.err = "ok" => first.value \in [1..1 -> Nat]) /\ first.rest \in ByteString
  BY <1>1, NumberRead DEF Stays
<1>5. LenencWidth(first.value[1]) \in Nat
  BY DEF LenencWidth
<1>6. Stays(more) /\ (more.err = "ok" => more.value \in [1..1 -> Nat])
  BY <1>2, <1>4, <1>5, NumberRead
<1>7. CASE first.err = "ok" /\ LenencWidth(first.value[1]) = 0
  BY <1>3, <1>4, <1>7, StaysOrFails
<1> QED BY <1>3, <1>4, <1>6, <1>7

LEMMA StringRead ==
  ASSUME NEW bytes \in ByteString
  PROVE  LET got == deserialize_string_lenenc(bytes) IN
         Stays(got) /\ (got.err = "ok" => got.value \in ByteString)
<1>1. PICK length : length = deserialize_lenenc(bytes)
  OBVIOUS
<1>2. deserialize_string_lenenc(bytes)
        = IF length.err = "ok"
            THEN IF Len(length.rest) < length.value[1]
                   THEN Failed("incomplete_message")
                   ELSE Got(SubSeq(length.rest, 1, length.value[1]), Skip(length.rest, length.value[1]))
            ELSE length
  BY <1>1, Zenon DEF deserialize_string_lenenc, Then
<1>3. Stays(length) /\ (length.err = "ok" => length.value \in [1..1 -> Nat]) /\ length.rest \in ByteString
  BY <1>1, LenencRead DEF Stays
<1>4. CASE length.err # "ok"
  BY <1>2, <1>3, <1>4
<1>5. CASE length.err = "ok" /\ Len(length.rest) < length.value[1]
  BY <1>2, <1>5, StaysOrFails DEF Errors
<1>6. CASE length.err = "ok" /\ ~(Len(length.rest) < length.value[1])
  <2> DEFINE n == length.value[1]
             left == length.rest
  <2>1. n \in Nat /\ n <= Len(left) /\ left \in ByteString
    <3>1. n \in Nat /\ left \in ByteString /\ Len(left) \in Nat
      BY <1>3, <1>6, Parts
    <3> QED BY <1>6, <3>1
  <2>2. SubSeq(left, 1, n) \in ByteString /\ Skip(left, n) \in ByteString
    <3> HIDE DEF n, left
    <3> QED BY <2>1, Parts
  <2>3. deserialize_string_lenenc(bytes) = Got(SubSeq(left, 1, n), Skip(left, n))
    BY <1>2, <1>6, Zenon
  <2> HIDE DEF n, left
  <2> QED BY <2>2, <2>3, StaysOrFails
<1> QED BY <1>4, <1>5, <1>6

-----------------------------------------------------------------------------
(* The ranges of the values, whatever the bytes *)

Protocols == {"text", "binary"}
InRange(p, got) == Stays(got) /\ (got.err = "ok" => ValueOK(p, got.value))

LEMMA SimpleValues ==
  /\ \A p : ValueOK(p, NULL)
  /\ \A p, v : \A kind \in {"int64", "uint64", "float", "double", "string"} : ValueOK(p, Value(kind, v))
BY DEF ValueOK, NULL, Value

LEMMA Days ==
  ASSUME NEW p, NEW kind \in {"date", "datetime"}, NEW ymd,
         ymd[1] \in 0..LastYear, ymd[2] \in Nat, ymd[3] \in Nat
  PROVE  ValueOK(p, DayOrNull(kind, ymd))
<1>a. ymd[1] \in 0..LastYear /\ ymd[2] \in Nat /\ ymd[3] \in Nat
  OBVIOUS
<1>1. CASE ~ok(ymd)
  BY <1>1, SimpleValues DEF DayOrNull
<1>2. CASE ok(ymd)
  <2>1. DayOrNull(kind, ymd) = Value(kind, ymd)
    BY <1>2 DEF DayOrNull
  <2>2. ymd[2] \in 1..12 /\ ymd[3] \in 1..DaysIn(ymd[1], ymd[2])
    BY <1>2 DEF ok
  <2>3. DaysIn(ymd[1], ymd[2]) \in {28, 29, 30, 31}
        /\ (ymd[2] = 2 => DaysIn(ymd[1], ymd[2]) <= 29)
        /\ (ymd[2] \in {4, 6, 9, 11} => DaysIn(ymd[1], ymd[2]) = 30)
    <3> HIDE DEF Leap
    <3> QED BY DEF DaysIn
  <2>4. ymd[3] \in 1..31 /\ (ymd[3] = 31 => ymd[2] \notin {2, 4, 6, 9, 11}) /\ (ymd[2] = 2 => ymd[3] <= 29)
    BY <2>2, <2>3
  <2>5. PICK value : value = Value(kind, ymd)
    OBVIOUS
  <2>6. value.kind = kind /\ value.v = ymd
    BY ONLY <2>5 DEF Value
  <2>7. value.v[1] \in 0..LastYear /\ value.v[2] \in 1..12 /\ value.v[3] \in 1..31
        /\ (value.v[3] = 31 => value.v[2] \notin {2, 4, 6, 9, 11}) /\ (value.v[2] = 2 => value.v[3] <= 29)
    BY ONLY <1>a, <2>2, <2>4, <2>6, Zenon
  <2>8. value.kind \in {"date", "datetime"}
    BY <2>6, Zenon
  <2>9. ValueOK(p, value)
    BY ONLY <2>7, <2>8 DEF ValueOK
  <2> QED BY ONLY <2>1, <2>5, <2>9, Zenon
<1> QED BY <1>1, <1>2

LEMMA Times ==
  ASSUME NEW p \in Protocols, NEW n, NEW h \in Nat, NEW m \in 0..59, NEW s \in 0..59, NEW u,
         h <= IF p = "text" THEN 838 ELSE 839
  PROVE  ValueOK(p, ComposedTime(n, h, m, s, u))
<1> DEFINE seconds == (h * 60 + m) * 60 + s
           value == ComposedTime(n, h, m, s, u)
<1>1. seconds \in Nat /\ (p = "text" => seconds < max_time)
  BY DEF max_time, Protocols
<1>2. value.kind = "time" /\ value.v[1] \in {1 * seconds, -1 * seconds}
  BY DEF ComposedTime, Value
<1>3. p = "text" => value.v[1] < max_time /\ -value.v[1] < max_time
  <2> HIDE DEF seconds, value
  <2>1. max_time \in Int
    BY DEF max_time
  <2> QED BY <1>1, <1>2, <2>1
<1>4. ValueOK(p, value)
  <2> HIDE DEF value
  <2> QED BY <1>2, <1>3 DEF ValueOK
<1> QED BY <1>4

-----------------------------------------------------------------------------
(* The binary protocol *)

LEMMA IntegerInRange ==
  ASSUME NEW field, field.protocol_type \in IntTypes, NEW bytes \in ByteString
  PROVE  InRange("binary", binary_int(field, bytes))
<1>1. IntWidth[field.protocol_type] \in Nat
  BY ProtocolTypes DEF IntWidth
<1>2. \/ binary_int(field, bytes) = Failed("incomplete_message")
      \/ \E v : binary_int(field, bytes) = Got(Value(IntKind(field), v), Skip(bytes, IntWidth[field.protocol_type]))
  BY Zenon DEF binary_int
<1>3. Skip(bytes, IntWidth[field.protocol_type]) \in ByteString /\ IntKind(field) \in {"int64", "uint64"}
  BY <1>1, Parts DEF IntKind
<1> QED BY <1>2, <1>3, StaysOrFails, SimpleValues DEF InRange, Errors

LEMMA FloatInRange ==
  ASSUME NEW field, NEW bytes \in ByteString
  PROVE  InRange("binary", binary_float(field, bytes))
<1> DEFINE type == IF field.protocol_type = "float_" THEN float ELSE double
<1>1. \/ \E err \in {"incomplete_message", "protocol_value_error"} : binary_float(field, bytes) = Failed(err)
      \/ \E v : binary_float(field, bytes) = Got(Value(type.kind, v), Skip(bytes, type.size))
  BY Zenon DEF binary_float
<1>2. type.kind \in {"float", "double"} /\ type.size \in Nat
  BY DEF float, double
<1>3. Skip(bytes, type.size) \in ByteString
  BY <1>2, Parts
<1> HIDE DEF type
<1> QED BY <1>1, <1>2, <1>3, StaysOrFails, SimpleValues DEF InRange, Errors

\* A check lets through what is within the limits.
LEMMA CheckedRead ==
  ASSUME NEW fields_, NEW limits, NEW bytes \in ByteString
  PROVE  LET got == Checked(fields_, limits, bytes) IN
         /\ Stays(got)
         /\ got.err = "ok" =>
              got.value = fields_ /\ \A i \in DOMAIN limits : fields_[i] >= 0 /\ fields_[i] <= limits[i]
<1>1. CASE Within(fields_, limits)
  <2>1. Checked(fields_, limits, bytes) = Got(fields_, bytes)
    BY <1>1, Zenon DEF Checked
  <2> QED BY <1>1, <2>1, StaysOrFails DEF Within
<1>2. CASE ~Within(fields_, limits)
  <2>1. Checked(fields_, limits, bytes) = Failed("protocol_value_error")
    BY <1>2, Zenon DEF Checked
  <2> QED BY <2>1, StaysOrFails DEF Errors
<1> QED BY <1>1, <1>2

\* A year, a month and a day.
Day(ymd) == ymd \in [1..3 -> Nat] /\ ymd[1] <= LastYear

LEMMA Numbered ==
  ASSUME NEW T, NEW n \in Nat, NEW f \in [1..n -> T]
  PROVE  f \in Seq(T) /\ Len(f) = n
OBVIOUS

LEMMA PartsOfDay ==
  ASSUME NEW ymd, Day(ymd)
  PROVE  /\ ymd[1] \in 0..LastYear /\ ymd[2] \in Nat /\ ymd[3] \in Nat
         /\ ymd \in Seq(Nat) /\ Len(ymd) = 3
<1>1. ymd \in [1..3 -> Nat] /\ ymd[1] <= LastYear
  BY Zenon DEF Day
<1>2. 3 \in Nat
  OBVIOUS
<1>3. ymd \in Seq(Nat) /\ Len(ymd) = 3
  BY ONLY <1>1, <1>2, Numbered
<1>4. ymd[1] \in 0..LastYear /\ ymd[2] \in Nat /\ ymd[3] \in Nat
  BY ONLY <1>1
<1> QED BY <1>3, <1>4

LEMMA LimitsOfDays ==
  LastYear \in Nat /\ DOMAIN max_ymd = 1..3 /\ max_ymd[1] = LastYear
BY DEF max_ymd, LastYear

LEMMA DayRead ==
  ASSUME NEW bytes \in ByteString
  PROVE  LET got == deserialize_binary_ymd(bytes) IN Stays(got) /\ (got.err = "ok" => Day(got.value))
<1>1. PICK ymd : ymd = deserialize(bytes, <<2, 1, 1>>)
  OBVIOUS
<1>2. PICK checked : checked = Checked(ymd.value, max_ymd, ymd.rest)
  OBVIOUS
<1>3. deserialize_binary_ymd(bytes) = IF ymd.err = "ok" THEN checked ELSE ymd
  BY <1>1, <1>2, Zenon DEF deserialize_binary_ymd, Then
<1>4. <<2, 1, 1>> \in [1..3 -> Nat]
  OBVIOUS
<1>5. Stays(ymd) /\ (ymd.err = "ok" => ymd.value \in [1..3 -> Nat]) /\ ymd.rest \in ByteString
  BY <1>1, <1>4, NumbersRead DEF Stays
<1>6. Stays(checked)
      /\ (checked.err = "ok" => checked.value = ymd.value /\ \A i \in DOMAIN max_ymd : ymd.value[i] <= max_ymd[i])
  BY <1>2, <1>5, CheckedRead
<1> QED BY <1>3, <1>5, <1>6, LimitsOfDays DEF Day

LEMMA OptionalRead ==
  ASSUME NEW present, NEW bytes \in ByteString, NEW n \in Nat, NEW widths \in [1..n -> Nat]
  PROVE  LET got == Optional(present, bytes, widths) IN
         Stays(got) /\ (got.err = "ok" => got.value \in [1..n -> Nat])
<1>1. CASE present
  BY <1>1, NumbersRead DEF Optional
<1>2. CASE ~present
  <2> DEFINE zeros == [i \in DOMAIN widths |-> 0]
  <2>1. Optional(present, bytes, widths) = Got(zeros, bytes)
    BY <1>2, Zenon DEF Optional
  <2>2. zeros \in [1..n -> Nat]
    OBVIOUS
  <2> HIDE DEF zeros
  <2> QED BY <2>1, <2>2, StaysOrFails
<1> QED BY <1>1, <1>2

LEMMA DateInRange ==
  ASSUME NEW bytes \in ByteString
  PROVE  InRange("binary", deserialize_binary_value_date(bytes))
<1>1. PICK length, ymd : DateParts(bytes, length, ymd)
  BY DateSteps
<1>2. Stays(length) /\ length.rest \in ByteString
  BY <1>1, NumberRead DEF DateParts, Stays
<1>3. Stays(ymd) /\ (ymd.err = "ok" => Day(ymd.value)) /\ ymd.rest \in ByteString
  BY <1>1, <1>2, DayRead DEF DateParts, Stays
<1>4. ymd.err = "ok" => ValueOK("binary", DayOrNull("date", ymd.value))
  <2> SUFFICES ASSUME Day(ymd.value) PROVE ValueOK("binary", DayOrNull("date", ymd.value))
    BY <1>3, Zenon
  <2>1. PICK d : d = ymd.value
    OBVIOUS
  <2>2. d[1] \in 0..LastYear /\ d[2] \in Nat /\ d[3] \in Nat
    BY <2>1, PartsOfDay, Zenon
  <2>3. ValueOK("binary", DayOrNull("date", d))
    BY ONLY <2>2, Days
  <2> QED BY <2>1, <2>3, Zenon
<1>5. deserialize_binary_value_date(bytes)
       = IF length.err # "ok" THEN length
         ELSE IF length.value[1] < 4 THEN Got(NULL, length.rest)
         ELSE IF ymd.err # "ok" THEN ymd
         ELSE Got(DayOrNull("date", ymd.value), ymd.rest)
  BY <1>1, Zenon DEF DateParts
<1> QED BY <1>2, <1>3, <1>4, <1>5, StaysOrFails, SimpleValues DEF InRange

LEMMA FirstPart ==
  ASSUME NEW S, NEW s \in Seq(S), NEW t \in Seq(S)
  PROVE  \A i \in 1..Len(s) : (s \o t)[i] = s[i]
<1>1. Len(s) \in Nat /\ Len(t) \in Nat
  OBVIOUS
<1>2. \A i \in 1..(Len(s) + Len(t)) : (s \o t)[i] = IF i <= Len(s) THEN s[i] ELSE t[i - Len(s)]
  BY ConcatProperties
<1> QED BY ONLY <1>1, <1>2

\* The day comes first in what a datetime is made of.
LEMMA DayFirst ==
  ASSUME NEW ymd, Day(ymd), NEW tod, IsSeq(tod)
  PROVE  LET whole == ymd \o tod IN whole[1] \in 0..LastYear /\ whole[2] \in Nat /\ whole[3] \in Nat
<1>1. PICK T : tod \in Seq(T)
  BY DEF IsSeq
<1>2. ymd[1] \in 0..LastYear /\ ymd[2] \in Nat /\ ymd[3] \in Nat /\ ymd \in Seq(Nat) /\ Len(ymd) = 3
  BY PartsOfDay, Zenon
<1>3. PICK S : S = Nat \cup T
  OBVIOUS
<1>4. ymd \in Seq(S) /\ tod \in Seq(S)
  <2>1. \A q : (q \in Seq(Nat) => q \in Seq(Nat \cup T)) /\ (q \in Seq(T) => q \in Seq(Nat \cup T))
    OBVIOUS
  <2> QED BY <1>1, <1>2, <1>3, <2>1, Zenon
<1>5. \A i \in 1..Len(ymd) : (ymd \o tod)[i] = ymd[i]
  BY <1>4, FirstPart, Zenon
<1>6. 1 \in 1..Len(ymd) /\ 2 \in 1..Len(ymd) /\ 3 \in 1..Len(ymd)
  BY ONLY <1>2
<1>7. PICK whole : whole = ymd \o tod
  OBVIOUS
<1>8. whole[1] = ymd[1] /\ whole[2] = ymd[2] /\ whole[3] = ymd[3]
  BY ONLY <1>5, <1>6, <1>7, Zenon
<1>9. whole[1] \in 0..LastYear /\ whole[2] \in Nat /\ whole[3] \in Nat
  BY ONLY <1>2, <1>8
<1> QED BY <1>7, <1>9, Zenon

LEMMA DatetimeInRange ==
  ASSUME NEW bytes \in ByteString
  PROVE  InRange("binary", deserialize_binary_value_datetime(bytes))
<1>1. PICK length, ymd, hms, micros, tod : DatetimeParts(bytes, length, ymd, hms, micros, tod)
  BY DatetimeSteps
<1>2. Stays(length) /\ length.rest \in ByteString
  BY <1>1, NumberRead DEF DatetimeParts, Stays
<1>3. Stays(ymd) /\ (ymd.err = "ok" => Day(ymd.value)) /\ ymd.rest \in ByteString
  <2>1. PICK none, day : none = Got(<<0, 0, 0>>, length.rest) /\ day = deserialize_binary_ymd(length.rest)
    OBVIOUS
  <2>2. Stays(none) /\ none.value = <<0, 0, 0>>
    BY <1>2, <2>1, StaysOrFails
  <2>3. Day(<<0, 0, 0>>)
    BY DEF Day, LastYear
  <2>4. Stays(day) /\ (day.err = "ok" => Day(day.value))
    BY <1>2, <2>1, DayRead
  <2>5. ymd = day \/ ymd = none
    BY <1>1, <2>1, Zenon DEF DatetimeParts
  <2> QED BY <2>2, <2>3, <2>4, <2>5 DEF Stays
<1>4. Stays(hms) /\ (hms.err = "ok" => hms.value \in [1..3 -> Nat]) /\ hms.rest \in ByteString
  <2>1. <<1, 1, 1>> \in [1..3 -> Nat]
    OBVIOUS
  <2>2. hms = Optional(length.value[1] >= 7, ymd.rest, <<1, 1, 1>>)
    BY <1>1, Zenon DEF DatetimeParts
  <2> QED BY <1>3, <2>1, <2>2, OptionalRead DEF Stays
<1>5. Stays(micros) /\ (micros.err = "ok" => micros.value \in [1..1 -> Nat]) /\ micros.rest \in ByteString
  <2>1. <<4>> \in [1..1 -> Nat]
    OBVIOUS
  <2>2. micros = Optional(length.value[1] >= 11, hms.rest, <<4>>)
    BY <1>1, Zenon DEF DatetimeParts
  <2> QED BY <1>4, <2>1, <2>2, OptionalRead DEF Stays
<1>6. Stays(tod) /\ (tod.err = "ok" => tod.value = hms.value \o micros.value) /\ tod.rest \in ByteString
  <2>1. tod = Checked(hms.value \o micros.value, Append(max_hms, max_micro), micros.rest)
    BY <1>1, Zenon DEF DatetimeParts
  <2> QED BY <1>5, <2>1, CheckedRead DEF Stays
<1>7. hms.err = "ok" /\ micros.err = "ok" /\ tod.err = "ok" => IsSeq(tod.value)
  <2> SUFFICES ASSUME hms.err = "ok", micros.err = "ok", tod.err = "ok" PROVE IsSeq(tod.value)
    OBVIOUS
  <2>1. PICK h, m : h = hms.value /\ m = micros.value
    OBVIOUS
  <2>2. h \in [1..3 -> Nat] /\ m \in [1..1 -> Nat]
    BY <1>4, <1>5, <2>1
  <2>3. h \in Seq(Nat) /\ m \in Seq(Nat)
    <3>1. 3 \in Nat /\ 1 \in Nat
      OBVIOUS
    <3> QED BY <2>2, <3>1, Numbered, Zenon
  <2>4. h \o m \in Seq(Nat)
    BY ONLY <2>3
  <2> QED BY <1>6, <2>1, <2>4 DEF IsSeq
<1>8. ymd.err = "ok" /\ hms.err = "ok" /\ micros.err = "ok" /\ tod.err = "ok"
        => ValueOK("binary", DayOrNull("datetime", ymd.value \o tod.value))
  <2> SUFFICES ASSUME Day(ymd.value), IsSeq(tod.value)
               PROVE  ValueOK("binary", DayOrNull("datetime", ymd.value \o tod.value))
    BY <1>3, <1>7, Zenon
  <2>1. PICK whole : whole = ymd.value \o tod.value
    OBVIOUS
  <2>2. whole[1] \in 0..LastYear /\ whole[2] \in Nat /\ whole[3] \in Nat
    BY <2>1, DayFirst, Zenon
  <2>3. ValueOK("binary", DayOrNull("datetime", whole))
    BY ONLY <2>2, Days
  <2> QED BY <2>1, <2>3, Zenon
<1>9. deserialize_binary_value_datetime(bytes) = DatetimeOf(length, ymd, hms, micros, tod)
  BY <1>1, Zenon DEF DatetimeParts
<1> QED BY ONLY <1>2, <1>3, <1>4, <1>5, <1>6, <1>8, <1>9, StaysOrFails DEF InRange, DatetimeOf

LEMMA Elements ==
  ASSUME NEW T, NEW s \in Seq(T)
  PROVE  Len(s) \in Nat /\ s \in [1..Len(s) -> T] /\ \A i \in 1..Len(s) : s[i] \in T
OBVIOUS

LEMMA LimitsOfTimes ==
  LET limits == <<34>> \o Append(max_hms, max_micro) IN
  1..4 \subseteq DOMAIN limits /\ limits[1] = 34 /\ limits[2] = 23 /\ limits[3] = 59 /\ limits[4] = 59
<1>1. PICK S : S = Nat \cup {max_micro}
  OBVIOUS
<1>2. PICK clock : clock = Append(max_hms, max_micro)
  OBVIOUS
<1>3. clock \in Seq(S) /\ Len(clock) = 4 /\ clock[1] = 23 /\ clock[2] = 59 /\ clock[3] = 59
  <2>1. max_micro \in S
    BY <1>1
  <2>2. max_hms \in Seq(S) /\ Len(max_hms) = 3 /\ max_hms[1] = 23 /\ max_hms[2] = 59 /\ max_hms[3] = 59
    BY <1>1 DEF max_hms
  <2> QED BY <1>2, <2>1, <2>2
<1>4. PICK days : days = <<34>>
  OBVIOUS
<1>5. days \in Seq(S) /\ Len(days) = 1 /\ days[1] = 34
  BY <1>1, <1>4
<1>6. PICK limits : limits = days \o clock
  OBVIOUS
<1>s. days \in Seq(S) /\ clock \in Seq(S)
  BY <1>3, <1>5
<1>7. limits \in Seq(S) /\ Len(limits) = 5
  <2>0. days \o clock \in Seq(S) /\ Len(days \o clock) = Len(days) + Len(clock)
    BY ONLY <1>s, Concatenation
  <2>1. limits \in Seq(S) /\ Len(limits) = Len(days) + Len(clock)
    BY ONLY <1>6, <2>0
  <2>2. \A a, b, c : a = b + c /\ b = 1 /\ c = 4 => a = 5
    OBVIOUS
  <2> QED BY ONLY <1>3, <1>5, <2>1, <2>2, Zenon
<1>8. \A i \in 1..(Len(days) + Len(clock)) :
        (days \o clock)[i] = IF i <= Len(days) THEN days[i] ELSE clock[i - Len(days)]
  BY ONLY <1>s, ConcatProperties
<1>9. ASSUME NEW i \in 1..3 PROVE limits[i + 1] = clock[i]
  <2>1. i + 1 \in 1..(Len(days) + Len(clock)) /\ ~(i + 1 <= Len(days)) /\ (i + 1) - Len(days) = i
    BY ONLY <1>3, <1>5, i \in 1..3
  <2> QED BY ONLY <1>6, <1>8, <2>1, Zenon
<1>10. limits[1] = 34
  <2>1. 1 \in 1..(Len(days) + Len(clock)) /\ 1 <= Len(days)
    BY ONLY <1>3, <1>5
  <2> QED BY ONLY <1>5, <1>6, <1>8, <2>1, Zenon
<1>11. limits[2] = 23 /\ limits[3] = 59 /\ limits[4] = 59
  <2>1. 1 \in 1..3 /\ 2 \in 1..3 /\ 3 \in 1..3 /\ 1 + 1 = 2 /\ 2 + 1 = 3 /\ 3 + 1 = 4
    OBVIOUS
  <2> QED BY ONLY <1>3, <1>9, <2>1
<1>12. 1..4 \subseteq DOMAIN limits
  BY ONLY <1>7
<1> QED BY <1>2, <1>4, <1>6, <1>10, <1>11, <1>12, Zenon

\* What follows the sign in a time.
LEMMA AfterSign ==
  ASSUME NEW t \in [1..5 -> Nat], NEW micros \in [1..1 -> Nat]
  PROVE  LET d == Tail(t) \o micros IN \A i \in 1..5 : d[i] \in Nat
<1>1. t \in Seq(Nat) /\ Len(t) = 5 /\ micros \in Seq(Nat) /\ Len(micros) = 1
  <2>1. PICK m, n : m = 5 /\ n = 1
    OBVIOUS
  <2>2. m \in Nat /\ n \in Nat
    BY ONLY <2>1
  <2>3. t \in [1..m -> Nat] /\ micros \in [1..n -> Nat]
    BY <2>1, Zenon
  <2>4. t \in Seq(Nat) /\ Len(t) = m /\ micros \in Seq(Nat) /\ Len(micros) = n
    BY ONLY <2>2, <2>3, Numbered
  <2> QED BY <2>1, <2>4, Zenon
<1>2. Tail(t) \in Seq(Nat) /\ Len(Tail(t)) = 4
  <2>1. t # <<>>
    <3>1. Len(<<>>) = 0 /\ 0 # 5
      BY EmptySeq
    <3> QED BY ONLY <1>1, <3>1, Zenon
  <2>2. Tail(t) \in Seq(Nat) /\ Len(Tail(t)) = Len(t) - 1
    BY ONLY <1>1, <2>1, HeadTailProperties, Zenon
  <2>3. \A a, b : b = 5 /\ a = b - 1 => a = 4
    OBVIOUS
  <2> QED BY ONLY <1>1, <2>2, <2>3, Zenon
<1>3. PICK d : d = Tail(t) \o micros
  OBVIOUS
<1>4. d \in Seq(Nat) /\ Len(d) = 5
  <2>1. d \in Seq(Nat) /\ Len(d) = Len(Tail(t)) + Len(micros)
    BY ONLY <1>1, <1>2, <1>3, Concatenation, Zenon
  <2>2. \A a, b, c : a = b + c /\ b = 4 /\ c = 1 => a = 5
    OBVIOUS
  <2> QED BY ONLY <1>1, <1>2, <2>1, <2>2, Zenon
<1>5. \A i \in 1..Len(d) : d[i] \in Nat
  BY ONLY <1>4, Elements, Zenon
<1> QED BY <1>3, <1>4, <1>5, Zenon

LEMMA TimeInRange ==
  ASSUME NEW bytes \in ByteString
  PROVE  InRange("binary", deserialize_binary_value_time(bytes))
<1>1. PICK length, t, micros, dhms : TimeParts(bytes, length, t, micros, dhms)
  BY TimeSteps
<1>2. Stays(length) /\ length.rest \in ByteString
  BY <1>1, NumberRead DEF TimeParts, Stays
<1>3. Stays(t) /\ (t.err = "ok" => t.value \in [1..5 -> Nat]) /\ t.rest \in ByteString
  <2>1. <<1, 4, 1, 1, 1>> \in [1..5 -> Nat]
    OBVIOUS
  <2>2. t = Optional(length.value[1] >= 8, length.rest, <<1, 4, 1, 1, 1>>)
    BY <1>1, Zenon DEF TimeParts
  <2> QED BY <1>2, <2>1, <2>2, OptionalRead DEF Stays
<1>4. Stays(micros) /\ (micros.err = "ok" => micros.value \in [1..1 -> Nat]) /\ micros.rest \in ByteString
  <2>1. <<4>> \in [1..1 -> Nat]
    OBVIOUS
  <2>2. micros = Optional(length.value[1] >= 12, t.rest, <<4>>)
    BY <1>1, Zenon DEF TimeParts
  <2> QED BY <1>3, <2>1, <2>2, OptionalRead DEF Stays
<1> DEFINE limits == <<34>> \o Append(max_hms, max_micro)
           d == Tail(t.value) \o micros.value
<1>5. Stays(dhms) /\ dhms.rest \in ByteString
      /\ (dhms.err = "ok" => dhms.value = d /\ \A i \in DOMAIN limits : d[i] <= limits[i])
  <2>1. dhms = Checked(d, limits, micros.rest)
    BY <1>1, Zenon DEF TimeParts
  <2> HIDE DEF d, limits
  <2> QED BY <1>4, <2>1, CheckedRead DEF Stays
<1>6. t.err = "ok" /\ micros.err = "ok" => \A i \in 1..5 : d[i] \in Nat
  BY <1>3, <1>4, AfterSign, Zenon
<1>7. 1..4 \subseteq DOMAIN limits /\ limits[1] = 34 /\ limits[2] = 23 /\ limits[3] = 59 /\ limits[4] = 59
  BY LimitsOfTimes, Zenon
<1> DEFINE value == ComposedTime(t.value[1] # 0, dhms.value[1] * 24 + dhms.value[2], dhms.value[3],
                                 dhms.value[4], dhms.value[5])
<1>8. t.err = "ok" /\ micros.err = "ok" /\ dhms.err = "ok" => ValueOK("binary", value)
  <2> SUFFICES ASSUME t.err = "ok", micros.err = "ok", dhms.err = "ok" PROVE ValueOK("binary", value)
    OBVIOUS
  <2> HIDE DEF limits, d
  <2>1. PICK v : v = dhms.value
    OBVIOUS
  <2>2. (\A i \in 1..5 : v[i] \in Nat) /\ \A i \in 1..4 : v[i] <= limits[i]
    BY <1>5, <1>6, <1>7, <2>1
  <2>3. 1 \in 1..5 /\ 2 \in 1..5 /\ 3 \in 1..5 /\ 4 \in 1..5 /\ 1 \in 1..4 /\ 2 \in 1..4 /\ 3 \in 1..4 /\ 4 \in 1..4
    OBVIOUS
  <2>4. v[1] \in Nat /\ v[2] \in Nat /\ v[3] \in Nat /\ v[4] \in Nat
    BY ONLY <2>2, <2>3, Zenon
  <2>5. v[1] <= 34 /\ v[2] <= 23 /\ v[3] <= 59 /\ v[4] <= 59
    BY ONLY <1>7, <2>2, <2>3, Zenon
  <2>6. v[1] * 24 + v[2] \in Nat /\ v[1] * 24 + v[2] <= 839 /\ v[3] \in 0..59 /\ v[4] \in 0..59
    BY ONLY <2>4, <2>5
  <2>7. PICK n, u : n = (t.value[1] # 0) /\ u = v[5]
    OBVIOUS
  <2>8. "binary" \in Protocols /\ "binary" # "text"
    BY DEF Protocols
  <2>9. ValueOK("binary", ComposedTime(n, v[1] * 24 + v[2], v[3], v[4], u))
    BY ONLY <2>6, <2>8, Times
  <2> QED BY <2>1, <2>7, <2>9, Zenon
<1>9. deserialize_binary_value_time(bytes) = TimeOf(length, t, micros, dhms)
  BY <1>1, Zenon DEF TimeParts
<1>10. TimeOf(length, t, micros, dhms)
         = IF length.err # "ok" THEN length ELSE IF t.err # "ok" THEN t ELSE IF micros.err # "ok" THEN micros
           ELSE IF dhms.err # "ok" THEN dhms ELSE Got(value, dhms.rest)
  BY Zenon DEF TimeOf
<1> HIDE DEF value
<1> QED BY ONLY <1>2, <1>3, <1>4, <1>5, <1>8, <1>9, <1>10, StaysOrFails DEF InRange

LEMMA BinaryInRange ==
  ASSUME NEW field, NEW bytes \in ByteString
  PROVE  InRange("binary", deserialize_binary_value(field, bytes))
<1> DEFINE type == field.protocol_type
           got == deserialize_binary_value(field, bytes)
<1>1. CASE type \in IntTypes
  <2>1. got = binary_int(field, bytes)
    BY <1>1, ProtocolTypes DEF deserialize_binary_value
  <2> QED BY <1>1, <2>1, IntegerInRange
<1>2. CASE type \in FloatTypes
  <2>1. got = binary_float(field, bytes)
    BY <1>2, ProtocolTypes DEF deserialize_binary_value
  <2> QED BY <2>1, FloatInRange
<1>3. CASE type = "date"
  <2>1. got = deserialize_binary_value_date(bytes)
    BY <1>3, ProtocolTypes DEF deserialize_binary_value
  <2> QED BY <2>1, DateInRange
<1>4. CASE type \in DatetimeTypes
  <2>1. got = deserialize_binary_value_datetime(bytes)
    BY <1>4, ProtocolTypes DEF deserialize_binary_value
  <2> QED BY <2>1, DatetimeInRange
<1>5. CASE type = "time"
  <2>1. got = deserialize_binary_value_time(bytes)
    BY <1>5, ProtocolTypes DEF deserialize_binary_value
  <2> QED BY <2>1, TimeInRange
<1>6. CASE type \notin IntTypes \cup FloatTypes \cup DatetimeTypes \cup {"date", "time"}
  <2>1. got = Then(deserialize_string_lenenc(bytes), LAMBDA string, left : Got(Value("string", string), left))
    BY <1>6, ProtocolTypes DEF deserialize_binary_value
  <2>2. PICK string : string = deserialize_string_lenenc(bytes)
    OBVIOUS
  <2>3. Then(deserialize_string_lenenc(bytes), LAMBDA s, left : Got(Value("string", s), left))
          = IF string.err = "ok" THEN Got(Value("string", string.value), string.rest) ELSE string
    BY <2>2, Zenon DEF Then
  <2>4. Stays(string) /\ string.rest \in ByteString
    BY <2>2, StringRead DEF Stays
  <2>5. got = IF string.err = "ok" THEN Got(Value("string", string.value), string.rest) ELSE string
    BY <2>1, <2>3, Zenon
  <2>6. PICK g : g = got
    OBVIOUS
  <2>7. InRange("binary", g)
    BY ONLY <2>4, <2>5, <2>6, StaysOrFails, SimpleValues DEF InRange
  <2> QED BY <2>6, <2>7, Zenon
<1> QED BY <1>1, <1>2, <1>3, <1>4, <1>5, <1>6

-----------------------------------------------------------------------------
(* The text protocol *)

LEMMA NumberOfDigits ==
  ASSUME NEW digits \in Seq(Digit)
  PROVE  NumberOf(digits) \in Nat
<1> DEFINE n == Len(digits)
           step == [k \in 1..n |-> [x \in Nat |-> x * 10 + digits[k] - 48]]
<1>1. n \in Nat /\ DOMAIN digits = 1..n /\ \A k \in 1..n : digits[k] \in Digit
  OBVIOUS
<1> HIDE DEF n
<1>2. ASSUME NEW k \in 1..n, NEW x \in Nat PROVE x * 10 + digits[k] - 48 \in Nat
  BY <1>1 DEF Digit
<1>3. PICK f : Folds_(f, 1..n, Nat, 0, Greatest(n), step)
  <2>1. Steps(step, 1..n, Nat)
    BY <1>2 DEF Steps
  <2>2. IsFiniteSet(1..n) /\ Chooses(Greatest(n), 1..n) /\ 0 \in Nat
    BY <1>1, GreatestChooses, FiniteInterval
  <2> HIDE DEF step
  <2> QED BY <2>1, <2>2, FoldExists, Zenon
<1>4. \A s \in SUBSET (1..n) : s # {} => f[s] = f[s \ {Max(s)}] * 10 + digits[Max(s)] - 48
  <2> SUFFICES ASSUME NEW s \in SUBSET (1..n), s # {} PROVE f[s] = f[s \ {Max(s)}] * 10 + digits[Max(s)] - 48
    OBVIOUS
  <2>1. Greatest(n)[s] = Max(s) /\ Max(s) \in 1..n
    BY <1>1, GreatestChooses
  <2>2. f[s] = step[Max(s)][f[s \ {Max(s)}]]
    BY <1>3, <2>1, Zenon DEF Folds_, Folded
  <2>3. f[s \ {Max(s)}] \in Nat
    BY <1>3 DEF Folds_
  <2> QED BY <2>1, <2>2, <2>3
<1>5. f[{}] = 0 /\ f \in [SUBSET (1..n) -> Nat]
  BY <1>3 DEF Folds_, Folded
<1> DEFINE next(s, h) == h[s \ {Max(s)}] * 10 + digits[Max(s)] - 48
           it == CHOOSE it : it = [s \in SUBSET (1..n) |-> IF s = {} THEN 0
                                                           ELSE it[s \ {Max(s)}] * 10 + digits[Max(s)] - 48]
<1>6. f = [s \in SUBSET (1..n) |-> IF s = {} THEN 0 ELSE f[s \ {Max(s)}] * 10 + digits[Max(s)] - 48]
  <2> HIDE DEF step
  <2> QED BY <1>4, <1>5
<1>7. it = [s \in SUBSET (1..n) |-> IF s = {} THEN 0 ELSE it[s \ {Max(s)}] * 10 + digits[Max(s)] - 48]
  BY <1>6, Zenon
<1>8. NumberOf(digits) = it[1..n]
  BY <1>1, Zenon DEF NumberOf, FoldLeft, MapThenFoldSet
<1>9. it[1..n] = f[1..n]
  <2>1. it[{}] = f[{}]
    <3> HIDE DEF it
    <3> QED BY <1>5, <1>7
  <2>2. ASSUME NEW s \in SUBSET (1..n), s # {}, it[s \ {Greatest(n)[s]}] = f[s \ {Greatest(n)[s]}]
        PROVE  it[s] = f[s]
    <3> HIDE DEF it
    <3>1. Greatest(n)[s] = Max(s)
      BY <1>1, <2>2, GreatestChooses
    <3>2. it[s] = it[s \ {Max(s)}] * 10 + digits[Max(s)] - 48
      BY <1>7, <2>2, Zenon
    <3>3. f[s] = f[s \ {Max(s)}] * 10 + digits[Max(s)] - 48
      BY <1>4, <2>2, Zenon
    <3> QED BY <2>2, <3>1, <3>2, <3>3, Zenon
  <2>3. IsFiniteSet(1..n) /\ Chooses(Greatest(n), 1..n)
    BY <1>1, GreatestChooses, FiniteInterval
  <2> HIDE DEF it
  <2>4. SameSteps(it, f, 1..n, Greatest(n))
    BY <2>1, <2>2 DEF SameSteps
  <2>5. PICK S, c : S = 1..n /\ c = Greatest(n)
    OBVIOUS
  <2>6. IsFiniteSet(S) /\ Chooses(c, S) /\ SameSteps(it, f, S, c)
    BY <2>3, <2>4, <2>5, Zenon
  <2>7. it[S] = f[S]
    BY <2>6, FoldUnique, Zenon
  <2> QED BY <2>5, <2>7, Zenon
<1> QED
  <2> HIDE DEF it, step
  <2> QED BY <1>5, <1>8, <1>9

LEMMA MaxFromZero ==
  ASSUME NEW n \in Nat, NEW s \in SUBSET (0..n), 0 \in s
  PROVE  Max(s) \in s
<1> DEFINE t == s \ {0}
<1>1. CASE t = {}
  <2>1. s = {0}
    BY <1>1
  <2> QED BY <2>1 DEF Max
<1>2. CASE t # {}
  <2>1. t \in SUBSET (1..n)
    OBVIOUS
  <2>2. Max(t) \in t /\ \A x \in t : x <= Max(t)
    <3> HIDE DEF t
    <3> QED BY <1>2, <2>1, MaxOfSet
  <2>3. PICK m : m = Max(t)
    OBVIOUS
  <2>4. m \in t /\ \A x \in t : x <= m
    <3> HIDE DEF t
    <3> QED BY <2>2, <2>3, Zenon
  <2>5. m \in s /\ m \in 1..n /\ \A x \in s : x >= 0 /\ (x # 0 => x \in t)
    BY <2>4
  <2>6. \E x \in s : \A y \in s : x >= y
    <3> HIDE DEF t
    <3> QED BY <2>4, <2>5
  <2> QED BY <2>6 DEF Max
<1> QED BY <1>1, <1>2

LEMMA LeadingPart ==
  ASSUME NEW text \in ByteString, NEW chars, NEW most \in Nat
  PROVE  /\ Leading(text, chars, most) \in Nat /\ Leading(text, chars, most) <= Len(text)
         /\ \A i \in 1..Leading(text, chars, most) : text[i] \in chars
<1> DEFINE s == {k \in 0..most : k <= Len(text) /\ \A i \in 1..k : text[i] \in chars}
<1>1. Len(text) \in Nat
  BY Parts
<1>2. 0 \in s
  BY <1>1
<1>3. s \in SUBSET (0..most)
  OBVIOUS
<1>4. Max(s) \in s
  <2> HIDE DEF s
  <2> QED BY <1>2, <1>3, MaxFromZero
<1>5. PICK w : w = Max(s)
  OBVIOUS
<1>6. w \in Nat /\ w <= Len(text) /\ \A i \in 1..w : text[i] \in chars
  BY <1>4, <1>5
<1>7. Leading(text, chars, most) = w
  BY <1>5, Zenon DEF Leading
<1> HIDE DEF s
<1> QED BY <1>6, <1>7, Zenon

\* The digits that an item of a format takes, and their number.
LEMMA NumberAtStart ==
  ASSUME NEW text \in ByteString, NEW most \in Nat
  PROVE  NumberOf(SubSeq(text, 1, Leading(text, Digit, most))) \in Nat
<1>1. PICK w : w = Leading(text, Digit, most)
  OBVIOUS
<1>2. w \in Nat /\ w <= Len(text) /\ \A i \in 1..w : text[i] \in Digit
  BY <1>1, LeadingPart
<1>3. PICK digits : digits = SubSeq(text, 1, w)
  OBVIOUS
<1>4. digits \in Seq(Digit)
  <2>1. text \in Seq(Byte) /\ Len(text) \in Nat
    BY Parts DEF ByteString
  <2>2. digits = [i \in 1..w |-> text[i]]
    BY ONLY <1>2, <1>3, <2>1
  <2> QED BY ONLY <1>2, <2>2
<1> QED BY <1>1, <1>3, <1>4, NumberOfDigits, Zenon

\* What sscanf has read.
Scan == [ok : BOOLEAN, text : ByteString, numbers : Seq(Int)]
ScannedItem(scan, item, next) ==
  /\ next \in Scan
  /\ item < 0 => next.numbers = scan.numbers
  /\ item \in Nat => Len(next.numbers) = Len(scan.numbers) + 1

LEMMA ItemScanned ==
  ASSUME NEW scan \in Scan, NEW item \in Int, item # 0
  PROVE  ScannedItem(scan, item, ScanItem(scan, item))
<1>1. scan.ok \in BOOLEAN /\ scan.text \in ByteString /\ scan.numbers \in Seq(Int)
  BY DEF Scan
<1>2. CASE item < 0
  <2>1. ScanItem(scan, item) =
          [scan EXCEPT !.ok = @ /\ scan.text # <<>> /\ scan.text[1] = -item, !.text = Skip(@, 1)]
    BY <1>2 DEF ScanItem
  <2>2. Skip(scan.text, 1) \in ByteString
    BY <1>1, Parts
  <2>3. PICK found, left :
          found = (scan.ok /\ scan.text # <<>> /\ scan.text[1] = -item) /\ left = Skip(scan.text, 1)
    OBVIOUS
  <2>4. found \in BOOLEAN
    BY <2>3, Zenon
  <2>5. ScanItem(scan, item) = [scan EXCEPT !.ok = found, !.text = left]
    BY <2>1, <2>3
  <2>6. PICK next : next = [scan EXCEPT !.ok = found, !.text = left]
    OBVIOUS
  <2>7. next \in Scan /\ next.numbers = scan.numbers
    BY <2>2, <2>3, <2>4, <2>6 DEF Scan
  <2> QED BY <1>2, <2>5, <2>6, <2>7 DEF ScannedItem
<1>3. CASE ~(item < 0)
  <2>1. item \in Nat \ {0}
    BY <1>3
  <2>2. PICK text : text = Skip(scan.text, Leading(scan.text, Blanks, Len(scan.text)))
    OBVIOUS
  <2>3. text \in ByteString
    <3>1. Len(scan.text) \in Nat
      BY <1>1, Parts
    <3>2. Leading(scan.text, Blanks, Len(scan.text)) \in Nat
      BY <1>1, <3>1, LeadingPart
    <3> QED BY <1>1, <2>2, <3>2, Parts
  <2>4. PICK sign : sign = SignSize(text)
    OBVIOUS
  <2>5. PICK tail : tail = Skip(text, sign)
    OBVIOUS
  <2>6. tail \in ByteString
    <3>1. sign \in Nat
      BY <2>4 DEF SignSize
    <3> QED BY <2>3, <2>5, <3>1, Parts
  <2>7. PICK width, number, signed :
          /\ width = Leading(tail, Digit, item - sign)
          /\ number = NumberOf(SubSeq(tail, 1, width))
          /\ signed = IF Negative(text) THEN -number ELSE number
    OBVIOUS
  <2>8. ScanItem(scan, item) =
          [ok |-> scan.ok /\ width > 0, text |-> Skip(tail, width), numbers |-> Append(scan.numbers, signed)]
    BY <1>3, <2>2, <2>4, <2>5, <2>7, Zenon DEF ScanItem
  <2>9. width \in Nat /\ number \in Nat
    <3>1. item - sign \in Nat
      BY <2>1, <2>4 DEF SignSize
    <3> QED BY <2>6, <2>7, <3>1, LeadingPart, NumberAtStart
  <2>10. signed \in Int /\ Skip(tail, width) \in ByteString
    <3>1. signed \in Int
      BY ONLY <2>7, <2>9
    <3> QED BY <2>6, <2>9, <3>1, Parts
  <2>11. PICK found, left, numbers :
           found = (scan.ok /\ width > 0) /\ left = Skip(tail, width) /\ numbers = Append(scan.numbers, signed)
    OBVIOUS
  <2>12. found \in BOOLEAN
    BY <2>11, Zenon
  <2>13. numbers \in Seq(Int) /\ Len(numbers) = Len(scan.numbers) + 1
    BY <1>1, <2>10, <2>11
  <2>14. PICK next : next = [ok |-> found, text |-> left, numbers |-> numbers]
    OBVIOUS
  <2>15. ScanItem(scan, item) = next
    BY <2>8, <2>11, <2>14, Zenon
  <2>16. next \in Scan /\ next.numbers = numbers
    BY <2>10, <2>11, <2>12, <2>13, <2>14 DEF Scan
  <2> QED BY <1>3, <2>13, <2>15, <2>16 DEF ScannedItem
<1> QED BY <1>2, <1>3

\* Item by item of a format.
Scans(f, text, format) ==
  /\ sscanf(text, format) = IF f[1..Len(format)].ok /\ f[1..Len(format)].text = <<>>
                              THEN Got(f[1..Len(format)].numbers, <<>>) ELSE Failed("protocol_value_error")
  /\ f[1..0].numbers = <<>>
  /\ \A k \in 0..Len(format) : f[1..k] \in Scan
  /\ \A k \in 1..Len(format) : ScannedItem(f[1..(k - 1)], format[k], f[1..k])

LEMMA ScanSteps ==
  ASSUME NEW text \in ByteString, NEW format \in Seq(Int), \A k \in 1..Len(format) : format[k] # 0
  PROVE  \E f : Scans(f, text, format)
<1> DEFINE n == Len(format)
           buffer == SubSeq(text, 1, Leading(text, 1..255, Len(text)))
           base == [ok |-> TRUE, text |-> buffer, numbers |-> <<>>]
           step == [k \in 1..n |-> [x \in Scan |-> ScanItem(x, format[k])]]
<1>1. n \in Nat /\ DOMAIN format = 1..n /\ \A k \in 1..n : format[k] \in Int /\ format[k] # 0
  OBVIOUS
<1>a. buffer \in ByteString
  <2>1. Len(text) \in Nat
    BY Parts
  <2>2. Leading(text, 1..255, Len(text)) \in Nat /\ Leading(text, 1..255, Len(text)) <= Len(text)
    BY <2>1, LeadingPart
  <2> QED BY <2>2, Parts
<1> HIDE DEF n, buffer
<1>2. ASSUME NEW k \in 1..n, NEW x \in Scan PROVE ScanItem(x, format[k]) \in Scan
  BY <1>1, ItemScanned DEF ScannedItem
<1>b. base \in Scan /\ base.numbers = <<>>
  BY <1>a DEF Scan
<1> HIDE DEF base
<1>3. PICK f : Folds_(f, 1..n, Scan, base, Greatest(n), step)
  <2>1. Steps(step, 1..n, Scan)
    BY <1>2 DEF Steps
  <2>2. IsFiniteSet(1..n) /\ Chooses(Greatest(n), 1..n)
    BY <1>1, GreatestChooses, FiniteInterval
  <2> HIDE DEF step
  <2> QED BY <1>b, <2>1, <2>2, FoldExists, Zenon
<1>4. \A s \in SUBSET (1..n) : s # {} => f[s] = ScanItem(f[s \ {Max(s)}], format[Max(s)])
  <2> SUFFICES ASSUME NEW s \in SUBSET (1..n), s # {} PROVE f[s] = ScanItem(f[s \ {Max(s)}], format[Max(s)])
    OBVIOUS
  <2>1. Greatest(n)[s] = Max(s) /\ Max(s) \in 1..n
    BY <1>1, GreatestChooses
  <2>2. f[s] = step[Max(s)][f[s \ {Max(s)}]]
    BY <1>3, <2>1, Zenon DEF Folds_, Folded
  <2>3. f[s \ {Max(s)}] \in Scan
    BY <1>3 DEF Folds_
  <2> QED BY <2>1, <2>2, <2>3, Zenon
<1>5. f[{}] = base /\ f \in [SUBSET (1..n) -> Scan]
  BY <1>3 DEF Folds_, Folded
<1> DEFINE it == CHOOSE it : it = [s \in SUBSET (1..n) |-> IF s = {} THEN base
                                                           ELSE ScanItem(it[s \ {Max(s)}], format[Max(s)])]
<1>6. f = [s \in SUBSET (1..n) |-> IF s = {} THEN base ELSE ScanItem(f[s \ {Max(s)}], format[Max(s)])]
  <2> HIDE DEF step
  <2> QED BY <1>4, <1>5
<1>7. it = [s \in SUBSET (1..n) |-> IF s = {} THEN base ELSE ScanItem(it[s \ {Max(s)}], format[Max(s)])]
  BY <1>6, Zenon
<1>8. FoldLeft(ScanItem, base, format) = it[1..n]
  BY <1>1, Zenon DEF FoldLeft, MapThenFoldSet
<1>9. it[1..n] = f[1..n]
  <2>1. it[{}] = f[{}]
    <3> HIDE DEF it
    <3> QED BY <1>5, <1>7
  <2>2. ASSUME NEW s \in SUBSET (1..n), s # {}, it[s \ {Greatest(n)[s]}] = f[s \ {Greatest(n)[s]}]
        PROVE  it[s] = f[s]
    <3> HIDE DEF it
    <3>1. Greatest(n)[s] = Max(s)
      BY <1>1, <2>2, GreatestChooses
    <3>2. it[s] = ScanItem(it[s \ {Max(s)}], format[Max(s)])
      BY <1>7, <2>2, Zenon
    <3>3. f[s] = ScanItem(f[s \ {Max(s)}], format[Max(s)])
      BY <1>4, <2>2, Zenon
    <3> QED BY <2>2, <3>1, <3>2, <3>3, Zenon
  <2>3. IsFiniteSet(1..n) /\ Chooses(Greatest(n), 1..n)
    BY <1>1, GreatestChooses, FiniteInterval
  <2> HIDE DEF it
  <2>4. SameSteps(it, f, 1..n, Greatest(n))
    BY <2>1, <2>2 DEF SameSteps
  <2>5. PICK S, c : S = 1..n /\ c = Greatest(n)
    OBVIOUS
  <2>6. IsFiniteSet(S) /\ Chooses(c, S) /\ SameSteps(it, f, S, c)
    BY <2>3, <2>4, <2>5, Zenon
  <2>7. it[S] = f[S]
    BY <2>6, FoldUnique, Zenon
  <2> QED BY <2>5, <2>7, Zenon
<1> HIDE DEF it, step
<1>10. sscanf(text, format) = IF f[1..n].ok /\ f[1..n].text = <<>> THEN Got(f[1..n].numbers, <<>>)
                                                                    ELSE Failed("protocol_value_error")
  <2>1. PICK end : end = FoldLeft(ScanItem, base, format)
    OBVIOUS
  <2>2. sscanf(text, format) = IF end.ok /\ end.text = <<>> THEN Got(end.numbers, <<>>)
                                                              ELSE Failed("protocol_value_error")
    BY <2>1, Zenon DEF sscanf, base, buffer
  <2>3. end = f[1..n]
    BY <1>8, <1>9, <2>1, Zenon
  <2> QED BY ONLY <2>2, <2>3, Zenon
<1>11. /\ f[{}] = base /\ (\A k \in 0..n : f[1..k] \in Scan)
       /\ \A k \in 1..n : f[1..k] = step[k][f[1..(k - 1)]]
  <2>1. PICK b, p : b = base /\ p = step
    OBVIOUS
  <2>2. n \in Nat /\ Folds_(f, 1..n, Scan, b, Greatest(n), p)
    BY <1>1, <1>3, <2>1, Zenon
  <2>3. /\ f[{}] = b /\ (\A k \in 0..n : f[1..k] \in Scan)
        /\ \A k \in 1..n : f[1..k] = p[k][f[1..(k - 1)]]
    BY ONLY <2>2, FoldSteps
  <2> QED BY <2>1, <2>3, Zenon
<1>12. ASSUME NEW k \in 1..n PROVE ScannedItem(f[1..(k - 1)], format[k], f[1..k])
  <2>1. k - 1 \in 0..n
    BY <1>1
  <2>2. f[1..(k - 1)] \in Scan
    BY <1>11, <2>1
  <2>3. f[1..k] = ScanItem(f[1..(k - 1)], format[k])
    BY <1>11, <2>2, Zenon DEF step
  <2> QED BY <1>1, <2>2, <2>3, ItemScanned
<1>13. f[1..0].numbers = <<>>
  <2>1. 1..0 = {}
    OBVIOUS
  <2> QED BY <1>5, <1>b, <2>1
<1>14. Scans(f, text, format)
  BY <1>10, <1>11, <1>12, <1>13, Zenon DEF Scans, n
<1> QED BY <1>14, Zenon

\* Numbers with a character between them, as all formats are.
Format(format) ==
  /\ format \in Seq(Int)
  /\ \A k \in 1..Len(format) : IF k % 2 = 1 THEN format[k] \in Nat \ {0} ELSE format[k] < 0

LEMMA FormatRead ==
  ASSUME NEW text \in ByteString, NEW format, Format(format)
  PROVE  LET got == sscanf(text, format) IN
         Stays(got) /\ (got.err = "ok" => got.value \in Seq(Int) /\ Len(got.value) = (Len(format) + 1) \div 2)
<1> DEFINE n == Len(format)
<1>1. format \in Seq(Int) /\ n \in Nat /\ \A k \in 1..n : format[k] # 0
  BY DEF Format
<1>2. PICK f : Scans(f, text, format)
  BY <1>1, ScanSteps
<1> DEFINE G == {k \in Nat : k <= n => Len(f[1..k].numbers) = (k + 1) \div 2}
<1>3. 0 \in G
  <2>1. f[1..0].numbers = <<>>
    BY <1>2, Zenon DEF Scans
  <2> QED BY <2>1
<1>4. ASSUME NEW k \in Nat, k \in G PROVE k + 1 \in G
  <2> SUFFICES ASSUME k + 1 <= n PROVE Len(f[1..(k + 1)].numbers) = (k + 2) \div 2
    OBVIOUS
  <2>1. k + 1 \in 1..n /\ (k + 1) - 1 = k
    BY <1>1
  <2>2. ScannedItem(f[1..k], format[k + 1], f[1..(k + 1)])
    <3>1. ScannedItem(f[1..((k + 1) - 1)], format[k + 1], f[1..(k + 1)])
      BY <1>2, <2>1, Zenon DEF Scans
    <3> QED BY <2>1, <3>1, Zenon
  <2>3. PICK before, after : before = f[1..k].numbers /\ after = f[1..(k + 1)].numbers
    OBVIOUS
  <2>4. Len(before) = (k + 1) \div 2
    BY <1>1, <1>4, <2>1, <2>3
  <2>5. CASE (k + 1) % 2 = 1
    <3>1. format[k + 1] \in Nat
      BY <2>1, <2>5 DEF Format
    <3>2. Len(after) = Len(before) + 1
      BY <2>2, <2>3, <3>1, Zenon DEF ScannedItem
    <3> QED BY ONLY <2>3, <2>4, <2>5, <3>2, k \in Nat
  <2>6. CASE (k + 1) % 2 # 1
    <3>1. format[k + 1] < 0
      BY <2>1, <2>6 DEF Format
    <3>2. after = before
      BY <2>2, <2>3, <3>1, Zenon DEF ScannedItem
    <3> QED BY ONLY <2>3, <2>4, <2>6, <3>2, k \in Nat
  <2> QED BY <2>5, <2>6
<1>5. n \in G
  <2> HIDE DEF G
  <2> QED BY <1>1, <1>3, <1>4, SetInduction
<1>6. PICK end : end = f[1..n]
  OBVIOUS
<1>7. Len(end.numbers) = (n + 1) \div 2
  BY <1>1, <1>5, <1>6
<1>8. end.numbers \in Seq(Int)
  <2>1. n \in 0..n
    BY <1>1
  <2>2. end \in Scan
    BY <1>2, <1>6, <2>1, Zenon DEF Scans
  <2> QED BY <2>2 DEF Scan
<1>9. \/ sscanf(text, format) = Got(end.numbers, <<>>)
      \/ sscanf(text, format) = Failed("protocol_value_error")
  BY <1>2, <1>6, Zenon DEF Scans
<1>10. <<>> \in ByteString
  BY DEF ByteString
<1> QED BY ONLY <1>7, <1>8, <1>9, <1>10, StaysOrFails DEF Errors

LEMMA Formats ==
  /\ Format(<<4, -Minus, 2, -Minus, 2>>) /\ Len(<<4, -Minus, 2, -Minus, 2>>) = 5
  /\ \A digits \in Nat \ {0} : Format(HmsFormat(digits)) /\ Len(HmsFormat(digits)) = 5
  /\ \A digits \in Nat \ {0} : Format(HmsFormat(digits) \o <<-Dot, 6>>) /\ Len(HmsFormat(digits) \o <<-Dot, 6>>) = 7
<1>1. Format(<<4, -Minus, 2, -Minus, 2>>) /\ Len(<<4, -Minus, 2, -Minus, 2>>) = 5
  BY DEF Format, Minus
<1>2. ASSUME NEW digits \in Nat \ {0} PROVE Format(HmsFormat(digits)) /\ Len(HmsFormat(digits)) = 5
  BY DEF Format, HmsFormat, Colon
<1>3. ASSUME NEW digits \in Nat \ {0}
      PROVE  Format(HmsFormat(digits) \o <<-Dot, 6>>) /\ Len(HmsFormat(digits) \o <<-Dot, 6>>) = 7
  <2>1. PICK s, t : s = HmsFormat(digits) /\ t = <<-Dot, 6>>
    OBVIOUS
  <2>2. t \in Seq(Int) /\ Len(t) = 2 /\ t[1] < 0 /\ t[2] \in Nat \ {0}
    BY ONLY <2>1 DEF Dot
  <2>3. s \in Seq(Int) /\ Len(s) = 5 /\ \A k \in 1..Len(s) : IF k % 2 = 1 THEN s[k] \in Nat \ {0} ELSE s[k] < 0
    BY <1>2, <2>1, Zenon DEF Format
  <2>4. s \in Seq(Int) /\ t \in Seq(Int)
    BY <2>2, <2>3
  <2>5. s \o t \in Seq(Int) /\ Len(s \o t) = Len(s) + Len(t)
    BY ONLY <2>4, Concatenation
  <2>6. \A i \in 1..(Len(s) + Len(t)) : (s \o t)[i] = IF i <= Len(s) THEN s[i] ELSE t[i - Len(s)]
    BY ONLY <2>4, ConcatProperties
  <2>7. PICK format : format = s \o t
    OBVIOUS
  <2>8. Len(format) = 7
    BY ONLY <2>2, <2>3, <2>5, <2>7
  <2>9. ASSUME NEW k \in 1..7 PROVE IF k % 2 = 1 THEN format[k] \in Nat \ {0} ELSE format[k] < 0
    <3>1. format[k] = IF k <= 5 THEN s[k] ELSE t[k - 5]
      <4>1. k \in 1..(Len(s) + Len(t))
        BY ONLY <2>2, <2>3, <2>9
      <4>2. format[k] = IF k <= Len(s) THEN s[k] ELSE t[k - Len(s)]
        BY ONLY <2>6, <2>7, <4>1, Zenon
      <4> QED BY ONLY <2>3, <4>2, Zenon
    <3>2. CASE k <= 5
      <4>1. k \in 1..Len(s)
        BY ONLY <2>3, <2>9, <3>2
      <4> QED BY ONLY <2>3, <3>1, <3>2, <4>1, Zenon
    <3>3. CASE k = 6
      BY ONLY <2>2, <2>9, <3>1, <3>3
    <3>4. CASE k = 7
      BY ONLY <2>2, <2>9, <3>1, <3>4
    <3> QED BY <2>9, <3>2, <3>3, <3>4
  <2>10. Format(format)
    BY <2>5, <2>7, <2>8, <2>9 DEF Format
  <2> QED BY <2>1, <2>7, <2>8, <2>10, Zenon
<1> QED BY <1>1, <1>2, <1>3

LEMMA TextDayRead ==
  ASSUME NEW text \in ByteString
  PROVE  LET got == deserialize_text_ymd(text) IN Stays(got) /\ (got.err = "ok" => Day(got.value))
<1>1. PICK format : format = <<4, -Minus, 2, -Minus, 2>>
  OBVIOUS
<1>2. PICK ymd : ymd = sscanf(text, format)
  OBVIOUS
<1>3. PICK checked : checked = Checked(ymd.value, max_ymd, ymd.rest)
  OBVIOUS
<1>4. deserialize_text_ymd(text)
        = IF Len(text) # 10 THEN Failed("protocol_value_error") ELSE IF ymd.err = "ok" THEN checked ELSE ymd
  BY <1>1, <1>2, <1>3, Zenon DEF deserialize_text_ymd, Then
<1>5. Format(format) /\ Len(format) = 5
  BY <1>1, Formats
<1>6. Stays(ymd) /\ ymd.rest \in ByteString
      /\ (ymd.err = "ok" => ymd.value \in Seq(Int) /\ Len(ymd.value) = (Len(format) + 1) \div 2)
  BY <1>2, <1>5, FormatRead DEF Stays
<1>7. ymd.err = "ok" => ymd.value \in [1..3 -> Int]
  <2> SUFFICES ASSUME ymd.err = "ok" PROVE ymd.value \in [1..3 -> Int]
    OBVIOUS
  <2>1. PICK d : d = ymd.value
    OBVIOUS
  <2>2. d \in Seq(Int) /\ Len(d) = 3
    BY <1>5, <1>6, <2>1
  <2>3. d \in [1..3 -> Int]
    <3>1. d \in [1..Len(d) -> Int]
      BY ONLY <2>2, Elements
    <3> QED BY ONLY <2>2, <3>1, Zenon
  <2> QED BY <2>1, <2>3, Zenon
<1>8. /\ Stays(checked)
      /\ checked.err = "ok" =>
           /\ checked.value = ymd.value
           /\ \A i \in DOMAIN max_ymd : ymd.value[i] >= 0 /\ ymd.value[i] <= max_ymd[i]
  BY <1>3, <1>6, CheckedRead
<1>9. PICK got : got = deserialize_text_ymd(text)
  OBVIOUS
<1>10. Stays(got) /\ (got.err = "ok" => Day(got.value))
  BY <1>4, <1>6, <1>7, <1>8, <1>9, LimitsOfDays, StaysOrFails DEF Day, Errors
<1> QED BY <1>9, <1>10, Zenon

\* Hours, minutes and seconds come first.
StartsWithTime(t) == IsSeq(t) /\ t[1] \in Int /\ t[2] \in Int /\ t[3] \in Int

LEMMA FirstThree ==
  ASSUME NEW v \in Seq(Int), Len(v) >= 3
  PROVE  v[1] \in Int /\ v[2] \in Int /\ v[3] \in Int
<1>1. Len(v) \in Nat /\ \A i \in 1..Len(v) : v[i] \in Int
  BY Elements
<1>2. 1 \in 1..Len(v) /\ 2 \in 1..Len(v) /\ 3 \in 1..Len(v)
  BY ONLY <1>1, Len(v) >= 3
<1> QED BY ONLY <1>1, <1>2, Zenon

LEMMA TimeParsed ==
  ASSUME NEW text \in ByteString, NEW digits \in Nat \ {0}, NEW decimals
  PROVE  LET got == ParsedTime(text, digits, decimals) IN
         Stays(got) /\ (got.err = "ok" => StartsWithTime(got.value))
<1>1. PICK got : got = ParsedTime(text, digits, decimals)
  OBVIOUS
<1>2. CASE decimals = 0
  <2>1. PICK format : format = HmsFormat(digits)
    OBVIOUS
  <2>2. PICK t : t = sscanf(text, format)
    OBVIOUS
  <2>3. got = IF t.err = "ok" THEN Got(Append(t.value, 0), t.rest) ELSE t
    BY <1>1, <1>2, <2>1, <2>2, Zenon DEF ParsedTime, Then
  <2>4. Format(format) /\ Len(format) = 5
    BY <2>1, Formats
  <2>5. Stays(t) /\ t.rest \in ByteString
        /\ (t.err = "ok" => t.value \in Seq(Int) /\ Len(t.value) = (Len(format) + 1) \div 2)
    BY <2>2, <2>4, FormatRead DEF Stays
  <2>6. t.err = "ok" => StartsWithTime(Append(t.value, 0))
    <3> SUFFICES ASSUME t.err = "ok" PROVE StartsWithTime(Append(t.value, 0))
      OBVIOUS
    <3>1. PICK v : v = t.value
      OBVIOUS
    <3>2. v \in Seq(Int) /\ Len(v) = 3
      BY <2>4, <2>5, <3>1
    <3>3. PICK a : a = Append(v, 0)
      OBVIOUS
    <3>4. a \in Seq(Int) /\ Len(a) = 4
      <4>1. v \in Seq(Int) /\ 0 \in Int
        BY ONLY <3>2
      <4>2. a \in Seq(Int) /\ Len(a) = Len(v) + 1
        BY ONLY <3>3, <4>1
      <4>3. \A m, n : m = 3 /\ n = m + 1 => n = 4
        OBVIOUS
      <4> QED BY ONLY <3>2, <4>2, <4>3, Zenon
    <3>5. StartsWithTime(a)
      <4>1. a[1] \in Int /\ a[2] \in Int /\ a[3] \in Int
        <5>1. a \in Seq(Int) /\ Len(a) >= 3
          BY ONLY <3>4
        <5> QED BY ONLY <5>1, FirstThree
      <4> QED BY ONLY <3>4, <4>1, Zenon DEF StartsWithTime, IsSeq
    <3> QED BY <3>1, <3>3, <3>5, Zenon
  <2>7. Stays(got) /\ (got.err = "ok" => StartsWithTime(got.value))
    BY ONLY <2>3, <2>5, <2>6, StaysOrFails
  <2> QED BY <1>1, <2>7, Zenon
<1>3. CASE decimals # 0
  <2>1. PICK format : format = HmsFormat(digits) \o <<-Dot, 6>>
    OBVIOUS
  <2>2. PICK t : t = sscanf(text, format)
    OBVIOUS
  <2>3. PICK whole : whole = [t.value EXCEPT ![4] = compute_micros(@, decimals)]
    OBVIOUS
  <2>4. got = IF t.err = "ok" THEN Got(whole, t.rest) ELSE t
    BY <1>1, <1>3, <2>1, <2>2, <2>3, Zenon DEF ParsedTime, Then
  <2>5. Format(format) /\ Len(format) = 7
    BY <2>1, Formats
  <2>6. Stays(t) /\ t.rest \in ByteString
        /\ (t.err = "ok" => t.value \in Seq(Int) /\ Len(t.value) = (Len(format) + 1) \div 2)
    BY <2>2, <2>5, FormatRead DEF Stays
  <2>7. t.err = "ok" => StartsWithTime(whole)
    <3> SUFFICES ASSUME t.err = "ok" PROVE StartsWithTime(whole)
      OBVIOUS
    <3>1. PICK v, m : v = t.value /\ m = compute_micros(t.value[4], decimals)
      OBVIOUS
    <3>2. v \in Seq(Int) /\ Len(v) = 4
      BY <2>5, <2>6, <3>1
    <3>3. whole = [v EXCEPT ![4] = m]
      BY <2>3, <3>1
    <3>4. PICK T : T = Int \cup {m}
      OBVIOUS
    <3>5. v \in Seq(T) /\ m \in T
      BY ONLY <3>2, <3>4
    <3>6. whole \in Seq(T)
      <4>1. Len(v) \in Nat /\ v \in [1..Len(v) -> T]
        BY ONLY <3>5, Elements
      <4>2. whole \in [1..Len(v) -> T]
        BY ONLY <3>3, <3>5, <4>1
      <4> QED BY ONLY <4>1, <4>2, Numbered
    <3>7. whole[1] = v[1] /\ whole[2] = v[2] /\ whole[3] = v[3]
      BY ONLY <3>2, <3>3
    <3>8. v[1] \in Int /\ v[2] \in Int /\ v[3] \in Int
      <4>1. v \in Seq(Int) /\ Len(v) >= 3
        BY ONLY <3>2
      <4> QED BY ONLY <4>1, FirstThree
    <3> QED BY ONLY <3>6, <3>7, <3>8, Zenon DEF StartsWithTime, IsSeq
  <2>8. Stays(got) /\ (got.err = "ok" => StartsWithTime(got.value))
    BY ONLY <2>4, <2>6, <2>7, StaysOrFails
  <2> QED BY <1>1, <2>8, Zenon
<1> QED BY <1>2, <1>3

LEMMA Decimals ==
  ASSUME NEW decimals \in Nat
  PROVE  FractionSize(sanitize_decimals(decimals)) \in Nat
<1> DEFINE s == {decimals, 6}
<1>1. \E x \in s : \A y \in s : x <= y
  BY decimals <= 6 \/ decimals > 6
<1>2. Min(s) \in s
  <2> HIDE DEF s
  <2> QED BY <1>1, Zenon DEF Min
<1>3. sanitize_decimals(decimals) \in Nat
  <2>1. sanitize_decimals(decimals) = Min(s)
    BY Zenon DEF sanitize_decimals
  <2> QED BY <1>2, <2>1
<1> HIDE DEF s
<1> QED BY <1>3 DEF FractionSize

LEMMA TextIntegerInRange ==
  ASSUME NEW field, NEW text
  PROVE  InRange("text", text_int(field, text))
<1>1. \/ text_int(field, text) = Failed("protocol_value_error")
      \/ \E v : text_int(field, text) = Got(Value(IntKind(field), v), <<>>)
  BY Zenon DEF text_int
<1>2. IntKind(field) \in {"int64", "uint64"} /\ <<>> \in ByteString
  BY DEF IntKind, ByteString
<1> QED BY <1>1, <1>2, StaysOrFails, SimpleValues DEF InRange, Errors

LEMMA TextFloatInRange ==
  ASSUME NEW field, NEW text
  PROVE  InRange("text", text_float(field, text))
<1>1. \/ text_float(field, text) = Failed("protocol_value_error")
      \/ \E v : text_float(field, text) =
           Got(Value(IF field.protocol_type = "float_" THEN "float" ELSE "double", v), <<>>)
  BY Zenon DEF text_float
<1>2. <<>> \in ByteString
  BY DEF ByteString
<1> QED BY <1>1, <1>2, StaysOrFails, SimpleValues DEF InRange, Errors

LEMMA TextDateInRange ==
  ASSUME NEW text \in ByteString
  PROVE  InRange("text", deserialize_text_value_date(text))
<1>1. PICK ymd : TextDateParts(text, ymd)
  BY TextDateSteps
<1>2. Stays(ymd) /\ (ymd.err = "ok" => Day(ymd.value)) /\ ymd.rest \in ByteString
  BY <1>1, TextDayRead DEF TextDateParts, Stays
<1>3. ymd.err = "ok" => ValueOK("text", DayOrNull("date", ymd.value))
  <2> SUFFICES ASSUME Day(ymd.value) PROVE ValueOK("text", DayOrNull("date", ymd.value))
    BY <1>2, Zenon
  <2>1. PICK d : d = ymd.value
    OBVIOUS
  <2>2. d[1] \in 0..LastYear /\ d[2] \in Nat /\ d[3] \in Nat
    BY <2>1, PartsOfDay, Zenon
  <2>3. ValueOK("text", DayOrNull("date", d))
    BY ONLY <2>2, Days
  <2> QED BY <2>1, <2>3, Zenon
<1>4. deserialize_text_value_date(text)
        = IF ymd.err = "ok" THEN Got(DayOrNull("date", ymd.value), ymd.rest) ELSE ymd
  BY <1>1, Zenon DEF TextDateParts
<1> QED BY ONLY <1>2, <1>3, <1>4, StaysOrFails DEF InRange

LEMMA TextDatetimeInRange ==
  ASSUME NEW field, field.decimals \in Nat, NEW text \in ByteString
  PROVE  InRange("text", deserialize_text_value_datetime(field, text))
<1> DEFINE size == FractionSize(sanitize_decimals(field.decimals))
<1>1. PICK ymd, time, tod : TextDatetimeParts(field, text, ymd, time, tod)
  BY TextDatetimeSteps
<1>2. PICK got : got = deserialize_text_value_datetime(field, text)
  OBVIOUS
<1>3. got = IF Len(text) # 19 + size THEN Failed("protocol_value_error")
            ELSE IF ymd.err # "ok" THEN ymd
            ELSE IF time.err # "ok" THEN time
            ELSE IF tod.err # "ok" THEN tod
            ELSE Got(DayOrNull("datetime", ymd.value \o tod.value), tod.rest)
  BY <1>1, <1>2, Zenon DEF TextDatetimeParts
<1>4. size \in Nat
  BY Decimals
<1> HIDE DEF size
<1>5. Skip(text, 11) \in ByteString
  BY Parts
<1>6. Stays(time) /\ (time.err = "ok" => StartsWithTime(time.value)) /\ time.rest \in ByteString
  <2>1. time = ParsedTime(Skip(text, 11), 2, sanitize_decimals(field.decimals))
    BY <1>1, Zenon DEF TextDatetimeParts
  <2> QED BY <1>5, <2>1, TimeParsed DEF Stays
<1>7. Stays(tod) /\ (tod.err = "ok" => tod.value = time.value) /\ tod.rest \in ByteString
  <2>1. tod = Checked(time.value, Append(max_hms, max_micro), time.rest)
    BY <1>1, Zenon DEF TextDatetimeParts
  <2> QED BY <1>6, <2>1, CheckedRead DEF Stays
<1>8. CASE Len(text) # 19 + size
  BY <1>2, <1>3, <1>8, StaysOrFails DEF InRange, Errors
<1>9. CASE Len(text) = 19 + size
  <2>1. SubSeq(text, 1, 10) \in ByteString
    <3>1. 10 <= Len(text)
      BY <1>4, <1>9
    <3> QED BY <3>1, Parts
  <2>2. Stays(ymd) /\ (ymd.err = "ok" => Day(ymd.value))
    <3>1. ymd = deserialize_text_ymd(SubSeq(text, 1, 10))
      BY <1>1, Zenon DEF TextDatetimeParts
    <3> QED BY <2>1, <3>1, TextDayRead
  <2>3. ymd.err = "ok" /\ time.err = "ok" /\ tod.err = "ok"
          => ValueOK("text", DayOrNull("datetime", ymd.value \o tod.value))
    <3> SUFFICES ASSUME Day(ymd.value), IsSeq(tod.value)
                 PROVE  ValueOK("text", DayOrNull("datetime", ymd.value \o tod.value))
      BY <1>6, <1>7, <2>2, Zenon DEF StartsWithTime
    <3>1. PICK whole : whole = ymd.value \o tod.value
      OBVIOUS
    <3>2. whole[1] \in 0..LastYear /\ whole[2] \in Nat /\ whole[3] \in Nat
      BY <3>1, DayFirst, Zenon
    <3>3. ValueOK("text", DayOrNull("datetime", whole))
      BY ONLY <3>2, Days
    <3> QED BY <3>1, <3>3, Zenon
  <2>4. InRange("text", got)
    BY ONLY <1>3, <1>6, <1>7, <1>9, <2>2, <2>3, StaysOrFails DEF InRange
  <2> QED BY <1>2, <2>4, Zenon
<1> QED BY <1>8, <1>9

LEMMA LimitsOfTextTimes ==
  LET limits == <<838, 59, 59, max_micro>> IN
  1..3 \subseteq DOMAIN limits /\ limits[1] = 838 /\ limits[2] = 59 /\ limits[3] = 59
OBVIOUS

LEMMA TextTimeInRange ==
  ASSUME NEW field, field.decimals \in Nat, NEW text \in ByteString
  PROVE  InRange("text", deserialize_text_value_time(field, text))
<1> DEFINE least == 8 + FractionSize(sanitize_decimals(field.decimals))
           limits == <<838, 59, 59, max_micro>>
           unsigned == IF text[1] = Minus THEN Tail(text) ELSE text
<1>1. PICK parsed, checked : TextTimeParts(field, text, parsed, checked)
  BY TextTimeSteps
<1> DEFINE t == checked.value
           value == ComposedTime(text[1] = Minus, t[1], t[2], t[3], t[4])
<1>2. PICK got : got = deserialize_text_value_time(field, text)
  OBVIOUS
<1>3. got = IF Len(text) \notin least..(least + 2) THEN Failed("protocol_value_error")
            ELSE IF parsed.err # "ok" THEN parsed
            ELSE IF checked.err # "ok" THEN checked
            ELSE Got(value, checked.rest)
  BY <1>1, <1>2, Zenon DEF TextTimeParts
<1>4. least \in Nat /\ least >= 8
  BY Decimals
<1> HIDE DEF least
<1>5. CASE Len(text) \notin least..(least + 2)
  BY <1>2, <1>3, <1>5, StaysOrFails DEF InRange, Errors
<1>6. CASE Len(text) \in least..(least + 2)
  <2>1. unsigned \in ByteString
    <3>1. text # <<>>
      <4>1. Len(text) # 0
        BY <1>4, <1>6
      <4> QED BY <4>1, EmptySeq, Zenon
    <3> QED BY <3>1, Parts
  <2>2. Stays(parsed) /\ (parsed.err = "ok" => StartsWithTime(parsed.value)) /\ parsed.rest \in ByteString
    <3>1. parsed = ParsedTime(unsigned, 3, sanitize_decimals(field.decimals))
      BY <1>1, Zenon DEF TextTimeParts
    <3> HIDE DEF unsigned
    <3> QED BY <2>1, <3>1, TimeParsed DEF Stays
  <2>3. /\ Stays(checked) /\ checked.rest \in ByteString
        /\ checked.err = "ok" =>
             t = parsed.value /\ \A i \in DOMAIN limits : t[i] >= 0 /\ t[i] <= limits[i]
    <3>1. checked = Checked(parsed.value, limits, parsed.rest)
      BY <1>1, Zenon DEF TextTimeParts
    <3> HIDE DEF limits
    <3>2. t = parsed.value /\ (\A i \in DOMAIN limits : parsed.value[i] >= 0 /\ parsed.value[i] <= limits[i])
            => (t = parsed.value /\ \A i \in DOMAIN limits : t[i] >= 0 /\ t[i] <= limits[i])
      OBVIOUS
    <3> QED BY <2>2, <3>1, CheckedRead DEF Stays
  <2>4. parsed.err = "ok" /\ checked.err = "ok" => ValueOK("text", value)
    <3> SUFFICES ASSUME parsed.err = "ok", checked.err = "ok" PROVE ValueOK("text", value)
      OBVIOUS
    <3>a. parsed.err = "ok" /\ checked.err = "ok"
      OBVIOUS
    <3>1. PICK v, n, u : v = t /\ n = (text[1] = Minus) /\ u = t[4]
      OBVIOUS
    <3>2. v[1] \in Int /\ v[2] \in Int /\ v[3] \in Int
      <4> HIDE DEF t
      <4>1. StartsWithTime(t)
        <5>1. PICK u_ : u_ = t
          OBVIOUS
        <5>2. checked.err = "ok" => u_ = parsed.value
          BY <2>3, <5>1
        <5> QED BY ONLY <2>2, <3>a, <5>1, <5>2, Zenon
      <4>2. StartsWithTime(v)
        BY <3>1, <4>1, Zenon
      <4> QED BY <4>2, Zenon DEF StartsWithTime
    <3>3. /\ v[1] >= 0 /\ v[2] >= 0 /\ v[3] >= 0
          /\ v[1] <= 838 /\ v[2] <= 59 /\ v[3] <= 59
      <4>1. 1 \in 1..3 /\ 2 \in 1..3 /\ 3 \in 1..3
        OBVIOUS
      <4> HIDE DEF t
      <4>2. \A i \in DOMAIN limits : v[i] >= 0 /\ v[i] <= limits[i]
        BY <2>3, <3>1
      <4>3. 1..3 \subseteq DOMAIN limits /\ limits[1] = 838 /\ limits[2] = 59 /\ limits[3] = 59
        BY LimitsOfTextTimes, Zenon
      <4> HIDE DEF limits
      <4>4. \A i \in 1..3 : v[i] >= 0 /\ v[i] <= limits[i]
        BY ONLY <4>2, <4>3
      <4>5. /\ v[1] >= 0 /\ v[2] >= 0 /\ v[3] >= 0
            /\ v[1] <= limits[1] /\ v[2] <= limits[2] /\ v[3] <= limits[3]
        BY ONLY <4>1, <4>4, Zenon
      <4> QED BY ONLY <4>3, <4>5
    <3>4. v[1] \in Nat /\ v[2] \in 0..59 /\ v[3] \in 0..59
      BY ONLY <3>2, <3>3
    <3>5. "text" \in Protocols
      BY DEF Protocols
    <3>6. ValueOK("text", ComposedTime(n, v[1], v[2], v[3], u))
      <4>1. PICK p, h, m, sec : p = "text" /\ h = v[1] /\ m = v[2] /\ sec = v[3]
        OBVIOUS
      <4>2. p \in Protocols /\ h \in Nat /\ m \in 0..59 /\ sec \in 0..59
            /\ h <= IF p = "text" THEN 838 ELSE 839
        BY ONLY <3>2, <3>3, <3>4, <3>5, <4>1
      <4>3. ValueOK(p, ComposedTime(n, h, m, sec, u))
        BY ONLY <4>2, Times
      <4> QED BY <4>1, <4>3, Zenon
    <3> QED BY <3>1, <3>6, Zenon
  <2> HIDE DEF value
  <2>5. InRange("text", got)
    BY ONLY <1>3, <1>6, <2>2, <2>3, <2>4, StaysOrFails DEF InRange
  <2> QED BY <1>2, <2>5, Zenon
<1> QED BY <1>5, <1>6

LEMMA TextInRange ==
  ASSUME NEW field, field.decimals \in Nat, NEW text \in ByteString
  PROVE  InRange("text", deserialize_text_value(field, text))
<1> DEFINE type == field.protocol_type
           got == deserialize_text_value(field, text)
<1>1. CASE type \in IntTypes
  <2>1. got = text_int(field, text)
    BY <1>1, ProtocolTypes DEF deserialize_text_value
  <2> QED BY <2>1, TextIntegerInRange
<1>2. CASE type \in FloatTypes
  <2>1. got = text_float(field, text)
    BY <1>2, ProtocolTypes DEF deserialize_text_value
  <2> QED BY <2>1, TextFloatInRange
<1>3. CASE type = "date"
  <2>1. got = deserialize_text_value_date(text)
    BY <1>3, ProtocolTypes DEF deserialize_text_value
  <2> QED BY <2>1, TextDateInRange
<1>4. CASE type \in DatetimeTypes
  <2>1. got = deserialize_text_value_datetime(field, text)
    BY <1>4, ProtocolTypes DEF deserialize_text_value
  <2> QED BY <2>1, TextDatetimeInRange
<1>5. CASE type = "time"
  <2>1. got = deserialize_text_value_time(field, text)
    BY <1>5, ProtocolTypes DEF deserialize_text_value
  <2> QED BY <2>1, TextTimeInRange
<1>6. CASE type \notin IntTypes \cup FloatTypes \cup DatetimeTypes \cup {"date", "time"}
  <2>1. got = Got(Value("string", text), <<>>)
    BY <1>6, ProtocolTypes DEF deserialize_text_value
  <2>2. PICK g : g = got
    OBVIOUS
  <2>3. <<>> \in ByteString
    BY DEF ByteString
  <2>4. InRange("text", g)
    BY ONLY <2>1, <2>2, <2>3, StaysOrFails, SimpleValues DEF InRange
  <2> QED BY <2>2, <2>4, Zenon
<1> QED BY <1>1, <1>2, <1>3, <1>4, <1>5, <1>6

-----------------------------------------------------------------------------
(* Messages, whatever the bytes *)

Word == {n \in Nat : n < 65536}

LEMMA WordRead ==
  ASSUME NEW s \in [1..2 -> Byte]
  PROVE  Unsigned(s) \in Word
<1> DEFINE high == s[2]
           g == [k \in 0..2 |-> IF k = 2 THEN 0 ELSE IF k = 1 THEN high ELSE high * 256 + s[1]]
<1>1. s[1] \in 0..255 /\ s[2] \in 0..255
  BY DEF Byte
<1>2. g[0] = high * 256 + s[1] /\ g[1] = high /\ g[2] = 0
  OBVIOUS
<1> HIDE DEF g
<1>3. ASSUME NEW k \in 1..2 PROVE g[k - 1] = g[k] * 256 + s[k]
  <2>1. CASE k = 1
    BY <1>1, <1>2, <2>1
  <2>2. CASE k = 2
    BY <1>1, <1>2, <2>2
  <2> QED BY <2>1, <2>2
<1>4. Above(g, 2, s)
  BY <1>2, <1>3 DEF Above
<1>5. s \in [1..2 -> Nat]
  BY DEF Byte
<1>6. PICK n : n = 2
  OBVIOUS
<1>7. Unsigned(s) = g[0]
  <2>1. n \in Nat /\ s \in [1..n -> Nat] /\ Above(g, n, s)
    BY <1>4, <1>5, <1>6
  <2> QED BY <2>1, UnsignedValue
<1>8. g[0] \in Word
  <2>1. \A a, b \in 0..255 : b * 256 + a \in Word
    BY DEF Word
  <2>2. high * 256 + s[1] \in Word
    BY ONLY <1>1, <2>1, Zenon
  <2> QED BY ONLY <1>2, <2>2, Zenon
<1> QED BY <1>7, <1>8, Zenon

\* The fields there are in the messages of a resultset, and what is read for them.
Known(field) ==
  /\ field.type \in {"fixed_size_int", "string_fixed", "int_lenenc", "string_lenenc", "string_eof"}
  /\ field.size \in Nat
ReadAs(field, value) ==
  /\ field.type \in {"fixed_size_int", "int_lenenc"} => value \in Nat
  /\ field.type = "fixed_size_int" /\ field.size = 2 => value \in Word

LEMMA FirstRead ==
  ASSUME NEW got, Stays(got)
  PROVE  /\ Stays(FirstOf(got))
         /\ FirstOf(got).err = "ok" => got.err = "ok" /\ FirstOf(got).value = got.value[1]
<1>1. FirstOf(got) = IF got.err = "ok" THEN Got(got.value[1], got.rest) ELSE got
  BY Zenon DEF FirstOf, Then
<1> QED BY <1>1, StaysOrFails DEF Stays

LEMMA IntRead ==
  ASSUME NEW bytes \in ByteString, NEW size \in Nat
  PROVE  LET got == FirstOf(deserialize(bytes, <<size>>)) IN
         Stays(got) /\ (got.err = "ok" => got.value \in Nat /\ (size = 2 => got.value \in Word))
<1>1. PICK numbers : numbers = deserialize(bytes, <<size>>)
  OBVIOUS
<1>2. <<size>> \in [1..1 -> Nat] /\ <<size>>[1] = size /\ 1 \in Nat /\ 1 \in 1..1
  OBVIOUS
<1>3. /\ Stays(numbers)
      /\ numbers.err = "ok" =>
           numbers.value \in [1..1 -> Nat] /\ \A i \in 1..1 : IsOfWidth(numbers.value[i], <<size>>[i])
  BY ONLY <1>1, <1>2, bytes \in ByteString, NumbersOfWidths
<1>4. numbers.err = "ok" => numbers.value[1] \in Nat /\ IsOfWidth(numbers.value[1], size)
  BY ONLY <1>2, <1>3
<1>5. IsOfWidth(numbers.value[1], 2) => numbers.value[1] \in Word
  BY WordRead, Zenon DEF IsOfWidth
<1>6. numbers.err = "ok" => numbers.value[1] \in Nat /\ (size = 2 => numbers.value[1] \in Word)
  BY ONLY <1>4, <1>5, Zenon
<1>7. PICK got : got = FirstOf(numbers)
  OBVIOUS
<1>8. Stays(got) /\ (got.err = "ok" => numbers.err = "ok" /\ got.value = numbers.value[1])
  BY ONLY <1>3, <1>7, FirstRead
<1> QED BY ONLY <1>1, <1>6, <1>7, <1>8, Zenon

LEMMA FixedRead ==
  ASSUME NEW bytes \in ByteString, NEW size \in Nat
  PROVE  Stays(deserialize_string_fixed(bytes, size))
<1>1. Len(bytes) \in Nat /\ Skip(bytes, size) \in ByteString
  BY Parts
<1> QED BY <1>1, StaysOrFails DEF deserialize_string_fixed, Errors

LEMMA FieldRead ==
  ASSUME NEW field, Known(field), NEW bytes \in ByteString
  PROVE  LET got == deserialize_(field, bytes) IN Stays(got) /\ (got.err = "ok" => ReadAs(field, got.value))
<1>k. field.size \in Nat
  BY Zenon DEF Known
<1>1. CASE field.type = "fixed_size_int"
  <2>1. deserialize_(field, bytes) = FirstOf(deserialize(bytes, <<field.size>>))
    BY <1>1 DEF deserialize_
  <2>2. PICK size, got : size = field.size /\ got = FirstOf(deserialize(bytes, <<size>>))
    OBVIOUS
  <2>3. Stays(got) /\ (got.err = "ok" => got.value \in Nat /\ (size = 2 => got.value \in Word))
    BY <1>k, <2>2, IntRead
  <2>4. got.err = "ok" => ReadAs(field, got.value)
    BY ONLY <2>2, <2>3, Zenon DEF ReadAs
  <2> QED BY ONLY <2>1, <2>2, <2>3, <2>4, Zenon
<1>2. CASE field.type = "int_lenenc"
  <2>1. deserialize_(field, bytes) = FirstOf(deserialize_lenenc(bytes))
    BY <1>2 DEF deserialize_
  <2>2. PICK numbers, got : numbers = deserialize_lenenc(bytes) /\ got = FirstOf(numbers)
    OBVIOUS
  <2>3. Stays(numbers) /\ (numbers.err = "ok" => numbers.value \in [1..1 -> Nat])
    BY <2>2, LenencRead
  <2>4. Stays(got) /\ (got.err = "ok" => got.value \in Nat)
    BY ONLY <2>2, <2>3, FirstRead
  <2>5. got.err = "ok" => ReadAs(field, got.value)
    BY ONLY <1>2, <2>4 DEF ReadAs
  <2> QED BY ONLY <2>1, <2>2, <2>4, <2>5, Zenon
<1>3. CASE field.type = "string_fixed"
  <2>1. deserialize_(field, bytes) = deserialize_string_fixed(bytes, field.size)
    BY <1>3 DEF deserialize_
  <2> QED BY <1>k, <1>3, <2>1, FixedRead DEF ReadAs
<1>4. CASE field.type = "string_lenenc"
  <2>1. deserialize_(field, bytes) = deserialize_string_lenenc(bytes)
    BY <1>4 DEF deserialize_
  <2> QED BY <1>4, <2>1, StringRead DEF ReadAs
<1>5. CASE field.type = "string_eof"
  <2>1. deserialize_(field, bytes) = Got(bytes, <<>>)
    BY <1>5 DEF deserialize_, deserialize_string_eof
  <2>2. <<>> \in ByteString
    BY DEF ByteString
  <2> QED BY <1>5, <2>1, <2>2, StaysOrFails DEF ReadAs
<1> QED BY <1>1, <1>2, <1>3, <1>4, <1>5 DEF Known

\* The layout of such a message.
Layout(fields_) ==
  /\ Len(fields_) \in Nat /\ DOMAIN fields_ = 1..Len(fields_)
  /\ \A i \in 1..Len(fields_) : Known(fields_[i])

\* The first k fields of a message.
FieldsRead(fields_, k, values) ==
  IsSeq(values) /\ Len(values) = k /\ \A i \in 1..k : ReadAs(fields_[i], values[i])
MessageRead(fields_, message) ==
  \A name \in Names(fields_) : \E i \in DOMAIN fields_ : fields_[i].name = name /\ ReadAs(fields_[i], message[name])

LEMMA NextField ==
  ASSUME NEW fields_, NEW k \in Nat, Known(fields_[k + 1]), NEW read, Stays(read),
         read.err = "ok" => FieldsRead(fields_, k, read.value)
  PROVE  LET next == ReadField(read, fields_[k + 1]) IN
         Stays(next) /\ (next.err = "ok" => FieldsRead(fields_, k + 1, next.value))
<1>1. PICK field, got : field = fields_[k + 1] /\ got = deserialize_(field, read.rest)
  OBVIOUS
<1>2. PICK next : next = ReadField(read, fields_[k + 1])
  OBVIOUS
<1>3. next = IF read.err = "ok"
               THEN IF got.err = "ok" THEN Got(Append(read.value, got.value), got.rest) ELSE got
               ELSE read
  BY <1>1, <1>2, Zenon DEF ReadField, Then
<1>4. Stays(got) /\ got.rest \in ByteString /\ (got.err = "ok" => ReadAs(field, got.value))
  <2>1. read.rest \in ByteString /\ Known(field)
    BY <1>1, Zenon DEF Stays
  <2> QED BY <1>1, <2>1, FieldRead DEF Stays
<1>5. read.err = "ok" /\ got.err = "ok" => FieldsRead(fields_, k + 1, Append(read.value, got.value))
  <2> SUFFICES ASSUME FieldsRead(fields_, k, read.value), ReadAs(field, got.value)
               PROVE  FieldsRead(fields_, k + 1, Append(read.value, got.value))
    BY <1>4
  <2>1. PICK s, x : s = read.value /\ x = got.value
    OBVIOUS
  <2>2. IsSeq(s) /\ Len(s) = k /\ \A i \in 1..k : ReadAs(fields_[i], s[i])
    BY <2>1, Zenon DEF FieldsRead
  <2>3. PICK a : a = Append(s, x)
    OBVIOUS
  <2>4. IsSeq(a) /\ Len(a) = k + 1 /\ (\A i \in 1..k : a[i] = s[i]) /\ a[k + 1] = x
    BY ONLY <2>2, <2>3, Appended
  <2>5. ASSUME NEW i \in 1..(k + 1) PROVE ReadAs(fields_[i], a[i])
    <3>1. CASE i \in 1..k
      BY <2>2, <2>4, <3>1, Zenon
    <3>2. CASE i = k + 1
      BY <1>1, <2>1, <2>4, <3>2, Zenon
    <3> QED BY <3>1, <3>2
  <2> QED BY <2>1, <2>3, <2>4, <2>5, Zenon DEF FieldsRead
<1>6. Stays(next) /\ (next.err = "ok" => FieldsRead(fields_, k + 1, next.value))
  BY ONLY <1>3, <1>4, <1>5, StaysOrFails, Stays(read)
<1> QED BY <1>2, <1>6, Zenon

LEMMA StructRead ==
  ASSUME NEW fields_, Layout(fields_), NEW bytes \in ByteString
  PROVE  LET got == deserialize_struct(fields_, bytes) IN
         Stays(got) /\ (got.err = "ok" => MessageRead(fields_, got.value))
<1> DEFINE n == Len(fields_)
           base == Got(<<>>, bytes)
           it == CHOOSE it : it = [s \in SUBSET (1..n) |->
                                     IF s = {} THEN base ELSE ReadField(it[s \ {Max(s)}], fields_[Max(s)])]
<1>1. n \in Nat /\ DOMAIN fields_ = 1..n /\ \A i \in 1..n : Known(fields_[i])
  BY Zenon DEF Layout
<1> HIDE DEF n, base
<1>2. ReadsFields(it, SUBSET (1..n), base, fields_)
  <2>1. \E f : ReadsFields(f, SUBSET (1..n), base, fields_)
    BY <1>1, ReadsFieldsExists, Zenon
  <2> QED BY <2>1, Zenon DEF ReadsFields
<1>3. FoldLeft(ReadField, base, fields_) = it[1..n]
  BY <1>1, Zenon DEF FoldLeft, MapThenFoldSet
<1> HIDE DEF it
<1>4. it[1..0] = base /\ \A k \in 1..n : it[1..k] = ReadField(it[1..(k - 1)], fields_[k])
  <2>1. FieldByField(it, n, base, fields_)
    BY <1>1, <1>2, ReadsFieldsSteps, Zenon
  <2> QED BY <2>1, Zenon DEF FieldByField
<1> DEFINE Read(k) == Stays(it[1..k]) /\ (it[1..k].err = "ok" => FieldsRead(fields_, k, it[1..k].value))
           G == {k \in Nat : k <= n => Read(k)}
<1>5. 0 \in G
  <2>1. Stays(base) /\ base.value = <<>>
    BY StaysOrFails DEF base
  <2>2. FieldsRead(fields_, 0, <<>>)
    <3>1. IsSeq(<<>>) /\ Len(<<>>) = 0 /\ \A i \in 1..0 : FALSE
      BY Short
    <3> QED BY <3>1, Zenon DEF FieldsRead
  <2>3. Read(0)
    BY <1>4, <2>1, <2>2, Zenon
  <2> HIDE DEF Read
  <2> QED BY <2>3
<1>6. ASSUME NEW k \in Nat, k \in G PROVE k + 1 \in G
  <2> SUFFICES ASSUME k + 1 <= n PROVE Read(k + 1)
    <3> HIDE DEF Read
    <3> QED OBVIOUS
  <2>1. k + 1 \in 1..n /\ (k + 1) - 1 = k
    BY <1>1
  <2>2. Read(k)
    <3> HIDE DEF Read
    <3> QED BY <1>1, <1>6, <2>1
  <2>3. PICK read, next : read = it[1..k] /\ next = ReadField(read, fields_[k + 1])
    OBVIOUS
  <2>4. Stays(next) /\ (next.err = "ok" => FieldsRead(fields_, k + 1, next.value))
    <3>1. Stays(read) /\ (read.err = "ok" => FieldsRead(fields_, k, read.value)) /\ Known(fields_[k + 1])
      BY <1>1, <2>1, <2>2, <2>3, Zenon
    <3> QED BY ONLY <2>3, <3>1, k \in Nat, NextField
  <2>5. it[1..(k + 1)] = next
    BY <1>4, <2>1, <2>3, Zenon
  <2> QED BY <2>4, <2>5, Zenon
<1>7. Read(n)
  <2>1. n \in G
    <3> HIDE DEF G
    <3> QED BY <1>1, <1>5, <1>6, SetInduction
  <2> HIDE DEF Read
  <2> QED BY <1>1, <2>1
<1>8. PICK read : read = it[1..n]
  OBVIOUS
<1>9. Stays(read) /\ read.rest \in ByteString /\ (read.err = "ok" => FieldsRead(fields_, n, read.value))
  <2>1. Stays(read) /\ (read.err = "ok" => FieldsRead(fields_, n, read.value))
    BY <1>7, <1>8, Zenon
  <2> QED BY <2>1, Zenon DEF Stays
<1> DEFINE message == [name \in Names(fields_) |-> read.value[CHOOSE i \in DOMAIN fields_ : fields_[i].name = name]]
<1>10. deserialize_struct(fields_, bytes) = IF read.err = "ok" THEN Got(message, read.rest) ELSE read
  <2> DEFINE all(values, left) ==
        Got([name \in Names(fields_) |-> values[CHOOSE i \in DOMAIN fields_ : fields_[i].name = name]], left)
  <2>1. deserialize_struct(fields_, bytes) = Then(it[1..n], all)
    BY <1>3, Zenon DEF deserialize_struct, ReadField, base
  <2>2. Then(read, all) = IF read.err = "ok" THEN all(read.value, read.rest) ELSE read
    <3> HIDE DEF all
    <3> QED BY Zenon DEF Then
  <2>3. all(read.value, read.rest) = Got(message, read.rest)
    OBVIOUS
  <2> HIDE DEF all
  <2> QED BY <1>8, <2>1, <2>2, <2>3
<1>11. read.err = "ok" => MessageRead(fields_, message)
  <2> SUFFICES ASSUME read.err = "ok", NEW name \in Names(fields_)
               PROVE  \E i \in DOMAIN fields_ : fields_[i].name = name /\ ReadAs(fields_[i], message[name])
    <3> HIDE DEF message
    <3> QED BY Zenon DEF MessageRead
  <2> DEFINE i == CHOOSE j \in DOMAIN fields_ : fields_[j].name = name
  <2>1. \E j \in DOMAIN fields_ : fields_[j].name = name
    BY DEF Names
  <2>2. i \in DOMAIN fields_ /\ fields_[i].name = name
    BY <2>1, Zenon
  <2>3. message[name] = read.value[i]
    BY Zenon
  <2> HIDE DEF i, message
  <2>4. ReadAs(fields_[i], read.value[i])
    BY <1>1, <1>9, <2>2, Zenon DEF FieldsRead
  <2> QED BY <2>2, <2>3, <2>4, Zenon
<1> HIDE DEF message
<1>12. PICK got : got = deserialize_struct(fields_, bytes)
  OBVIOUS
<1>13. Stays(got) /\ (got.err = "ok" => MessageRead(fields_, got.value))
  BY ONLY <1>9, <1>10, <1>11, <1>12, StaysOrFails
<1> QED BY <1>12, <1>13, Zenon

LEMMA Completed ==
  ASSUME NEW got, Stays(got)
  PROVE  /\ Stays(Complete(got))
         /\ Complete(got).err = "ok" => got.err = "ok" /\ Complete(got).value = got.value
<1>1. Complete(got) = IF got.err = "ok"
                        THEN IF got.rest = <<>> THEN Got(got.value, <<>>) ELSE Failed("extra_bytes")
                        ELSE got
  BY Zenon DEF Complete, Then
<1>2. <<>> \in ByteString
  BY DEF ByteString
<1> QED BY <1>1, <1>2, StaysOrFails DEF Errors

LEMMA MessageIsRead ==
  ASSUME NEW fields_, Layout(fields_), NEW bytes \in ByteString
  PROVE  LET got == deserialize_message(fields_, bytes) IN
         Stays(got) /\ (got.err = "ok" => MessageRead(fields_, got.value))
<1>1. PICK struct : struct = deserialize_struct(fields_, bytes)
  OBVIOUS
<1>2. Stays(struct) /\ (struct.err = "ok" => MessageRead(fields_, struct.value))
  BY <1>1, StructRead
<1>3. PICK got : got = Complete(struct)
  OBVIOUS
<1>4. Stays(got) /\ (got.err = "ok" => struct.err = "ok" /\ got.value = struct.value)
  BY ONLY <1>2, <1>3, Completed
<1>5. deserialize_message(fields_, bytes) = got
  BY <1>1, <1>3, Zenon DEF deserialize_message
<1> QED BY ONLY <1>2, <1>4, <1>5, Zenon

LEMMA OkLayouts == Layout(ok_packet_head) /\ Layout(ok_packet)
<1>1. Layout(ok_packet_head)
  BY DEF Layout, Known, ok_packet_head, int_lenenc, int, FieldOf
<1>2. PICK head, info : head = ok_packet_head /\ info = ok_packet_info
  OBVIOUS
<1>3. head \in Seq({head[i] : i \in 1..Len(head)} \cup {info[1]})
  BY ONLY <1>2 DEF ok_packet_head, int_lenenc, int, FieldOf
<1>4. Known(info[1]) /\ info \in Seq({head[i] : i \in 1..Len(head)} \cup {info[1]}) /\ Len(info) = 1
  BY ONLY <1>2 DEF ok_packet_info, string_lenenc, FieldOf, Known
<1>5. PICK whole : whole = head \o info
  OBVIOUS
<1>6. Layout(whole)
  <2>1. PICK S : S = {head[i] : i \in 1..Len(head)} \cup {info[1]}
    OBVIOUS
  <2>2. whole \in Seq(S) /\ \A s \in S : Known(s)
    <3>1. head \in Seq(S) /\ info \in Seq(S)
      BY <1>3, <1>4, <2>1, Zenon
    <3>2. whole \in Seq(S)
      BY ONLY <1>5, <3>1
    <3>3. \A i \in 1..Len(head) : Known(head[i])
      BY <1>1, <1>2, Zenon DEF Layout
    <3> QED BY ONLY <1>4, <2>1, <3>2, <3>3
  <2>3. Len(whole) \in Nat /\ DOMAIN whole = 1..Len(whole) /\ \A i \in 1..Len(whole) : whole[i] \in S
    BY ONLY <2>2
  <2> QED BY ONLY <2>2, <2>3, Zenon DEF Layout
<1> QED BY <1>1, <1>2, <1>5, <1>6, Zenon DEF ok_packet

LEMMA ErrorLayout ==
  /\ Layout(err_packet)
  /\ "error_code" \in Names(err_packet)
  /\ \A i \in DOMAIN err_packet :
       err_packet[i].name = "error_code" => err_packet[i].type = "fixed_size_int" /\ err_packet[i].size = 2
<1>1. Layout(err_packet)
  BY DEF Layout, Known, err_packet, string_fixed, string_eof, int, FieldOf
<1>2. "error_code" \in Names(err_packet)
  BY DEF Names, err_packet, string_fixed, string_eof, int, FieldOf
<1>3. \A i \in DOMAIN err_packet :
       err_packet[i].name = "error_code" => err_packet[i].type = "fixed_size_int" /\ err_packet[i].size = 2
  BY DEF err_packet, string_fixed, string_eof, int, FieldOf
<1> QED BY <1>1, <1>2, <1>3

LEMMA ColumnLayout ==
  /\ Layout(column_definition_packet)
  /\ "decimals" \in Names(column_definition_packet)
  /\ \A i \in DOMAIN column_definition_packet :
       column_definition_packet[i].name = "decimals" => column_definition_packet[i].type = "fixed_size_int"
<1>1. Layout(column_definition_packet)
  BY DEF Layout, Known, column_definition_packet, string_lenenc, int_lenenc, int, enumeration, FieldOf
<1>2. "decimals" \in Names(column_definition_packet)
  BY DEF Names, column_definition_packet, string_lenenc, int_lenenc, int, enumeration, FieldOf
<1>3. \A i \in DOMAIN column_definition_packet :
       column_definition_packet[i].name = "decimals" => column_definition_packet[i].type = "fixed_size_int"
  BY DEF column_definition_packet, string_lenenc, int_lenenc, int, enumeration, FieldOf
<1> QED BY <1>1, <1>2, <1>3

LEMMA ErrorCodes ==
  /\ errc.ok \in 0..errc.protocol_value_error
  /\ \A err \in Errors : errc[err] \in 0..errc.protocol_value_error
  /\ \A n \in Word : n \in 0..errc.protocol_value_error
BY DEF errc, Errors, Word

LEMMA OkPacketRead ==
  ASSUME NEW bytes \in ByteString
  PROVE  deserialize_ok_packet(bytes).err \in {"ok"} \cup Errors
<1>1. PICK head, whole :
        head = deserialize_struct(ok_packet_head, bytes) /\ whole = deserialize_message(ok_packet, bytes)
  OBVIOUS
<1>2. \/ deserialize_ok_packet(bytes) = whole
      \/ \E value : deserialize_ok_packet(bytes) = Got(value, <<>>)
  BY <1>1, Zenon DEF deserialize_ok_packet
<1>3. Stays(whole)
  BY <1>1, OkLayouts, MessageIsRead
<1>4. <<>> \in ByteString
  BY DEF ByteString
<1> QED BY <1>2, <1>3, <1>4, StaysOrFails DEF Stays

LEMMA ErrorPacketRead ==
  ASSUME NEW bytes \in ByteString
  PROVE  process_error_packet(bytes).code \in 0..errc.protocol_value_error
<1>1. PICK error : error = deserialize_message(err_packet, bytes)
  OBVIOUS
<1>2. Stays(error) /\ (error.err = "ok" => MessageRead(err_packet, error.value))
  BY <1>1, ErrorLayout, MessageIsRead
<1>3. error.err = "ok" => error.value["error_code"] \in Word
  <2> SUFFICES ASSUME error.err = "ok" PROVE error.value["error_code"] \in Word
    OBVIOUS
  <2>1. PICK i \in DOMAIN err_packet :
          err_packet[i].name = "error_code" /\ ReadAs(err_packet[i], error.value["error_code"])
    BY <1>2, ErrorLayout, Zenon DEF MessageRead
  <2> QED BY <2>1, ErrorLayout, Zenon DEF ReadAs
<1>4. process_error_packet(bytes)
        = IF error.err = "ok" THEN Reported(error.value.error_code, error.value.error_message)
                              ELSE Reported(errc[error.err], <<>>)
  BY <1>1, Zenon DEF process_error_packet
<1>5. \A code, info : Reported(code, info).code = code
  BY DEF Reported
<1>6. error.err # "ok" => errc[error.err] \in 0..errc.protocol_value_error
  BY <1>2, ErrorCodes DEF Stays
<1>7. error.err = "ok" => error.value.error_code \in 0..errc.protocol_value_error
  BY ONLY <1>3, ErrorCodes
<1> QED BY ONLY <1>4, <1>5, <1>6, <1>7

LEMMA ColumnRead ==
  ASSUME NEW bytes \in ByteString
  PROVE  LET got == deserialize_message(column_definition_packet, bytes) IN
         /\ got.err \in {"ok"} \cup Errors
         /\ got.err = "ok" => field_metadata(got.value).decimals \in Nat
<1>1. PICK got : got = deserialize_message(column_definition_packet, bytes)
  OBVIOUS
<1>2. Stays(got) /\ (got.err = "ok" => MessageRead(column_definition_packet, got.value))
  BY <1>1, ColumnLayout, MessageIsRead
<1>3. got.err = "ok" => got.value["decimals"] \in Nat
  <2> SUFFICES ASSUME got.err = "ok" PROVE got.value["decimals"] \in Nat
    OBVIOUS
  <2>1. PICK i \in DOMAIN column_definition_packet :
          column_definition_packet[i].name = "decimals" /\ ReadAs(column_definition_packet[i], got.value["decimals"])
    BY <1>2, ColumnLayout, Zenon DEF MessageRead
  <2> QED BY <2>1, ColumnLayout, Zenon DEF ReadAs
<1>4. \A msg : field_metadata(msg).decimals = msg["decimals"]
  BY DEF field_metadata
<1>5. got.err \in {"ok"} \cup Errors
  BY <1>2, Zenon DEF Stays
<1> QED BY ONLY <1>1, <1>3, <1>4, <1>5

LEMMA CountRead ==
  ASSUME NEW bytes \in ByteString
  PROVE  LET got == Complete(FirstOf(deserialize_lenenc(bytes))) IN
         got.err \in {"ok"} \cup Errors /\ (got.err = "ok" => got.value \in Nat)
<1>1. PICK numbers : numbers = deserialize_lenenc(bytes)
  OBVIOUS
<1>2. PICK first : first = FirstOf(numbers)
  OBVIOUS
<1>3. PICK got : got = Complete(first)
  OBVIOUS
<1>4. Stays(numbers) /\ (numbers.err = "ok" => numbers.value \in [1..1 -> Nat])
  BY <1>1, LenencRead
<1>5. Stays(first) /\ (first.err = "ok" => first.value \in Nat)
  BY ONLY <1>2, <1>4, FirstRead
<1>6. Stays(got) /\ (got.err = "ok" => first.err = "ok" /\ got.value = first.value)
  BY ONLY <1>3, <1>5, Completed
<1>7. got.err \in {"ok"} \cup Errors /\ (got.err = "ok" => got.value \in Nat)
  BY ONLY <1>5, <1>6, Zenon DEF Stays
<1> QED BY <1>1, <1>2, <1>3, <1>7, Zenon

-----------------------------------------------------------------------------
(* The inductive invariant of the ranges *)

\* What the steps need: the messages are strings of bytes, and the client reads
\* column definitions only while some are missing.
Typed ==
  /\ TypeOK /\ IsSeq(fields) /\ IsSeq(output)
  /\ inbox \in Seq(ByteString) /\ field_count \in Nat
  /\ \A i \in 1..Len(fields) : fields[i].decimals \in Nat
  /\ pc \in {"response", "process_response"} => fields = <<>>
  /\ pc \in {"column", "process_field_definition"} => Len(fields) < field_count

ClientSteps ==
  {"response", "process_response", "column", "process_field_definition", "row",
   "process_read_message", "reading", "complete", "failed"}

LEMMA TypedParts ==
  Typed <=>
    /\ protocol \in Protocols /\ reply.kind \in {"ok", "error", "rows"}
    /\ rest \in ByteString /\ bitmap \in ByteString
    /\ IsSeq(fields) /\ IsSeq(output)
    /\ Len(fields) <= field_count /\ Len(output) <= Len(fields)
    /\ \A i \in DOMAIN output : ValueOK(protocol, output[i])
    /\ result.code \in 0..errc.protocol_value_error
    /\ pc \in ClientSteps
    /\ inbox \in Seq(ByteString) /\ field_count \in Nat
    /\ \A i \in 1..Len(fields) : fields[i].decimals \in Nat
    /\ pc \in {"response", "process_response"} => fields = <<>>
    /\ pc \in {"column", "process_field_definition"} => Len(fields) < field_count
BY Zenon DEF Typed, TypeOK, Protocols, ClientSteps

LEMMA InitTyped == Init => Typed
<1> SUFFICES ASSUME Init PROVE Typed
  OBVIOUS
<1>1. protocol \in Protocols /\ reply \in Replies
  BY DEF Init, Protocols
<1>2. reply.kind \in {"ok", "error", "rows"} /\ MessagesOf(protocol, reply) \in Seq(ByteString)
  BY <1>1, ReplyAssumption DEF Protocols
<1>3. rest = <<>> /\ bitmap = <<>> /\ fields = <<>> /\ output = <<>> /\ field_count = 0
      /\ pc = "response" /\ inbox = MessagesOf(protocol, reply) /\ result = NoError
  BY Zenon DEF Init
<1>4. <<>> \in ByteString /\ IsSeq(<<>>) /\ Len(<<>>) = 0 /\ DOMAIN <<>> = {} /\ 1..0 = {}
  BY Short DEF ByteString
<1>5. result.code \in 0..errc.protocol_value_error
  BY <1>3, ErrorCodes DEF NoError, Reported
<1>6. pc \in ClientSteps
  BY <1>3 DEF ClientSteps
<1>7. Len(fields) <= field_count /\ Len(output) <= Len(fields) /\ field_count \in Nat
  BY <1>3, <1>4
<1>8. /\ \A i \in DOMAIN output : ValueOK(protocol, output[i])
      /\ \A i \in 1..Len(fields) : fields[i].decimals \in Nat
  <2>1. DOMAIN output = {} /\ 1..Len(fields) = {}
    BY <1>3, <1>4, Zenon
  <2> QED BY <2>1
<1> QED BY <1>1, <1>2, <1>3, <1>4, <1>5, <1>6, <1>7, <1>8, TypedParts

LEMMA Failure ==
  ASSUME NEW e \in Errors, Fails(e)
  PROVE  result'.code \in 0..errc.protocol_value_error /\ pc' = "failed"
<1>1. result' = Reported(errc[e], <<>>) /\ pc' = "failed"
  BY DEF Fails
<1>2. \A code : Reported(code, <<>>).code = code
  BY DEF Reported
<1>3. result'.code = errc[e]
  BY <1>1, <1>2
<1> QED BY <1>1, <1>3, ErrorCodes

\* Steps that read no column, field or value.
LEMMA Ends ==
  ASSUME Typed, UNCHANGED <<protocol, reply, inbox, rest, responseVars, rowVars>>,
         \/ UNCHANGED result /\ pc' \in {"row", "reading", "complete", pc}
         \/ result'.code \in 0..errc.protocol_value_error /\ pc' = "failed"
  PROVE  Typed'
<1>1. /\ protocol' = protocol /\ reply' = reply /\ inbox' = inbox /\ rest' = rest
      /\ field_count' = field_count /\ fields' = fields /\ bitmap' = bitmap /\ output' = output
  BY DEF responseVars, rowVars
<1>2. result'.code \in 0..errc.protocol_value_error
  BY TypedParts
<1>3. /\ pc' \in ClientSteps
      /\ pc' = pc \/ pc' \notin {"response", "process_response", "column", "process_field_definition"}
  BY TypedParts DEF ClientSteps
<1> QED BY ONLY <1>1, <1>2, <1>3, TypedParts, Typed DEF Typed, TypeOK, ClientSteps

LEMMA ReceiveTyped ==
  ASSUME Typed, NEW step, NEW next, Receive(step, next),
         <<step, next>> \in {<<"response", "process_response">>, <<"column", "process_field_definition">>,
                            <<"row", "process_read_message">>}
  PROVE  Typed'
<1> DEFINE m == inbox[1]
<1>1. /\ protocol' = protocol /\ reply' = reply /\ field_count' = field_count /\ fields' = fields
      /\ bitmap' = bitmap /\ output' = output /\ result' = result
      /\ pc = step /\ pc' = next /\ inbox # <<>> /\ inbox' = Tail(inbox)
  BY DEF Receive, input, responseVars, rowVars
<1>2. m \in ByteString /\ Tail(inbox) \in Seq(ByteString)
  <2>1. inbox \in Seq(ByteString)
    BY TypedParts
  <2> QED BY <1>1, <2>1
<1>3. \/ rest' = m
      \/ \E cut \in Cuts : cut <= Len(m) /\ rest' = SubSeq(m, 1, Len(m) - cut)
      \/ \E tail \in Tails : rest' = m \o tail
  BY DEF Receive
<1> HIDE DEF m
<1>4. rest' \in ByteString
  <2>1. ASSUME NEW cut \in Cuts, cut <= Len(m), rest' = SubSeq(m, 1, Len(m) - cut) PROVE rest' \in ByteString
    <3>1. cut \in Nat /\ Len(m) \in Nat
      BY <1>2, Parts, ReplyAssumption
    <3>2. Len(m) - cut \in Nat /\ Len(m) - cut <= Len(m)
      BY <2>1, <3>1
    <3> QED BY <1>2, <2>1, <3>2, Parts
  <2>2. ASSUME NEW tail \in Tails, rest' = m \o tail PROVE rest' \in ByteString
    <3>1. tail \in Seq(Byte) /\ m \in Seq(Byte)
      BY <1>2, ReplyAssumption DEF ByteString
    <3> QED BY <2>2, <3>1, Concatenation DEF ByteString
  <2> QED BY <1>2, <1>3, <2>1, <2>2
<1>5. pc' \in ClientSteps /\ (pc' \in {"response", "process_response"} => pc \in {"response", "process_response"})
      /\ (pc' \in {"column", "process_field_definition"} => pc \in {"column", "process_field_definition"})
  BY <1>1 DEF ClientSteps
<1> QED BY ONLY <1>1, <1>2, <1>4, <1>5, TypedParts, Typed DEF Typed, TypeOK, ClientSteps

LEMMA CountTyped ==
  ASSUME Typed, ProcessFieldCount
  PROVE  Typed'
<1>1. PICK count : count = Complete(FirstOf(deserialize_lenenc(rest)))
  OBVIOUS
<1>2. /\ protocol' = protocol /\ reply' = reply /\ inbox' = inbox /\ rest' = rest /\ fields' = fields
      /\ bitmap' = bitmap /\ output' = output /\ pc = "process_response"
  BY DEF ProcessFieldCount, input, arrival, rowVars
<1>3. IF count.err = "ok" /\ count.value # 0
        THEN field_count' = count.value /\ pc' = "column" /\ UNCHANGED result
        ELSE Fails(IF count.err # "ok" THEN count.err ELSE "protocol_value_error") /\ UNCHANGED field_count
  BY <1>1, Zenon DEF ProcessFieldCount
<1>4. count.err \in {"ok"} \cup Errors /\ (count.err = "ok" => count.value \in Nat)
  BY <1>1, CountRead, TypedParts
<1>5. fields = <<>> /\ Len(fields) = 0
  BY <1>2, TypedParts, Short
<1>6. CASE count.err = "ok" /\ count.value # 0
  <2>1. field_count' = count.value /\ pc' = "column" /\ result' = result /\ count.value \in Nat
    BY <1>3, <1>4, <1>6
  <2>2. Len(fields) < field_count' /\ Len(fields) <= field_count'
    BY <1>5, <1>6, <2>1
  <2> QED BY ONLY <1>2, <2>1, <2>2, TypedParts, Typed DEF Typed, TypeOK, ClientSteps
<1>7. CASE ~(count.err = "ok" /\ count.value # 0)
  <2>1. PICK e : e = IF count.err # "ok" THEN count.err ELSE "protocol_value_error"
    OBVIOUS
  <2>2. e \in Errors /\ Fails(e) /\ field_count' = field_count
    BY <1>3, <1>4, <1>7, <2>1 DEF Errors
  <2>3. result'.code \in 0..errc.protocol_value_error /\ pc' = "failed"
    BY <2>2, Failure
  <2>4. UNCHANGED <<protocol, reply, inbox, rest, responseVars, rowVars>>
    BY <1>2, <2>2 DEF responseVars, rowVars
  <2> QED BY ONLY <2>3, <2>4, Ends, Typed
<1> QED BY <1>6, <1>7

LEMMA FieldTyped ==
  ASSUME Typed, process_field_definition
  PROVE  Typed'
<1>1. PICK definition : definition = deserialize_message(column_definition_packet, rest)
  OBVIOUS
<1>2. PICK field : field = field_metadata(definition.value)
  OBVIOUS
<1>3. /\ protocol' = protocol /\ reply' = reply /\ inbox' = inbox /\ rest' = rest /\ field_count' = field_count
      /\ bitmap' = bitmap /\ output' = output /\ pc = "process_field_definition"
  BY DEF process_field_definition, input, arrival, rowVars
<1>4. IF definition.err = "ok"
        THEN /\ fields' = Append(fields, field)
             /\ pc' = IF Len(fields) + 1 = field_count THEN "row" ELSE "column"
             /\ UNCHANGED result
        ELSE Fails(definition.err) /\ UNCHANGED fields
  BY <1>1, <1>2, Zenon DEF process_field_definition
<1>5. definition.err \in {"ok"} \cup Errors /\ (definition.err = "ok" => field.decimals \in Nat)
  BY <1>1, <1>2, ColumnRead, TypedParts
<1>6. CASE definition.err = "ok"
  <2>1. fields' = Append(fields, field) /\ result' = result
        /\ pc' = IF Len(fields) + 1 = field_count THEN "row" ELSE "column"
    BY <1>4, <1>6
  <2>2. /\ IsSeq(fields') /\ Len(fields) \in Nat /\ Len(fields') = Len(fields) + 1
        /\ \A i \in 1..Len(fields) : fields'[i] = fields[i]
        /\ fields'[Len(fields) + 1] = field
    BY <2>1, TypedParts, Appended
  <2>3. \A i \in 1..Len(fields') : fields'[i].decimals \in Nat
    <3>1. \A i \in 1..Len(fields) : fields[i].decimals \in Nat
      BY TypedParts
    <3> QED BY ONLY <1>5, <1>6, <2>2, <3>1
  <2>4. Len(fields) < field_count /\ field_count \in Nat /\ Len(output) <= Len(fields) /\ IsSeq(output)
    BY <1>3, TypedParts
  <2>5. Len(output) \in Nat
    BY <2>4, Appended
  <2>6. Len(fields') <= field_count /\ Len(output) <= Len(fields')
        /\ (pc' = "column" => Len(fields') < field_count)
    BY ONLY <2>1, <2>2, <2>4, <2>5
  <2>7. pc' \in {"row", "column"}
    BY <2>1
  <2> QED BY ONLY <1>3, <2>1, <2>2, <2>3, <2>6, <2>7, TypedParts, Typed DEF Typed, TypeOK, ClientSteps
<1>7. CASE definition.err # "ok"
  <2>1. definition.err \in Errors /\ Fails(definition.err) /\ fields' = fields
    BY <1>4, <1>5, <1>7
  <2>2. result'.code \in 0..errc.protocol_value_error /\ pc' = "failed"
    BY <2>1, Failure
  <2>3. UNCHANGED <<protocol, reply, inbox, rest, responseVars, rowVars>>
    BY <1>3, <2>1 DEF responseVars, rowVars
  <2> QED BY ONLY <2>2, <2>3, Ends, Typed
<1> QED BY <1>6, <1>7

LEMMA NextValueInRange ==
  ASSUME Typed, ColumnsLeft
  PROVE  InRange(protocol, NextValue)
<1> DEFINE field == fields[Len(output) + 1]
<1>1. rest \in ByteString /\ protocol \in Protocols
  BY TypedParts
<1>2. field.decimals \in Nat
  <2>1. Len(output) \in Nat /\ Len(fields) \in Nat
    BY TypedParts, Appended
  <2>2. Len(output) + 1 \in 1..Len(fields)
    BY <2>1 DEF ColumnsLeft
  <2> QED BY <2>2, TypedParts
<1>3. CASE protocol = "binary"
  <2>1. NextValue = deserialize_binary_value(field, rest)
    BY <1>3 DEF NextValue
  <2> QED BY <1>1, <1>3, <2>1, BinaryInRange
<1>4. CASE protocol = "text"
  <2>1. PICK text : text = deserialize_string_lenenc(rest)
    OBVIOUS
  <2>2. PICK value : value = deserialize_text_value(field, text.value)
    OBVIOUS
  <2>3. PICK got : got = NextValue
    OBVIOUS
  <2>4. got = IF text.err = "ok"
                THEN IF value.err = "ok" THEN Got(value.value, text.rest) ELSE value
                ELSE text
    <3> DEFINE next(string, left) ==
          Then(deserialize_text_value(field, string), LAMBDA v, nothing : Got(v, left))
    <3>1. NextValue = Then(text, next)
      BY <1>4, <2>1 DEF NextValue
    <3>2. next(text.value, text.rest) = IF value.err = "ok" THEN Got(value.value, text.rest) ELSE value
      BY <2>2, Zenon DEF Then
    <3>3. Then(text, next) = IF text.err = "ok" THEN next(text.value, text.rest) ELSE text
      <4> HIDE DEF next
      <4> QED BY Zenon DEF Then
    <3> HIDE DEF next
    <3> QED BY ONLY <2>3, <3>1, <3>2, <3>3
  <2>5. Stays(text) /\ text.rest \in ByteString /\ (text.err = "ok" => text.value \in ByteString)
    BY <1>1, <2>1, StringRead DEF Stays
  <2>6. text.err = "ok" => InRange("text", value)
    <3> HIDE DEF field
    <3> QED BY <1>2, <2>2, <2>5, TextInRange
  <2>7. InRange("text", got)
    BY ONLY <2>4, <2>5, <2>6, StaysOrFails DEF InRange
  <2> QED BY <1>4, <2>3, <2>7, Zenon
<1> QED BY <1>1, <1>3, <1>4 DEF Protocols

\* The values of a row, one after the other.
LEMMA RowTyped ==
  ASSUME Typed, NEW value, ValueOK(protocol, value), ColumnsLeft,
         output' = Append(output, value), rest' \in ByteString,
         UNCHANGED <<protocol, reply, inbox, pc, responseVars, bitmap, result>>
  PROVE  Typed'
<1>1. /\ protocol' = protocol /\ reply' = reply /\ inbox' = inbox /\ pc' = pc /\ result' = result
      /\ field_count' = field_count /\ fields' = fields /\ bitmap' = bitmap
  BY DEF responseVars
<1>2. IsSeq(output) /\ Len(output) < Len(fields) /\ Len(fields) \in Nat
  BY TypedParts, Appended DEF ColumnsLeft
<1>3. /\ IsSeq(output') /\ Len(output) \in Nat /\ Len(output') = Len(output) + 1
      /\ DOMAIN output = 1..Len(output) /\ DOMAIN output' = 1..(Len(output) + 1)
      /\ \A i \in 1..Len(output) : output'[i] = output[i]
      /\ output'[Len(output) + 1] = value
  BY <1>2, Appended
<1>4. ASSUME NEW i \in DOMAIN output' PROVE ValueOK(protocol, output'[i])
  <2>1. CASE i \in DOMAIN output
    BY <1>3, <2>1, TypedParts
  <2>2. CASE i \notin DOMAIN output
    <3>1. i = Len(output) + 1
      BY <1>3, <2>2
    <3> QED BY <1>3, <3>1
  <2> QED BY <2>1, <2>2
<1>5. Len(output') <= Len(fields)
  BY <1>2, <1>3
<1> QED BY ONLY <1>1, <1>3, <1>4, <1>5, rest' \in ByteString, TypedParts, Typed DEF Typed, TypeOK, ClientSteps

LEMMA NullTyped ==
  ASSUME Typed, ReadNull
  PROVE  Typed'
<1>1. /\ ColumnsLeft /\ output' = Append(output, NULL)
      /\ UNCHANGED <<protocol, reply, inbox, pc, responseVars, bitmap, result>>
  BY DEF ReadNull, input, arrival
<1>2. rest' = Skip(rest, 1) \/ rest' = rest
  BY DEF ReadNull
<1>3. rest' \in ByteString
  <2>1. rest \in ByteString /\ 1 \in Nat
    BY TypedParts
  <2> QED BY <1>2, <2>1, Parts
<1>4. ValueOK(protocol, NULL)
  BY SimpleValues
<1> QED BY ONLY <1>1, <1>3, <1>4, Typed, RowTyped

LEMMA ValueTyped ==
  ASSUME Typed, ReadValue
  PROVE  Typed'
<1>1. PICK next : next = NextValue
  OBVIOUS
<1>2. ColumnsLeft /\ UNCHANGED <<protocol, reply, inbox, responseVars, bitmap>>
      /\ IF next.err = "ok"
           THEN output' = Append(output, next.value) /\ rest' = next.rest /\ UNCHANGED <<pc, result>>
           ELSE Fails(next.err) /\ UNCHANGED <<output, rest>>
  BY <1>1 DEF ReadValue, input, arrival
<1>3. InRange(protocol, next)
  BY <1>1, <1>2, NextValueInRange
<1>4. CASE next.err = "ok"
  <2>1. ValueOK(protocol, next.value) /\ next.rest \in ByteString
    BY <1>3, <1>4 DEF InRange, Stays
  <2> QED BY ONLY <1>2, <1>4, <2>1, Typed, RowTyped
<1>5. CASE next.err # "ok"
  <2>1. next.err \in Errors /\ Fails(next.err)
    BY <1>2, <1>3, <1>5 DEF InRange, Stays
  <2>2. result'.code \in 0..errc.protocol_value_error /\ pc' = "failed"
    BY <2>1, Failure
  <2>3. UNCHANGED <<protocol, reply, inbox, rest, responseVars, rowVars>>
    BY <1>2, <1>5 DEF rowVars
  <2> QED BY ONLY <2>2, <2>3, Ends, Typed
<1> QED BY <1>4, <1>5

LEMMA BeginTyped ==
  ASSUME Typed, rest' \in ByteString, bitmap' \in ByteString, output' = <<>>,
         UNCHANGED <<protocol, reply, inbox, responseVars>>,
         result'.code \in 0..errc.protocol_value_error, pc' \in {"reading", "failed"}
  PROVE  Typed'
<1>1. protocol' = protocol /\ reply' = reply /\ inbox' = inbox /\ field_count' = field_count /\ fields' = fields
  BY DEF responseVars
<1>2. result'.code \in 0..errc.protocol_value_error /\ pc' \in {"reading", "failed"}
  OBVIOUS
<1>3. IsSeq(<<>>) /\ Len(<<>>) = 0 /\ DOMAIN <<>> = {}
  BY Short
<1>4. Len(output') <= Len(fields)
  <2>1. Len(fields) \in Nat
    BY TypedParts, Appended
  <2> QED BY <1>3, <2>1
<1>5. IsSeq(output') /\ \A i \in DOMAIN output' : ValueOK(protocol, output'[i])
  BY <1>3
<1>6. rest' \in ByteString /\ bitmap' \in ByteString
  OBVIOUS
<1> QED BY ONLY <1>1, <1>2, <1>4, <1>5, <1>6, TypedParts, Typed DEF Typed, TypeOK, ClientSteps

LEMMA BinaryRowTyped ==
  ASSUME Typed, BeginBinaryRow
  PROVE  Typed'
<1> DEFINE size == byte_count(binary_row_null_bitmap_offset, Len(fields))
<1>1. output' = <<>> /\ pc = "process_read_message" /\ UNCHANGED <<protocol, reply, inbox, responseVars>>
      /\ IF Len(rest) - 1 < size
           THEN Fails("incomplete_message") /\ UNCHANGED <<rest, bitmap>>
           ELSE /\ bitmap' = SubSeq(rest, 2, size + 1) /\ rest' = Skip(rest, size + 1)
                /\ pc' = "reading" /\ UNCHANGED result
  BY DEF BeginBinaryRow, IsRow, input, arrival
<1>2. size \in Nat
  <2>1. Len(fields) \in Nat
    BY TypedParts, Appended
  <2> QED BY <2>1 DEF byte_count, binary_row_null_bitmap_offset
<1> HIDE DEF size
<1>3. rest \in ByteString /\ bitmap \in ByteString /\ Len(rest) \in Nat
  BY TypedParts, Parts
<1>4. CASE Len(rest) - 1 < size
  <2>1. Fails("incomplete_message") /\ "incomplete_message" \in Errors /\ rest' = rest /\ bitmap' = bitmap
    BY <1>1, <1>4 DEF Errors
  <2>2. result'.code \in 0..errc.protocol_value_error /\ pc' = "failed"
    BY <2>1, Failure
  <2>3. rest' \in ByteString /\ bitmap' \in ByteString /\ pc' \in {"reading", "failed"}
    BY <1>3, <2>1, <2>2
  <2> QED BY ONLY <1>1, <2>2, <2>3, Typed, BeginTyped
<1>5. CASE ~(Len(rest) - 1 < size)
  <2>1. /\ bitmap' = SubSeq(rest, 2, size + 1) /\ rest' = Skip(rest, size + 1)
        /\ pc' = "reading" /\ UNCHANGED result
    BY <1>1, <1>5
  <2>2. Skip(rest, size + 1) \in ByteString
    BY <1>2, <1>3, Parts
  <2>3. SubSeq(rest, 2, size + 1) \in ByteString
    <3>1. 1 + size <= Len(rest) /\ 1 + 1 = 2 /\ 1 + size = size + 1 /\ 1 \in Nat
      BY <1>2, <1>3, <1>5
    <3>2. SubSeq(rest, 1 + 1, 1 + size) \in [1..size -> Byte]
      BY <1>2, <1>3, <3>1, Parts
    <3>3. SubSeq(rest, 2, size + 1) \in [1..size -> Byte]
      BY <3>1, <3>2
    <3> QED BY <1>2, <3>3, Numbered DEF ByteString
  <2>4. rest' \in ByteString /\ bitmap' \in ByteString /\ pc' \in {"reading", "failed"}
    BY <2>1, <2>2, <2>3
  <2>5. result'.code \in 0..errc.protocol_value_error
    BY <2>1, TypedParts
  <2> QED BY ONLY <1>1, <2>4, <2>5, Typed, BeginTyped
<1> QED BY <1>4, <1>5

LEMMA EndsTyped ==
  ASSUME Typed, NoMessageType \/ ProcessOk \/ ProcessError \/ ReadEof \/ EndRow
  PROVE  Typed'
<1>1. UNCHANGED <<protocol, reply, inbox, rest, responseVars, rowVars>>
  BY DEF NoMessageType, ProcessOk, ProcessError, ReadEof, EndRow, RowEnds, input, arrival
<1>2. rest # <<>> => Tail(rest) \in ByteString
  BY TypedParts, Parts
<1>3. CASE NoMessageType
  <2>1. Fails("incomplete_message") /\ "incomplete_message" \in Errors
    BY <1>3 DEF NoMessageType, Errors
  <2> QED BY <1>1, <2>1, Failure, Ends
<1>4. CASE ProcessOk \/ ReadEof
  <2>1. PICK packet : packet = deserialize_ok_packet(Tail(rest))
    OBVIOUS
  <2>2. /\ rest # <<>>
        /\ IF packet.err = "ok" THEN pc' = "complete" /\ UNCHANGED result ELSE Fails(packet.err)
    <3>1. CASE ProcessOk
      BY <2>1, <3>1, Zenon DEF ProcessOk
    <3>2. CASE ReadEof
      BY <2>1, <3>2, Zenon DEF ReadEof
    <3> QED BY <1>4, <3>1, <3>2
  <2>3. packet.err \in {"ok"} \cup Errors
    BY <1>2, <2>1, <2>2, OkPacketRead
  <2>4. packet.err # "ok" /\ Fails(packet.err) => result'.code \in 0..errc.protocol_value_error /\ pc' = "failed"
    BY <2>3, Failure
  <2>5. CASE packet.err = "ok"
    <3>1. pc' = "complete" /\ UNCHANGED result
      BY <2>2, <2>5
    <3> QED BY ONLY <1>1, <3>1, Ends, Typed
  <2>6. CASE packet.err # "ok"
    <3>1. result'.code \in 0..errc.protocol_value_error /\ pc' = "failed"
      BY <2>2, <2>4, <2>6
    <3> QED BY ONLY <1>1, <3>1, Ends, Typed
  <2> QED BY <2>5, <2>6
<1>5. CASE ProcessError
  <2>1. rest # <<>> /\ result' = process_error_packet(Tail(rest)) /\ pc' = "failed"
    BY <1>5 DEF ProcessError
  <2>2. result'.code \in 0..errc.protocol_value_error
    BY <1>2, <2>1, ErrorPacketRead
  <2> QED BY ONLY <1>1, <2>1, <2>2, Ends, Typed
<1>6. CASE EndRow
  <2>1. PICK e : e = IF rest = <<>> THEN "ok" ELSE "extra_bytes"
    OBVIOUS
  <2>2. IF e = "ok" THEN pc' = "row" /\ UNCHANGED result ELSE Fails(e)
    BY <1>6, <2>1, Zenon DEF EndRow, RowEnds
  <2>3. CASE e = "ok"
    <3>1. pc' = "row" /\ UNCHANGED result
      BY <2>2, <2>3
    <3> QED BY ONLY <1>1, <3>1, Ends, Typed
  <2>4. CASE e # "ok"
    <3>1. e \in Errors /\ Fails(e)
      BY <2>1, <2>2, <2>4 DEF Errors
    <3>2. result'.code \in 0..errc.protocol_value_error /\ pc' = "failed"
      BY <3>1, Failure
    <3> QED BY ONLY <1>1, <3>2, Ends, Typed
  <2> QED BY <2>3, <2>4
<1> QED BY <1>3, <1>4, <1>5, <1>6

LEMMA StepTyped ==
  ASSUME Typed, [Next]_vars
  PROVE  Typed'
<1>1. CASE ReceiveResponse
  BY <1>1, ReceiveTyped DEF ReceiveResponse
<1>2. CASE ReceiveColumn
  BY <1>2, ReceiveTyped DEF ReceiveColumn
<1>3. CASE ReceiveRow
  BY <1>3, ReceiveTyped DEF ReceiveRow
<1>4. CASE NoMessageType \/ ProcessOk \/ ProcessError \/ ReadEof \/ EndRow
  BY <1>4, EndsTyped
<1>5. CASE ProcessFieldCount
  BY <1>5, CountTyped
<1>6. CASE process_field_definition
  BY <1>6, FieldTyped
<1>7. CASE BeginTextRow
  <2>1. /\ UNCHANGED <<protocol, reply, inbox, rest, responseVars, bitmap, result>>
        /\ output' = <<>> /\ pc = "process_read_message" /\ pc' = "reading"
    BY <1>7 DEF BeginTextRow, IsRow, input, arrival
  <2>2. rest \in ByteString /\ bitmap \in ByteString /\ result.code \in 0..errc.protocol_value_error
    BY TypedParts
  <2>3. rest' \in ByteString /\ bitmap' \in ByteString /\ pc' \in {"reading", "failed"}
        /\ result'.code \in 0..errc.protocol_value_error /\ output' = <<>>
        /\ UNCHANGED <<protocol, reply, inbox, responseVars>>
    BY <2>1, <2>2
  <2> QED BY ONLY <2>3, Typed, BeginTyped
<1>8. CASE BeginBinaryRow
  BY <1>8, BinaryRowTyped
<1>9. CASE ReadNull
  BY <1>9, NullTyped
<1>10. CASE ReadValue
  BY <1>10, ValueTyped
<1>11. CASE UNCHANGED vars
  BY <1>11, Ends DEF vars, responseVars, rowVars
<1> QED BY <1>1, <1>2, <1>3, <1>4, <1>5, <1>6, <1>7, <1>8, <1>9, <1>10, <1>11 DEF Next

\* TypeOK for whatever the server means, and however its messages are cut or
\* extended: what the client makes of any bytes are dates of the calendar up to
\* the year 9999, times below the limits and error codes it has.
THEOREM ValuesStayInRange == Spec => []TypeOK
<1>1. Typed => TypeOK
  BY DEF Typed
<1> QED BY <1>1, InitTyped, StepTyped, PTL DEF Spec

=============================================================================
