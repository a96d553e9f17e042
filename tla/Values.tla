------------------------------- MODULE Values -------------------------------
(***************************************************************************)
(* The values of the columns and parameters, value.hpp: how they are read  *)
(* in both protocols, value by value, and what a user gets from them.      *)
(*                                                                         *)
(* Values: dates are <<year, month, day>>, datetimes go on with hours,     *)
(* minutes, seconds and microseconds, and a time is its seconds and        *)
(* microseconds, both with its sign.  What the server stores differs for   *)
(* times: <<negative, hours, minutes, seconds, microseconds>>.             *)
(*                                                                         *)
(* Numbers of 64 bits are scaled to 31: Int64Max is 2^30 - 1 and           *)
(* UInt64Max is 2^31 - 1.  A floating-point number is <<odd mantissa with  *)
(* its sign, exponent of two>>, zero <<0, 0>>; those of this module have   *)
(* at most 21 bits and a finite decimal form, so that no conversion        *)
(* rounds.                                                                 *)
(***************************************************************************)
EXTENDS Encoding

-----------------------------------------------------------------------------
(* What both protocols share *)

max_ymd == <<9999, 12, 31>>
max_hms == <<23, 59, 59>>
max_micro == 999999

\* An unsigned number of 32 bits from 2^31 on is written as the negative number
\* with the same bits (TLC's numbers are no larger), and is past every limit.
Within(fields, limits) == \A i \in DOMAIN limits : fields[i] >= 0 /\ fields[i] <= limits[i]
Checked(fields, limits, bytes) ==
  IF Within(fields, limits) THEN Got(fields, bytes) ELSE Failed("protocol_value_error")

Leap(y) == y % 4 = 0 /\ (y % 100 # 0 \/ y % 400 = 0)
DaysIn(y, m) == CASE m = 2 -> IF Leap(y) THEN 29 ELSE 28
                  [] m \in {4, 6, 9, 11} -> 30
                  [] OTHER -> 31

\* ymd.ok(): a day of the calendar, which the server's zero dates and invalid
\* dates are not.  is_out_of_range rejects nothing that max_year lets through.
AnyMonth(ymd) == ymd[2] \in 1..12
ok(ymd) == ymd[2] \in 1..12 /\ ymd[3] \in 1..DaysIn(ymd[1], ymd[2])

DayOrNull(kind, fields) == IF ok(fields) THEN Value(kind, fields) ELSE NULL

ComposedTime(negative, hours, minutes, seconds, micros) ==
  LET sign == IF negative THEN -1 ELSE 1 IN
  Value("time", <<sign * ((hours * 60 + minutes) * 60 + seconds), sign * micros>>)

\* mantissa * 2^exponent, and the floating-point number with an odd mantissa.
Dyadic(mantissa, exponent) ==
  LET zeros == Max({k \in 0..30 : k = 0 \/ mantissa % 2^k = 0}) IN
  IF mantissa = 0 THEN <<0, 0>> ELSE <<mantissa \div 2^zeros, exponent + zeros>>

\* float and double: size, bits of the fraction in the last four bytes (those
\* before them are zero), bias of the exponent.
float == [kind |-> "float", size |-> 4, fraction |-> 23, bias |-> 127]
double == [kind |-> "double", size |-> 8, fraction |-> 20, bias |-> 1023]

TopBits(bytes) ==
  LET top == SubSeq(bytes, Len(bytes) - 3, Len(bytes)) IN Unsigned([top EXCEPT ![4] = @ % 128])
ExponentBits(type, bytes) == TopBits(bytes) \div 2^type.fraction
IsFinite(type, bytes) == ExponentBits(type, bytes) # 2 * type.bias + 1
FloatNumber(type, bytes) ==
  LET biased == ExponentBits(type, bytes)
      fraction == TopBits(bytes) % 2^type.fraction
      mantissa == IF biased = 0 THEN fraction ELSE 2^type.fraction + fraction
      exponent == (IF biased = 0 THEN 1 ELSE biased) - type.bias - type.fraction
  IN Dyadic(IF bytes[type.size] >= 128 THEN -mantissa ELSE mantissa, exponent)

FloatBytes(type, number) ==
  LET m == IF number[1] < 0 THEN -number[1] ELSE number[1]
      bits == CHOOSE n \in 0..24 : 2^n <= m /\ m < 2^(n + 1)
      top == (number[2] + bits + type.bias) * 2^type.fraction + (m - 2^bits) * 2^(type.fraction - bits)
      bytes == LittleEndian(IF m = 0 THEN 0 ELSE top, 4)
  IN [i \in 1..(type.size - 4) |-> 0] \o [bytes EXCEPT ![4] = IF number[1] < 0 THEN @ + 128 ELSE @]

IntWidth ==
  [tiny |-> 1, short_ |-> 2, year |-> 2, int24 |-> 4, long_ |-> 4, longlong |-> 8]
IntTypes == DOMAIN IntWidth

Int64Max == 2^30 - 1
UInt64Max == Int64Max + 2^30

\* meta.is_unsigned() chooses the type that is read.
KindAlwaysSigned(field) == "int64"
IntKind(field) == IF field.is_unsigned THEN "uint64" ELSE "int64"

DatetimeTypes == {"datetime", "timestamp"}
FloatTypes == {"float_", "double_"}

-----------------------------------------------------------------------------
(* The binary protocol *)

binary_int(field, bytes) ==
  LET width == IntWidth[field.protocol_type] IN
  IF Len(bytes) < width
    THEN Failed("incomplete_message")
    ELSE LET own == SubSeq(bytes, 1, width) IN
         Got(Value(IntKind(field), <<IF field.is_unsigned THEN Unsigned(own) ELSE Signed(own)>>),
             Skip(bytes, width))

\* Not a number and the infinities are refused.
binary_float(field, bytes) ==
  LET type == IF field.protocol_type = "float_" THEN float ELSE double IN
  IF Len(bytes) < type.size
    THEN Failed("incomplete_message")
    ELSE LET own == SubSeq(bytes, 1, type.size) IN
         IF ~IsFinite(type, own) THEN Failed("protocol_value_error")
                                 ELSE Got(Value(type.kind, FloatNumber(type, own)), Skip(bytes, type.size))

\* Fields that are zero when the length says that they are missing.
Optional(present, bytes, widths) ==
  IF present THEN deserialize(bytes, widths) ELSE Got([i \in DOMAIN widths |-> 0], bytes)

deserialize_binary_ymd(bytes) ==
  Then(deserialize(bytes, <<2, 1, 1>>), LAMBDA ymd, left : Checked(ymd, max_ymd, left))

deserialize_binary_value_date(bytes) ==
  Then(deserialize(bytes, <<1>>), LAMBDA length, left :
    IF length[1] < 4
      THEN Got(NULL, left)
      ELSE Then(deserialize_binary_ymd(left), LAMBDA ymd, left2 :
             Got(DayOrNull("date", ymd), left2)))

deserialize_binary_value_datetime(bytes) ==
  Then(deserialize(bytes, <<1>>), LAMBDA length, left :
    Then(IF length[1] >= 4 THEN deserialize_binary_ymd(left) ELSE Got(<<0, 0, 0>>, left),
         LAMBDA ymd, left2 :
    Then(Optional(length[1] >= 7, left2, <<1, 1, 1>>), LAMBDA hms, left3 :
    Then(Optional(length[1] >= 11, left3, <<4>>), LAMBDA micros, left4 :
    Then(Checked(hms \o micros, Append(max_hms, max_micro), left4), LAMBDA tod, left5 :
      Got(DayOrNull("datetime", ymd \o tod), left5))))))

\* 34 days and 23:59:59 are the most that the limits let through, an hour more than
\* in the text protocol.
deserialize_binary_value_time(bytes) ==
  Then(deserialize(bytes, <<1>>), LAMBDA length, left :
    Then(Optional(length[1] >= 8, left, <<1, 4, 1, 1, 1>>), LAMBDA t, left2 :
    Then(Optional(length[1] >= 12, left2, <<4>>), LAMBDA micros, left3 :
    Then(Checked(Tail(t) \o micros, <<34>> \o Append(max_hms, max_micro), left3),
         LAMBDA dhms, left4 :
      Got(ComposedTime(t[1] # 0, dhms[1] * 24 + dhms[2], dhms[3], dhms[4], dhms[5]), left4)))))

deserialize_binary_value(field, bytes) ==
  CASE field.protocol_type \in IntTypes      -> binary_int(field, bytes)
    [] field.protocol_type \in FloatTypes    -> binary_float(field, bytes)
    [] field.protocol_type = "date"          -> deserialize_binary_value_date(bytes)
    [] field.protocol_type \in DatetimeTypes -> deserialize_binary_value_datetime(bytes)
    [] field.protocol_type = "time"          -> deserialize_binary_value_time(bytes)
    [] OTHER -> Then(deserialize_string_lenenc(bytes), LAMBDA string, left :
                  Got(Value("string", string), left))

-----------------------------------------------------------------------------
(* The text protocol *)

Digit == 48..57
NumberOf(digits) == FoldLeft(LAMBDA n, d : n * 10 + d - 48, 0, digits)

Minus == 45    Plus == 43    Dot == 46    Colon == 58    Space == 32
Blanks == 9..13 \cup {Space}

\* The first characters that are of these, at most that many.
Leading(text, chars, most) ==
  Max({k \in 0..most : k <= Len(text) /\ \A i \in 1..k : text[i] \in chars})

SignSize(text) == IF text # <<>> /\ text[1] \in {Plus, Minus} THEN 1 ELSE 0
Negative(text) == text # <<>> /\ text[1] = Minus

\* A positive item n of a format is %nu: blanks, a sign and digits, of which sign
\* and digits have n characters at most; a minus makes an unsigned number of it,
\* modulo 2^32 (see Within).  A negative item is the character to be skipped.
ScanItem(scan, item) ==
  LET text == Skip(scan.text, Leading(scan.text, Blanks, Len(scan.text)))
      sign == SignSize(text)
      digits == Leading(Skip(text, sign), Digit, item - sign)
      number == NumberOf(SubSeq(Skip(text, sign), 1, digits))
  IN IF item < 0
       THEN [scan EXCEPT !.ok = @ /\ scan.text # <<>> /\ scan.text[1] = -item, !.text = Skip(@, 1)]
       ELSE [ok |-> scan.ok /\ digits > 0, text |-> Skip(Skip(text, sign), digits),
             numbers |-> Append(scan.numbers, IF Negative(text) THEN -number ELSE number)]

\* sscanf of the copy in the buffer, which ends at the first zero.  Nothing may
\* follow (the %c at the end of each format).
sscanf(text, format) ==
  LET buffer == SubSeq(text, 1, Leading(text, 1..255, Len(text)))
      end == FoldLeft(ScanItem, [ok |-> TRUE, text |-> buffer, numbers |-> <<>>], format)
  IN IF end.ok /\ end.text = <<>> THEN Got(end.numbers, <<>>) ELSE Failed("protocol_value_error")

HmsFormat(hour_digits) == <<hour_digits, -Colon, 2, -Colon, 2>>

\* try_lexical_convert: an optional sign and decimal digits.  A minus is no error
\* for an unsigned number either, which then wraps around.
text_int(field, text) ==
  LET digits == Skip(text, SignSize(text))
      n == NumberOf(digits)
      most == IF field.is_unsigned THEN UInt64Max ELSE IF Negative(text) THEN Int64Max + 1 ELSE Int64Max
      v == CASE ~Negative(text) \/ n = 0           -> n
             [] Negative(text) /\ field.is_unsigned -> (UInt64Max - n) + 1
             [] OTHER                              -> -n
  IN IF digits = <<>> \/ (\E i \in DOMAIN digits : digits[i] \notin Digit) \/ n > most
       THEN Failed("protocol_value_error")
       ELSE Got(Value(IntKind(field), <<v>>), <<>>)

\* try_lexical_convert: a sign, digits and digits after a point (an exponent is
\* not modelled).  The names of the infinities are refused.
text_float(field, text) ==
  LET number == Skip(text, SignSize(text))
      point == {i \in DOMAIN number : number[i] = Dot}
      digits == SelectSeq(number, LAMBDA c : c # Dot)
      decimals == IF point = {} THEN 0 ELSE Len(number) - Max(point)
      n == NumberOf(digits) \div 5^decimals
  IN IF digits = <<>> \/ Cardinality(point) > 1 \/ \E i \in DOMAIN digits : digits[i] \notin Digit
       THEN Failed("protocol_value_error")
       ELSE Got(Value(IF field.protocol_type = "float_" THEN "float" ELSE "double",
                      Dyadic(IF Negative(text) THEN -n ELSE n, -decimals)), <<>>)

sanitize_decimals(decimals) == Min({decimals, 6})

\* Ten times an unsigned number of 32 bits, modulo 2^32 (see Within).
TimesTen(n) ==
  LET low == 10 * (n % 2^16)
      high == 10 * (n \div 2^16) + low \div 2^16
  IN (((high + 2^15) % 2^16) - 2^15) * 2^16 + (low % 2^16)

compute_micros(parsed, decimals) ==
  FoldLeft(LAMBDA n, zero : TimesTen(n), parsed, [i \in 1..(6 - decimals) |-> 0])

deserialize_text_ymd(text) ==
  IF Len(text) # 10
    THEN Failed("protocol_value_error")
    ELSE Then(sscanf(text, <<4, -Minus, 2, -Minus, 2>>), LAMBDA ymd, left : Checked(ymd, max_ymd, left))

deserialize_text_value_date(text) ==
  Then(deserialize_text_ymd(text), LAMBDA ymd, left : Got(DayOrNull("date", ymd), left))

\* Hours, minutes, seconds and, if there are decimals, microseconds.
ParsedTime(text, hour_digits, decimals) ==
  IF decimals = 0
    THEN Then(sscanf(text, HmsFormat(hour_digits)), LAMBDA t, left : Got(Append(t, 0), left))
    ELSE Then(sscanf(text, HmsFormat(hour_digits) \o <<-Dot, 6>>), LAMBDA t, left :
           Got([t EXCEPT ![4] = compute_micros(@, decimals)], left))

FractionSize(decimals) == IF decimals = 0 THEN 0 ELSE decimals + 1

deserialize_text_value_datetime(field, text) ==
  LET decimals == sanitize_decimals(field.decimals) IN
  IF Len(text) # 19 + FractionSize(decimals)
    THEN Failed("protocol_value_error")
    ELSE Then(deserialize_text_ymd(SubSeq(text, 1, 10)), LAMBDA ymd, left :
         Then(ParsedTime(Skip(text, 11), 2, decimals), LAMBDA time, left2 :
         Then(Checked(time, Append(max_hms, max_micro), left2), LAMBDA tod, left3 :
           Got(DayOrNull("datetime", ymd \o tod), left3))))

deserialize_text_value_time(field, text) ==
  LET decimals == sanitize_decimals(field.decimals)
      least == 8 + FractionSize(decimals)
      negative == text[1] = Minus
  IN IF Len(text) \notin least..(least + 2)
       THEN Failed("protocol_value_error")
       ELSE Then(ParsedTime(IF negative THEN Tail(text) ELSE text, 3, decimals), LAMBDA time, left :
            Then(Checked(time, <<838, 59, 59, max_micro>>, left), LAMBDA t, left2 :
              Got(ComposedTime(negative, t[1], t[2], t[3], t[4]), left2)))

deserialize_text_value(field, text) ==
  CASE field.protocol_type \in IntTypes      -> text_int(field, text)
    [] field.protocol_type \in FloatTypes    -> text_float(field, text)
    [] field.protocol_type = "date"          -> deserialize_text_value_date(text)
    [] field.protocol_type \in DatetimeTypes -> deserialize_text_value_datetime(field, text)
    [] field.protocol_type = "time"          -> deserialize_text_value_time(field, text)
    [] OTHER                        -> Got(Value("string", text), <<>>)

-----------------------------------------------------------------------------
(* What a user of a value gets: value::get_optional, and operator<< for a    *)
(* time                                                                      *)

\* The number as a value of another kind, or <<>>.
get_optional_noconv(kind, value) == IF value.kind = kind THEN value.v ELSE <<>>

ConvertUnchecked(kind, value) ==
  IF value.kind = kind \/ (kind = "uint64" /\ value.kind = "int64")
     \/ (kind = "int64" /\ value.kind = "uint64") \/ (kind = "double" /\ value.kind = "float")
    THEN value.v ELSE <<>>
get_optional(kind, value) ==
  CASE kind = "uint64" /\ value.kind = "int64" -> IF value.v[1] >= 0 THEN value.v ELSE <<>>
    [] kind = "int64" /\ value.kind = "uint64" -> IF value.v[1] <= Int64Max THEN value.v ELSE <<>>
    [] kind = "double" /\ value.kind = "float" -> value.v
    [] OTHER                                   -> get_optional_noconv(kind, value)

Padded(n, width) == [i \in 1..width |-> 48 + ((n \div 10^(width - i)) % 10)]
Abs(n) == IF n < 0 THEN -n ELSE n

\* print_visitor: at least two digits for the hours, six for the microseconds.
print_time(v) ==
  LET s == Abs(v[1])
      hours == s \div 3600
  IN (IF v[1] < 0 \/ v[2] < 0 THEN <<Minus>> ELSE <<>>)
       \o Padded(hours, IF hours > 99 THEN 3 ELSE 2) \o <<Colon>> \o Padded((s \div 60) % 60, 2)
       \o <<Colon>> \o Padded(s % 60, 2) \o <<Dot>> \o Padded(Abs(v[2]), 6)
=============================================================================
