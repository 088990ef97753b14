---------------------------- MODULE Conversions -----------------------------
(***************************************************************************)
(* The conversions between column values and Rust values that compute:     *)
(* integers, dates, times, timestamps and numerics.                        *)
(*                                                                         *)
(* A program reads a column of a row (or makes an integer of its own) and  *)
(* sends the value back as a parameter, which the server reads.  The bytes *)
(* are the bits of an integer, most significant first: an integer modulo   *)
(* a power of two.  All sizes are constants in the proportions of the code,*)
(* since the bounds are what matters: bytes of fewer than 256 values,      *)
(* short seconds, hours and days, and numerics of fewer than four decimal  *)
(* digits to a group.                                                      *)
(***************************************************************************)
EXTENDS Integers, SequencesExt

CONSTANTS
  ByteValues,       \* the values of a byte
  UsecsPerSec, SecsPerMinute, MinutesPerHour, HoursPerDay,
  EpochJulianDay,   \* PG_EPOCH_JULIAN_DAY
  MaxDays, MaxSecs, \* how far the dates and times of the Rust libraries go
  GroupDigits,      \* decimal digits in a group of a NUMERIC
  MaxMantissa, MaxScale, \* of a Decimal
  I128Values,       \* the values of the i128 that a Decimal's digits are gathered in
  \* bounds: what the server and the program have to send
  IntegerInputs, DayInputs, UsecInputs, GroupInputs, Weights, DisplayScales

ASSUME ConversionsAssumption ==
  /\ {ByteValues, UsecsPerSec, SecsPerMinute, MinutesPerHour, HoursPerDay, EpochJulianDay,
      MaxDays, MaxSecs, GroupDigits, MaxMantissa, MaxScale, I128Values} \subseteq Nat \ {0}
  /\ I128Values % 2 = 0 /\ MaxMantissa < I128Values \div 2
  /\ GroupInputs \subseteq 0..(10 ^ GroupDigits - 1)

VARIABLES
  column,  \* what the server sends: a value of a type; of type none if nothing
  rust,    \* the Rust value: its type, Ok, Err or Panic, and its value
  param,   \* the bytes sent back
  stored   \* what the server reads of them

convvars == <<column, rust, param, stored>>

Nothing == [oid |-> "none"]
NotYet  == [type |-> "none", is |-> "none"]

Ok(T, v)   == [type |-> T, is |-> "Ok", v |-> v]
Error(T)   == [type |-> T, is |-> "Err"]
Panics(T)  == [type |-> T, is |-> "Panic"]

\* v, if the type T goes that far.
Checked(T, fits, v) == IF fits THEN Ok(T, v) ELSE Error(T)

-----------------------------------------------------------------------------
\* Integers as bits.
Bytes == [INT2 |-> 2, INT4 |-> 4, INT8 |-> 8, DATE |-> 4, TIME |-> 8, TIMESTAMP |-> 8,
          TIMESTAMPTZ |-> 8]

\* The values of so many bytes: a byte, an i16, an i32 or an i64.
Power(bytes) ==
  LET short == ByteValues * ByteValues
      int   == short * short
  IN  CASE bytes = 1 -> ByteValues
        [] bytes = 2 -> short
        [] bytes = 4 -> int
        [] OTHER     -> int * int

to_be_bytes(v, bytes) == v % Power(bytes)

from_be_bytes(b, bytes) == IF 2 * b >= Power(bytes) THEN b - Power(bytes) ELSE b

Signed(bytes) == -(Power(bytes) \div 2)..(Power(bytes) \div 2 - 1)

\* The division of Rust and its remainder: towards zero.
Quotient(a, b)  == IF a >= 0 THEN a \div b ELSE -((-a) \div b)
Remainder(a, b) == a - b * Quotient(a, b)

Abs(a) == IF a >= 0 THEN a ELSE -a

\* The microseconds of a day fit the i64 of a TIME, and the Julian day numbers of the
\* Rust calendars the i32 of a DATE, with room to spare.
ASSUME WidthAssumption ==
  /\ ByteValues % 2 = 0
  /\ HoursPerDay * MinutesPerHour * SecsPerMinute * UsecsPerSec < Power(8) \div 2
  /\ EpochJulianDay + MaxDays < Power(4) \div 2

-----------------------------------------------------------------------------
\* Integers.
IntegerTypes == [i8  |-> Signed(1), u8  |-> 0..(Power(1) - 1), i16 |-> Signed(2),
                 u16 |-> 0..(Power(2) - 1), i32 |-> Signed(4), u32 |-> 0..(Power(4) - 1),
                 i64 |-> Signed(8), u64 |-> 0..(Power(8) - 1)]

IntegerOids == {"INT2", "INT4", "INT8"}

\* The targets for which encode uses try_from; the others it casts to.
TryFrom == [i8 |-> {}, u8 |-> {}, i16 |-> {}, u16 |-> {"INT2"}, i32 |-> {"INT2"},
            u32 |-> {"INT2", "INT4"}, i64 |-> {"INT2", "INT4"}, u64 |-> IntegerOids]

\* Mutant: a u32 is cast to INT4.
UnencodableU32(T, oid, v) ==
  oid \in TryFrom[T] \ (IF T = "u32" THEN {"INT4"} ELSE {}) /\ v \notin Signed(Bytes[oid])

Unencodable(T, oid, v) == oid \in TryFrom[T] /\ v \notin Signed(Bytes[oid])

encode_integer(T, v, oid) ==
  IF Unencodable(T, oid, v) THEN Error(T) ELSE Ok(oid, to_be_bytes(v, Bytes[oid]))

\* The column types each FromWireValue takes.
Widening == [i16 |-> {"INT2"}, i32 |-> {"INT2", "INT4"}, i64 |-> IntegerOids]

decode_integer(T, b, oid) ==
  IF oid \in Widening[T] THEN Ok(T, from_be_bytes(b, Bytes[oid])) ELSE Error(T)

-----------------------------------------------------------------------------
\* Dates: a NaiveDate or time::Date is its number of days from 2000-01-01.
\* Mutant: a date before 2000-01-01 is out of range.
NotBefore(days) == days \in 0..MaxDays

InRange(days) == Abs(days) <= MaxDays

\* chrono: both branches count from max(0).
naive_date(b) ==
  LET pg_days == from_be_bytes(b, 4)
      later   == IF pg_days > 0 THEN pg_days ELSE 0
      earlier == IF -pg_days > 0 THEN -pg_days ELSE 0
  IN  IF InRange(later) THEN Ok("NaiveDate", later)
      ELSE Checked("NaiveDate", InRange(-earlier), -earlier)

\* time: the sum is an i32, which panics or wraps when it overflows.
time_date(b) ==
  LET julian  == from_be_bytes(b, 4) + EpochJulianDay
      wrapped == from_be_bytes(to_be_bytes(julian, 4), 4)
  IN  {Checked("Date", InRange(wrapped - EpochJulianDay), wrapped - EpochJulianDay)}
        \cup (IF julian \in Signed(4) THEN {} ELSE {Panics("Date")})

-----------------------------------------------------------------------------
\* Times of day.
SecsPerHour == SecsPerMinute * MinutesPerHour
SecsPerDay  == SecsPerHour * HoursPerDay

\* chrono: seconds from midnight and the fraction.
naive_time(b) ==
  LET usecs == from_be_bytes(b, 8)
      secs  == Quotient(usecs, UsecsPerSec)
  IN  Checked("NaiveTime", secs \in 0..(SecsPerDay - 1), <<secs, Remainder(usecs, UsecsPerSec)>>)

\* time: hours, minutes, seconds and the fraction.
time_time(b) ==
  LET usecs     == from_be_bytes(b, 8)
      hour      == SecsPerHour * UsecsPerSec
      minute    == SecsPerMinute * UsecsPerSec
      of_hour   == Remainder(usecs, hour)
      of_minute == Remainder(of_hour, minute)
      hours     == Quotient(usecs, hour)
  IN  Checked("Time", hours \in 0..(HoursPerDay - 1),
              <<hours, Quotient(of_hour, minute), Quotient(of_minute, UsecsPerSec),
                Remainder(of_minute, UsecsPerSec)>>)

\* Microseconds from midnight.
TimeOfDay(r) ==
  IF r.type = "NaiveTime" THEN r.v[1] * UsecsPerSec + r.v[2]
  ELSE ((r.v[1] * MinutesPerHour + r.v[2]) * SecsPerMinute + r.v[3]) * UsecsPerSec + r.v[4]

-----------------------------------------------------------------------------
\* Timestamps: seconds since 2000-01-01 and a fraction that counts upwards.
Second(secs, usecs) == <<secs + (usecs \div UsecsPerSec), usecs % UsecsPerSec>>

InSeconds(at) == Abs(at[1]) <= MaxSecs

\* Mutant: the fraction is set on negative timestamps, too.
SetFraction(secs, usecs, fraction) == <<secs, fraction>>

\* A negative timestamp is the second towards 2000-01-01, less its fraction.
AddFraction(secs, usecs, fraction) ==
  IF usecs >= 0 THEN <<secs, fraction>> ELSE Second(secs, -fraction)

\* chrono, with or without a time zone.
naive_date_time(T, b) ==
  LET usecs == from_be_bytes(b, 8)
      secs  == Quotient(usecs, UsecsPerSec)
      at    == AddFraction(secs, usecs, Abs(Remainder(usecs, UsecsPerSec)))
  IN  Checked(T, InSeconds(<<secs, 0>>) /\ InSeconds(at), at)

\* time, with or without a time zone.
time_date_time(T, b) ==
  LET at == Second(0, from_be_bytes(b, 8)) IN Checked(T, InSeconds(at), at)

ChronoTimestamps == {"NaiveDateTime", "DateTimeUtc"}
TimestampTypes   == ChronoTimestamps \cup {"PrimitiveDateTime", "OffsetDateTime"}

\* The zoned types do not take a TIMESTAMP column.
TimestampColumns(T) ==
  {"TIMESTAMPTZ"} \cup (IF T \in {"NaiveDateTime", "PrimitiveDateTime"} THEN {"TIMESTAMP"} ELSE {})

Instant(r) == r.v[1] * UsecsPerSec + r.v[2]

-----------------------------------------------------------------------------
\* Numerics: sign, weight, groups of digits and display scale.
Base == 10 ^ GroupDigits

\* The server sends no leading or trailing group of zeros, and no digit beyond
\* the display scale.
NormalForm(n) ==
  /\ n.digits # <<>> => n.digits[1] # 0 /\ Last(n.digits) # 0
  /\ n.digits = <<>> => n.weight = 0 /\ n.sign # "Neg"
  /\ \A i \in DOMAIN n.digits : \A p \in 0..(GroupDigits - 1) :
       (n.digits[i] \div 10 ^ p) % 10 # 0 => (n.weight - i + 1) * GroupDigits + p >= -n.dscale

Numerics ==
  {n \in [sign : {"Pos", "Neg"}, weight : Weights, digits : BoundedSeq(GroupInputs, 3),
          dscale : DisplayScales] : NormalForm(n)}
  \cup [sign : {"NaN", "PInf", "NInf"}, weight : {0}, digits : {<<>>}, dscale : {0}]

Finite(n) == n.sign \in {"Pos", "Neg"}

\* The digits of a group, all of them ({:04}) or without leading zeros.
Padded(d) == [i \in 1..GroupDigits |-> (d \div 10 ^ (GroupDigits - i)) % 10]

Unpadded(d) ==
  LET first == CHOOSE i \in 1..GroupDigits :
                 /\ i = GroupDigits \/ Padded(d)[i] # 0
                 /\ \A j \in 1..(i - 1) : Padded(d)[j] = 0
  IN  SubSeq(Padded(d), first, GroupDigits)

\* Mutant: groups after the first are written without their leading zeros.
UnpaddedGroups(ds) == FlattenSeq([i \in DOMAIN ds |-> Unpadded(ds[i])])

Written(ds) == FlattenSeq([i \in DOMAIN ds |-> Padded(ds[i])])

Upto(s, k) == SubSeq(s, 1, IF k < Len(s) THEN k ELSE Len(s))

Zeros(k) == [i \in 1..k |-> 0]

\* s cut or filled with zeros to k digits.
Fill(s, k) == [i \in 1..k |-> IF i <= Len(s) THEN s[i] ELSE 0]

Text(n, whole, fraction) == [neg |-> n.sign = "Neg", whole |-> whole, fraction |-> fraction]

\* numeric_to_string, of a finite numeric.
numeric_to_string(n) ==
  LET ds         == n.digits
      nd         == Len(ds)
      int_digits == (n.weight + 1) * GroupDigits
      whole      == n.weight + 1      \* groups before the point
      small      == Zeros(-int_digits) \o Written(Front(ds))
      room       == n.dscale - Len(small)
      last_group == IF n.dscale = 0 THEN Written(<<Last(ds)>>)
                    ELSE Upto(Written(<<Last(ds)>>), room)
      written    == small \o last_group
  IN  CASE nd = 0 -> Text([n EXCEPT !.sign = "Pos"], <<0>>, Zeros(n.dscale))
        [] nd > 0 /\ int_digits <= 0 ->
             Text(n, <<0>>, written \o Zeros(n.dscale - Len(written)))
        [] OTHER ->
             Text(n, Unpadded(ds[1]) \o Written(Tail(Upto(ds, whole)))
                       \o Zeros(GroupDigits * (whole - nd)),
                  Fill(Written(SubSeq(ds, whole + 1, nd)), n.dscale))

\* Mutant: a numeric with zeros at its end loses them.
NoExponent(m, exponent, T) == Ok(T, <<m, IF exponent < 0 THEN -exponent ELSE 0>>)

\* value * 10^exponent as a Decimal <<mantissa, scale>>.
Scaled(m, exponent, T) ==
  CASE exponent > 0 -> Checked(T, Abs(m) * 10 ^ exponent <= MaxMantissa, <<m * 10 ^ exponent, 0>>)
    [] exponent < 0 -> Checked(T, -exponent <= MaxScale, <<m, -exponent>>)
    [] OTHER        -> Ok(T, <<m, 0>>)

\* To the nearest multiple of b, a half to the even one.
NearestEven(a, b) ==
  LET q  == Abs(a) \div b
      r2 == 2 * (Abs(a) % b)
      up == IF r2 > b \/ (r2 = b /\ q % 2 = 1) THEN q + 1 ELSE q
  IN  IF a < 0 THEN -up ELSE up

\* round_dp.
RoundTo(dscale, r) ==
  IF r.is = "Ok" /\ dscale > 0 /\ r.v[2] > dscale
  THEN Ok(r.type, <<NearestEven(r.v[1], 10 ^ (r.v[2] - dscale)), dscale>>)
  ELSE r

\* The digits of a numeric as one number.
Coefficient(n) ==
  LET AppendGroup(v, d) == v * Base + d
  IN  FoldLeft(AppendGroup, 0, n.digits)

\* The same number in an i128 that wraps.
as_i128(v) ==
  LET bits == v % I128Values IN IF 2 * bits >= I128Values THEN bits - I128Values ELSE bits

\* Decimal::from_binary.  An overflow of the i128 panics or wraps, as the build has it;
\* from_i128_with_scale panics when what is in it does not fit a Decimal.
decimal(n) ==
  LET value    == as_i128(Coefficient(n))
      exponent == (n.weight - Len(n.digits) + 1) * GroupDigits
      signed   == IF n.sign = "Neg" THEN -value ELSE value
  IN  CASE n.sign = "NaN"                       -> {Error("Decimal")}
        [] n.sign # "NaN" /\ n.digits = <<>>    -> {Ok("Decimal", <<0, 0>>)}
        [] OTHER ->
             {IF Abs(value) > MaxMantissa THEN Panics("Decimal")
              ELSE RoundTo(n.dscale, Scaled(signed, exponent, "Decimal"))}
             \cup (IF value = Coefficient(n) THEN {} ELSE {Panics("Decimal")})

-----------------------------------------------------------------------------
\* The server sends a row, the program decodes the column and encodes the value.
SendsInteger   == \E oid \in IntegerOids : \E v \in IntegerInputs \cap Signed(Bytes[oid]) :
                    column' = [oid |-> oid, v |-> v]
SendsDate      == \E v \in DayInputs \cap Signed(4) : column' = [oid |-> "DATE", v |-> v]
SendsTime      == \E v \in UsecInputs \cap 0..(SecsPerDay * UsecsPerSec) :
                    column' = [oid |-> "TIME", v |-> v]
SendsTimestamp == \E oid \in {"TIMESTAMP", "TIMESTAMPTZ"} : \E v \in UsecInputs \cap Signed(8) :
                    column' = [oid |-> oid, v |-> v]
SendsNumeric   == \E n \in Numerics : column' = [oid |-> "NUMERIC", v |-> n]

Sends ==
  /\ column = Nothing /\ rust = NotYet
  /\ SendsInteger \/ SendsDate \/ SendsTime \/ SendsTimestamp \/ SendsNumeric
  /\ UNCHANGED <<rust, param, stored>>

\* The program makes an integer itself.
Makes ==
  /\ column = Nothing /\ rust = NotYet
  /\ \E T \in DOMAIN IntegerTypes : \E v \in IntegerInputs \cap IntegerTypes[T] : rust' = Ok(T, v)
  /\ UNCHANGED <<column, param, stored>>

ColumnBytes == to_be_bytes(column.v, Bytes[column.oid])

\* What from_binary may return for the column.
Decoded ==
  CASE column.oid \in IntegerOids -> {decode_integer(T, ColumnBytes, column.oid) : T \in DOMAIN Widening}
    [] column.oid = "DATE" -> {naive_date(ColumnBytes)} \cup time_date(ColumnBytes)
    [] column.oid = "TIME" -> {naive_time(ColumnBytes), time_time(ColumnBytes)}
    [] column.oid \in {"TIMESTAMP", "TIMESTAMPTZ"} ->
         {naive_date_time(T, ColumnBytes) :
            T \in {U \in ChronoTimestamps : column.oid \in TimestampColumns(U)}}
         \cup {time_date_time(T, ColumnBytes) :
            T \in {U \in TimestampTypes \ ChronoTimestamps : column.oid \in TimestampColumns(U)}}
    [] OTHER -> decimal(column.v)

from_binary ==
  /\ column # Nothing /\ rust = NotYet
  /\ rust' \in Decoded
  /\ UNCHANGED <<column, param, stored>>

\* What encode returns for a target.
Encoded(oid) ==
  CASE rust.type \in DOMAIN IntegerTypes /\ oid \in IntegerOids -> encode_integer(rust.type, rust.v, oid)
    [] rust.type \in {"NaiveDate", "Date"} /\ oid = "DATE" -> Ok(oid, to_be_bytes(rust.v, 4))
    [] rust.type \in {"NaiveTime", "Time"} /\ oid = "TIME" -> Ok(oid, to_be_bytes(TimeOfDay(rust), 8))
    [] rust.type \in TimestampTypes /\ oid \in {"TIMESTAMP", "TIMESTAMPTZ"} ->
         Ok(oid, to_be_bytes(Instant(rust), 8))
    [] OTHER -> Error(rust.type)

\* Decimals are sent as text, which the server parses: not modelled.
encode ==
  /\ rust.is = "Ok" /\ rust.type # "Decimal" /\ param = NotYet
  /\ \E oid \in DOMAIN Bytes : param' = Encoded(oid)
  /\ UNCHANGED <<column, rust, stored>>

\* The server reads the parameter.
Stores ==
  /\ param.is = "Ok" /\ stored = Nothing
  /\ stored' = [oid |-> param.type, v |-> from_be_bytes(param.v, Bytes[param.type])]
  /\ UNCHANGED <<column, rust, param>>

ConvInit == column = Nothing /\ rust = NotYet /\ param = NotYet /\ stored = Nothing

ConvNext == Sends \/ Makes \/ from_binary \/ encode \/ Stores

ConvSpec == ConvInit /\ [][ConvNext]_convvars

-----------------------------------------------------------------------------
(***************************************************************************)
(* An integer parameter arrives as the number the program has, whatever    *)
(* its type and the parameter's; it is refused only if the target cannot   *)
(* hold it.                                                                *)
(***************************************************************************)
IntegersKept ==
  rust.is = "Ok" /\ rust.type \in DOMAIN IntegerTypes =>
    /\ stored # Nothing => stored.v = rust.v
    /\ param.is = "Err" =>
         \A oid \in IntegerOids : encode_integer(rust.type, rust.v, oid).is = "Err"
                                    => rust.v \notin Signed(Bytes[oid])

\* The decimal digit of n at 10^p.
DigitAt(n, p) ==
  LET i == n.weight - (p \div GroupDigits) + 1
  IN  IF i \in DOMAIN n.digits THEN (n.digits[i] \div 10 ^ (p % GroupDigits)) % 10 ELSE 0

\* The positions a numeric of the instance may have a digit at.
Positions == -20..20

WholePart(n) ==
  LET AppendGroup(v, d) == v * Base + d
  IN  FoldLeft(AppendGroup, 0, Fill(n.digits, n.weight + 1))

(***************************************************************************)
(* A column is refused only for a value the Rust type does not have (or    *)
(* of a wider integer type): the infinities, the hour 24, the far ends of  *)
(* the calendar, a numeric too long for a Decimal.                         *)
(***************************************************************************)
RefusalsJustified ==
  rust.is = "Err" /\ column # Nothing =>
    CASE column.oid \in IntegerOids -> column.oid \notin Widening[rust.type]
      [] column.oid = "DATE"        -> Abs(column.v) > MaxDays
      [] column.oid = "TIME"        -> column.v = SecsPerDay * UsecsPerSec
      [] column.oid = "NUMERIC"     ->
           \/ ~Finite(column.v) \/ WholePart(column.v) > MaxMantissa
           \/ \E p \in Positions : p < -MaxScale /\ DigitAt(column.v, p) # 0
      [] OTHER                      -> Abs(column.v) > (MaxSecs - 1) * UsecsPerSec

(***************************************************************************)
(* A time or timestamp is decoded as the instant it is, also before        *)
(* 2000-01-01, where quotient and remainder are negative, and with a       *)
(* fraction between zero and a second.  It and any other column that is    *)
(* read and written back is unchanged, unless it goes through a NaiveDate. *)
(***************************************************************************)
CopyIsFaithful ==
  column # Nothing /\ rust.is = "Ok" =>
    /\ column.oid = "TIME" => TimeOfDay(rust) = column.v
    /\ column.oid \in {"TIMESTAMP", "TIMESTAMPTZ"} =>
         Instant(rust) = column.v /\ rust.v[2] \in 0..(UsecsPerSec - 1)
    /\ stored # Nothing /\ rust.type # "NaiveDate" => stored.v = column.v

(***************************************************************************)
(* numeric_to_string writes the digits of the number, each at its place:   *)
(* no leading zero but one before the point, dscale digits behind it.      *)
(***************************************************************************)
NumericTextExact ==
  column.oid = "NUMERIC" =>
    LET n == column.v
        t == numeric_to_string(n)
    IN  Finite(n) =>
          /\ t.neg = (n.sign = "Neg")
          /\ Len(t.fraction) = n.dscale
          /\ \A i \in DOMAIN t.fraction : t.fraction[i] = DigitAt(n, -i)
          /\ \A i \in DOMAIN t.whole : t.whole[i] = DigitAt(n, Len(t.whole) - i)
          /\ Len(t.whole) > 1 => t.whole[1] # 0
          /\ \A p \in Positions : p >= Len(t.whole) => DigitAt(n, p) = 0

\* The Decimal is the same number, digit by digit.
SameNumber ==
  LET m == rust.v[1]
      s == rust.v[2]
  IN  /\ m < 0 <=> column.v.sign = "Neg"
      /\ \A p \in Positions :
           DigitAt(column.v, p) = IF p + s \in 0..8 THEN (Abs(m) \div 10 ^ (p + s)) % 10 ELSE 0

(***************************************************************************)
(* A finite numeric whose digits fit an i128 and that becomes a Decimal is *)
(* the same number, through the scaling and the rounding to its display    *)
(* scale.                                                                  *)
(***************************************************************************)
DecimalExact ==
  column.oid = "NUMERIC" /\ Finite(column.v) /\ rust.is = "Ok" =>
    (as_i128(Coefficient(column.v)) = Coefficient(column.v) => SameNumber)

(***************************************************************************)
(* What the comment in Decimal::from_binary says of every numeric: the     *)
(* value is the sum of digits[i] * 10000^(weight - i).  One of more digits *)
(* than an i128 holds refutes it in a release build; no run checks it: see *)
(* the README.                                                             *)
(***************************************************************************)
DecimalIsSum ==
  column.oid = "NUMERIC" /\ Finite(column.v) /\ rust.is = "Ok" => SameNumber

(***************************************************************************)
(* What the test date_roundtrip of conversion/chrono.rs asserts of one     *)
(* date: a date that was encoded decodes to the same date.                 *)
(***************************************************************************)
ChronoDateKept ==
  column.oid = "DATE" /\ Abs(column.v) <= MaxDays /\ rust.type = "NaiveDate" => rust.v = column.v
=============================================================================
