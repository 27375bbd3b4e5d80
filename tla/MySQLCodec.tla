------------------------------ MODULE MySQLCodec ------------------------------
(***************************************************************************)
(* The value codec at the byte level, for the char, integer and temporal  *)
(* column types: MySQL::value() encodes a request text into the bytes     *)
(* Plan::Write hands to setValue() (the low bytes of the mvalue union, or *)
(* the length-prefixed buffer), and MySQL::result() (blobfix/             *)
(* MySQL_Field.cc) renders the stored attribute back as text.  Two        *)
(* encoders exist: MySQL_value.cc ("value") and the older sibling in      *)
(* blobfix/MySQL_Field.cc ("blobfix"); they differ in how a temporal text *)
(* is reduced to digits.                                                   *)
(*                                                                         *)
(* A text is abstracted to what the conversions read from it:             *)
(*   Num(v)        a decimal numeral of v, |v| < 2^31;                    *)
(*   Big(i, neg, huge)  a numeral outside int range: i is its low 32 bits *)
(*                 as an int, huge that it is also outside long range;    *)
(*   Str(n, sp)    n non-NUL characters followed by sp spaces;            *)
(*   Date, Time, DateTime  zero-padded fields joined by the separator sep;*)
(*   Bytes(v)      the raw bytes v of a multipart upload (StringResult).  *)
(***************************************************************************)
EXTENDS Integers, Bitwise

CONSTANT CharIsSigned   \* the build's char signedness (implementation-defined)

Num(v)          == [kind |-> "num", f |-> <<v>>, sep |-> ""]
Big(i, neg, hg) == [kind |-> "big", f |-> <<i, neg, hg>>, sep |-> ""]
Str(n, sp)      == [kind |-> "str", f |-> <<n, sp>>, sep |-> ""]
Date(y, mo, d, sep)   == [kind |-> "date", f |-> <<y, mo, d>>, sep |-> sep]
Time(ng, h, mi, s, sep) == [kind |-> "time", f |-> <<ng, h, mi, s>>, sep |-> sep]
Bytes(v)        == [kind |-> "bytes", f |-> v, sep |-> ""]
DateTime(y, mo, d, h, mi, s, sep) ==
  [kind |-> "datetime", f |-> <<y, mo, d, h, mi, s>>, sep |-> sep]

StringTypes   == {"Varchar", "Longvarchar", "Char"}
ClampedTypes  == {"Tinyint", "Tinyunsigned", "Smallint", "Smallunsigned",
                  "Mediumint", "Mediumunsigned"}
NumberTypes   == ClampedTypes \cup {"Int", "Year"}
TemporalTypes == {"Date", "Time", "Datetime"}
BinaryTypes   == {"Binary", "Varbinary", "Text"}

\* The kinds of text a column of each type is written with.
TextKinds(type) ==
  CASE type \in StringTypes -> {"str"}
    [] type \in NumberTypes -> {"num", "big"}
    [] type = "Date"        -> {"date"}
    [] type = "Time"        -> {"time"}
    [] type \in BinaryTypes -> {"bytes"}
    [] OTHER                -> {"datetime"}

\* The clamping bounds of MySQL_value.cc 283-324, and the stored widths.
Lo(type) == CASE type = "Tinyint" -> -128 [] type = "Smallint" -> -32768
               [] type = "Mediumint" -> -8388608 [] OTHER -> 0
Hi(type) == CASE type = "Tinyint" -> 127 [] type = "Tinyunsigned" -> 255
               [] type = "Smallint" -> 32767 [] type = "Smallunsigned" -> 65535
               [] type = "Mediumint" -> 8388607 [] OTHER -> 16777215
Width(type) ==
  CASE type \in {"Tinyint", "Tinyunsigned", "Year"}  -> 8
    [] type \in {"Smallint", "Smallunsigned"}        -> 16
    [] type \in {"Mediumint", "Mediumunsigned", "Date", "Time"} -> 24
    [] OTHER                                         -> 32

\* The low w bits of a C integer, as setValue() copies them (w < 32; the
\* low bits of a difference depend only on the low bits of its terms), and
\* the signed reading of w bits (sint3korr, a signed char or short).
Bits(x, w)   == x % (2^w)
SignedNoExtend(b, w) == b
Signed(b, w) == IF b >= 2^(w - 1) THEN b - 2^w ELSE b

(***************************************************************************)
(* int aux = strtol(val, 0, 0) (and atoi): the long result, converted to  *)
(* int, keeps its low 32 bits; a numeral outside long range saturates to  *)
(* LONG_MAX or LONG_MIN, whose low 32 bits are -1 and 0.                   *)
(***************************************************************************)
AsInt(t) ==
  CASE t.kind = "num" -> t.f[1]
    [] t.f[3]         -> IF t.f[2] THEN 0 ELSE -1
    [] OTHER          -> t.f[1]

\* The clamp of the tiny, small and medium cases, and the over flag it sets.
Clamp(type, x)   == IF x < Lo(type) THEN Lo(type) ELSE IF x > Hi(type) THEN Hi(type) ELSE x
Clamped(type, x) == x < Lo(type) \/ x > Hi(type)

(***************************************************************************)
(* The digit run of a temporal text, from which strtol()/strtoull() read. *)
(* MySQL_value.cc keeps a leading sign and every digit; the blobfix       *)
(* encoder drops only ':', '-', '/' and ' ', so another separator ends    *)
(* the number after its first field.  A datetime's run is kept as the     *)
(* pair <<date digits, time digits>> (its value is date * 10^6 + time).   *)
(***************************************************************************)
Whitelist == {":", "-", "/", " "}

TemporalRun(impl, t) ==
  LET f    == t.f
      cut  == impl = "blobfix" /\ t.sep \notin Whitelist
      hms  == f[2] * 10000 + f[3] * 100 + f[4]
  IN  CASE t.kind = "date"     -> IF cut THEN f[1] ELSE f[1] * 10000 + f[2] * 100 + f[3]
        [] t.kind = "time"     -> (IF f[1] THEN -1 ELSE 1) * (IF cut THEN f[2] ELSE hms)
        [] OTHER               ->
             IF cut THEN <<0, f[1]>>
             ELSE <<f[1] * 10000 + f[2] * 100 + f[3], f[4] * 10000 + f[5] * 100 + f[6]>>

\* yymmdd decomposed as year/month/day and packed (year<<9 | month<<5 | day).
PackDate(yymmdd) ==
  LET y == (yymmdd \div 10000) % 10000
      m == (yymmdd \div 100) % 100
      d == yymmdd % 100
  IN  (y * 2^9) | (m * 2^5) | d

(***************************************************************************)
(* MySQL::value(m, p, col, val) for one column [type, len] and text t:    *)
(* the attribute setValue() stores, and the over flag.  Char columns hold *)
(* Str(chars, spaces): Varchar's length goes through an unsigned char,    *)
(* Longvarchar's through an unsigned short, before the clamp to the       *)
(* column length; Char copies and pads with spaces to the column length.  *)
(***************************************************************************)
Encoded(a, over) == [attr |-> a, over |-> over]

\* strlen(), and the first k characters (ap_cpystrn) of a string text.
StrLen(t) == t.f[1] + t.f[2]
Prefix(t, k) == LET c == IF t.f[1] > k THEN k ELSE t.f[1] IN Str(c, k - c)

\* The string length kept: "if(len > col->getLength()) len = ...".
ColumnLenUnclamped(n, L) == n
ColumnLen(n, L) == IF n > L THEN L ELSE n

EncodeValue(impl, col, t) ==
  LET ty == col.type
      L  == col.len
      x  == AsInt(t)
  IN  CASE ty = "Varchar"     -> Encoded(Prefix(t, ColumnLen(StrLen(t) % 256, L)), FALSE)
        [] ty = "Longvarchar" -> Encoded(Prefix(t, ColumnLen(StrLen(t) % 65536, L)), FALSE)
        [] ty = "Char"        -> LET p == Prefix(t, ColumnLen(StrLen(t), L))
                                 IN  Encoded(Str(p.f[1], L - p.f[1]), FALSE)
        [] ty = "Int"         -> Encoded(x, FALSE)
        [] ty = "Year"        -> Encoded(Bits(Bits(x, 8) - 1900, 8), FALSE)
        [] ty \in ClampedTypes ->
             Encoded(Bits(Clamp(ty, x), Width(ty)), Clamped(ty, x))
        [] ty = "Date"        -> Encoded(Bits(PackDate(TemporalRun(impl, t)), 24), FALSE)
        [] ty = "Time"        -> Encoded(Bits(TemporalRun(impl, t), 24), FALSE)
        [] OTHER              -> Encoded(TemporalRun(impl, t), FALSE)

\* MySQL::value() of blobfix/MySQL_Field.cc: the same string, integer and
\* year cases as MySQL_value.cc; its temporal digit filter is the only
\* difference for the types modelled here (TemporalRun).
EncodeBlobfix(col, t) == EncodeValue("blobfix", col, t)

(***************************************************************************)
(* MySQL::result(): the text rendered from a stored attribute.  String()  *)
(* reads the length prefix (or the fixed size) and drops trailing NULs;   *)
(* the integer cases read the attribute at its width and sign; field_to_tm*)
(* unpacks dates by bit field and times and datetimes by decimal digits.  *)
(***************************************************************************)
FactorHHMMSSNoNegate(it) ==
  <<it < 0, it \div 10000, (it \div 100) % 100, it % 100>>
FactorHHMMSS(it) ==
  LET a == IF it < 0 THEN -it ELSE it
  IN  <<it < 0, a \div 10000, (a \div 100) % 100, a % 100>>

\* field_to_tm() for a Time: int_time = -99 is also its "no time" marker,
\* so a stored -99 is left as the zeroed MYSQL_TIME.
TimeFields(it) == IF it = -99 THEN <<FALSE, 0, 0, 0>> ELSE FactorHHMMSS(it)

FactorYYYYMMDD(id) == <<(id \div 10000) % 10000, (id \div 100) % 100, id % 100>>

Decode(col, a) ==
  LET ty == col.type IN
  CASE ty \in StringTypes   -> a
    [] ty = "Int"           -> Num(a)
    [] ty = "Tinyint"       -> Num(IF CharIsSigned THEN Signed(a, 8) ELSE a)
    [] ty = "Smallint"      -> Num(Signed(a, 16))
    [] ty = "Smallunsigned" -> Num(Signed(a, 16) % 2^16)
    [] ty = "Mediumint"     -> Num(Signed(a, 24))
    [] ty = "Year"          -> Num(1900 + a)
    [] ty \in NumberTypes   -> Num(a)
    [] ty = "Date"          -> Date(shiftR(a, 9), shiftR(a, 5) & 15, a & 31, "-")
    [] ty = "Time"          ->
         LET hms == TimeFields(Signed(a, 24))
         IN  Time(hms[1], hms[2], hms[3], hms[4], ":")
    [] OTHER                ->
         LET ymd == FactorYYYYMMDD(a[1] + a[2] \div 1000000)
             hms == FactorHHMMSS(a[2] % 1000000)
         IN  DateTime(ymd[1], ymd[2], ymd[3], hms[2], hms[3], hms[4], "-")

=============================================================================
