------------------------------- MODULE CodecCell -------------------------------
(***************************************************************************)
(* One column of one row, written through the codec and read back: a POST *)
(* encodes its form text with MySQL::value() (either encoder) and         *)
(* Plan::Write stores the bytes; a GET renders them with MySQL::result(); *)
(* a client may write back the text it read.  Binary, Varbinary and Text  *)
(* columns are written by a multipart upload (binary_value()) and read    *)
(* through the output format's escapes (StringResult).  The properties    *)
(* compare what                                                            *)
(* is read with what spec.md's codec contract (sections 4 and 8) says.    *)
(***************************************************************************)
EXTENDS StringResult

CONSTANTS
  Columns,   \* column descriptors [type, len]
  Texts,     \* the texts clients send (Num, Big, Str, Date, Time, DateTime)
  Impls      \* the MySQL::value implementations built: "value", "blobfix"

VARIABLES
  col,       \* the column's descriptor (fixed)
  cell,      \* <<the stored attribute>>, or <<>> before the first write
  over,      \* m.over of the last write
  written,   \* history: the text of the last write, or NoText
  shown      \* the text the last read rendered, or NoText

vars == <<col, cell, over, written, shown>>

\* No text (a record, so that TLC compares it with texts).
NoText == [kind |-> "none", f |-> <<>>, sep |-> ""]

\* The attribute setValue() may hand NDB for a column: a Char buffer of
\* exactly len characters, a Varchar of at most len, the column's width.
AttrFits(c, a) ==
  CASE c.type = "Char"        -> a.kind = "str" /\ StrLen(a) = c.len
    [] c.type \in StringTypes -> a.kind = "str" /\ StrLen(a) <= c.len
    [] c.type = "Binary"      -> Len(a) = c.len
    [] c.type = "Varbinary"   -> Len(a) >= 1 /\ a[1] = Len(a) - 1 /\ a[1] <= c.len
    [] c.type = "Text"        -> a \in Seq(0..255)
    [] c.type = "Int"         -> a \in Int
    [] c.type = "Datetime"    -> a \in Nat \X Nat
    [] OTHER                  -> a \in 0..(2^Width(c.type) - 1)

TypeOK ==
  /\ col \in Columns
  /\ over \in BOOLEAN
  /\ written = NoText \/ written.kind \in TextKinds(col.type)
  /\ shown = NoText \/ shown.kind \in TextKinds(col.type)
  /\ (cell = <<>>) = (written = NoText)
  /\ cell = <<>> \/ AttrFits(col, cell[1])

Init ==
  /\ col \in Columns
  /\ cell = <<>> /\ over = FALSE
  /\ written = NoText /\ shown = NoText

\* A POST whose form sets the column to t (Plan::Write, use_value not an
\* error); a binary column's value comes from binary_value().
Store(impl, t) ==
  LET m == CASE col.type \in BinaryTypes -> Encoded(BinaryAttr(col.type, col.len, t.f), FALSE)
             [] impl = "blobfix"        -> EncodeBlobfix(col, t)
             [] OTHER                   -> EncodeValue(impl, col, t) IN
  /\ cell' = <<m.attr>>
  /\ over' = m.over
  /\ written' = t
  /\ shown' = NoText
  /\ UNCHANGED col

Write ==
  \E t \in Texts, impl \in Impls : t.kind \in TextKinds(col.type) /\ Store(impl, t)

\* A GET of the row: MySQL::result() on the column's NdbRecAttr.
Read ==
  /\ cell # <<>>
  /\ shown' = IF col.type \in BinaryTypes THEN Bytes(Result(col.type, cell[1]).out)
               ELSE Decode(col, cell[1])
  /\ UNCHANGED <<col, cell, over, written>>

\* A client POSTs back the text it read (with the current encoder).  A
\* binary column's text is in the output format's escaped form, which the
\* client decodes before any upload; that decoding is not modelled.
WriteBack ==
  /\ shown # NoText
  /\ col.type \notin BinaryTypes
  /\ Store("value", shown)

Next == Write \/ Read \/ WriteBack

Spec == Init /\ [][Next]_vars

-----------------------------------------------------------------------------
\* The texts a column of each type holds exactly (spec.md section 4): a
\* number in the type's range, at most len characters, a valid date, a
\* time within MySQL's +-838:59:59, a year 1900..2155, and separators both
\* encoders accept.
InRange(c, t) ==
  LET f == t.f IN
  CASE c.type \in StringTypes -> StrLen(t) <= c.len
    [] c.type \in BinaryTypes -> TRUE
    [] c.type = "Int"         -> t.kind = "num"
    [] c.type = "Year"        -> t.kind = "num" /\ f[1] \in 1900..2155
    [] c.type \in NumberTypes -> t.kind = "num" /\ f[1] \in Lo(c.type)..Hi(c.type)
    [] c.type = "Date"        -> t.sep \in Whitelist /\ f[1] \in 0..9999
                                 /\ f[2] \in 1..12 /\ f[3] \in 1..31
    [] c.type = "Time"        -> t.sep \in Whitelist /\ f[2] <= 838
                                 /\ f[3] <= 59 /\ f[4] <= 59
    [] OTHER                  -> t.sep \in Whitelist /\ f[1] \in 0..9999
                                 /\ f[2] \in 1..12 /\ f[3] \in 1..31
                                 /\ f[4] <= 23 /\ f[5] <= 59 /\ f[6] <= 59

\* The text a read returns for text t, as the contract states it:
\* pad_or_truncate for strings, the clamped value for the clamped integer
\* types, the value itself otherwise, temporal values in canonical form.
Expected(c, t) ==
  LET f == t.f
      L == c.len
      p == Prefix(t, IF StrLen(t) > L THEN L ELSE StrLen(t))
  IN  CASE c.type = "Char"          -> Str(p.f[1], L - p.f[1])
        [] c.type \in StringTypes   -> p
        [] c.type \in BinaryTypes   -> Bytes(ExpectedText(c.type, L, f))
        [] c.type \in ClampedTypes  ->
             Num(IF t.kind = "num" THEN Clamp(c.type, f[1])
                 ELSE IF f[2] THEN Lo(c.type) ELSE Hi(c.type))
        [] c.type \in NumberTypes   -> Num(f[1])
        [] c.type = "Date"          -> Date(f[1], f[2], f[3], "-")
        [] c.type = "Time"          -> Time(f[1] /\ f[2] + f[3] + f[4] > 0,
                                            f[2], f[3], f[4], ":")
        [] OTHER                    -> DateTime(f[1], f[2], f[3], f[4], f[5], f[6], "-")

\* A numeral outside the type's range (by its true value, not its int image).
OutOfRange(c, t) ==
  IF t.kind = "num" THEN Clamped(c.type, t.f[1]) ELSE TRUE

Written == written # NoText
Shown   == shown # NoText

(***************************************************************************)
(* Properties.                                                             *)
(***************************************************************************)

\* A value in the column's range reads back as written, whichever encoder
\* wrote it: the length prefix, the integer widths and signs, the date bit
\* fields and the time and datetime digit groups of MySQL::value() agree
\* with MySQL::result()'s reading of them.
RoundTrip ==
  (Written /\ Shown /\ InRange(col, written)) => shown = Expected(col, written)

\* Writing back the text a GET returned stores the same bytes: a client's
\* read-modify-write of another column never changes this one, even for
\* values the codec wrapped or clamped.
WriteBackStable == [][WriteBack => cell' = cell]_vars

\* spec.md section 8: decode(encode(s)) = pad_or_truncate(s, declared
\* length) for every character column and every s, shorter or longer.
CharRoundTrip ==
  (col.type \in StringTypes /\ Written /\ Shown) => shown = Expected(col, written)

\* spec.md section 8: a clamped integer type stores the boundary for a
\* value beyond [min, max] and sets the overflow flag, and only then.
ClampToBoundary ==
  (col.type \in ClampedTypes /\ Written) =>
    /\ over = OutOfRange(col, written)
    /\ Shown => shown = Expected(col, written)

=============================================================================
