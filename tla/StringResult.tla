----------------------------- MODULE StringResult -----------------------------
(***************************************************************************)
(* The byte-level path of binary values: binary_value() (MySQL_value.cc)  *)
(* lays out the bytes of a Binary or Varbinary column, or hands a Text    *)
(* value to its blob handle whole; MySQL::result() reads them back with   *)
(* MySQL::String() (length by packing, trailing NULs dropped) or          *)
(* MySQL::Text(), and both pass them through escape_string(), which sizes *)
(* the output in one loop, prepare()s the buffer, and copies in another.  *)
(* A byte is its unsigned value 0..255; a char is that byte read through  *)
(* the build's char type (CharIsSigned, from MySQLCodec).                 *)
(***************************************************************************)
EXTENDS MySQLCodec, Sequences

CONSTANT Escapes  \* the output format's escape table: the bytes with a
                  \* non-null entry, each to its escape (esc[1..esc[0]])

LOCAL SeqX == INSTANCE SequencesExt

Zeros(n) == [i \in 1..n |-> 0]
Shorter(a, b) == IF a < b THEN a ELSE b

(***************************************************************************)
(* binary_value(): m.len = min(value->len, col_len).  Binary copies into  *)
(* an ap_pcalloc()'ed (zeroed) buffer of col_len; Varbinary prefixes the  *)
(* length as one unsigned char; Text keeps the value for setValue() on    *)
(* its blob handle (Plan::Write), which writes all of value->len.          *)
(***************************************************************************)
BinaryAttr(ty, L, v) ==
  LET n == Shorter(Len(v), L)
      w == SubSeq(v, 1, n)
  IN  CASE ty = "Binary"    -> w \o Zeros(L - n)
        [] ty = "Varbinary" -> <<n % 256>> \o w
        [] OTHER            -> v

\* MySQL::result(): the packing its switch passes to MySQL::String().
Packing(ty) ==
  CASE ty = "Binary"    -> "char_fixed"
    [] ty = "Varbinary" -> "char_var"
    [] OTHER            -> "char_longvar"

\* MySQL::String(): sz and ref for each packing (uint2korr is little-endian).
StringRef(packing, a) ==
  CASE packing = "char_fixed" -> a
    [] packing = "char_var"   -> SubSeq(a, 2, 1 + a[1])
    [] OTHER                  -> SubSeq(a, 3, 2 + a[1] + 256 * a[2])

(***************************************************************************)
(* for(int i = sz-1; i >= 0; i--) if (ref[i] == 0) sz--; else break;      *)
(* with 1-based positions: position i is examined while i >= 1.           *)
(***************************************************************************)
ExaminedOffByOne(i) == i >= 2
Examined(i) == i >= 1

RECURSIVE StripFrom(_, _)
StripFrom(ref, i) == IF Examined(i) /\ ref[i] = 0 THEN StripFrom(ref, i - 1) ELSE i

StripNul(ref) == SubSeq(ref, 1, StripFrom(ref, Len(ref)))

(***************************************************************************)
(* escape_string().  The sizing loop indexes escapes[] with ref[i], a     *)
(* char: on a signed build a byte above 127 is a negative index, a read   *)
(* before the table that the code does not define.  Its outcomes are a    *)
(* null entry (one byte counted) or a pointer whose esc[0] is any char    *)
(* value (a negative total stands for the wrapped size_t), so the sizing  *)
(* loop yields the set of sizes the build can prepare().  The copy loop   *)
(* indexes with an unsigned char c and puts esc[1..esc[0]], or c itself.  *)
(***************************************************************************)
AsChar(b) == IF CharIsSigned /\ b >= 128 THEN b - 256 ELSE b

EntrySizes(k) ==
  CASE k < 0                -> {1} \cup (-128..127)
    [] k \in DOMAIN Escapes -> {Len(Escapes[k])}
    [] OTHER                -> {1}

RECURSIVE EscapedSizes(_)
EscapedSizes(ref) ==
  IF ref = <<>> THEN {0}
  ELSE {a + b : a \in EntrySizes(AsChar(Head(ref))), b \in EscapedSizes(Tail(ref))}

Put(c) == IF c \in DOMAIN Escapes THEN Escapes[c] ELSE <<c>>

RECURSIVE EscapeCopy(_)
EscapeCopy(ref) == IF ref = <<>> THEN <<>> ELSE Put(Head(ref)) \o EscapeCopy(Tail(ref))

\* The sizes prepare() may reserve, and the bytes putc() writes.
EscapeString(ref) == [reserved |-> EscapedSizes(ref), out |-> EscapeCopy(ref)]

\* MySQL::result() with an escape table, for a column of type ty holding a:
\* Text reads the whole blob (getLength, readData); the others go through
\* MySQL::String().
Result(ty, a) ==
  IF ty = "Text" THEN EscapeString(a)
  ELSE EscapeString(StripNul(StringRef(Packing(ty), a)))

-----------------------------------------------------------------------------
(***************************************************************************)
(* The contract of spec.md sections 4.2 and 4.3, stated without the       *)
(* code's loops: a binary value is truncated to the declared length, a    *)
(* string decode drops its trailing NUL padding, and the escaping pass    *)
(* substitutes each byte by its escape or passes it through.               *)
(***************************************************************************)
Trimmed(v) ==
  CHOOSE p \in {SubSeq(v, 1, k) : k \in 0..Len(v)} :
    /\ v = p \o Zeros(Len(v) - Len(p))
    /\ p = <<>> \/ p[Len(p)] # 0

Substituted(v) ==
  SeqX!FlattenSeq([i \in DOMAIN v |-> IF v[i] \in DOMAIN Escapes
                                      THEN Escapes[v[i]] ELSE <<v[i]>>])

ExpectedText(ty, L, v) ==
  IF ty = "Text" THEN Substituted(v) ELSE Substituted(Trimmed(SubSeq(v, 1, Shorter(Len(v), L))))

=============================================================================
