------------------------------ MODULE MCCodecCell ------------------------------
(***************************************************************************)
(* CodecCell for TLC: one column of each modelled type (strings declared  *)
(* three characters long), and texts at and around every boundary the     *)
(* code has: the column length, 256 and 65536 for the length prefixes,    *)
(* each clamped type's range, the int and long range of strtol()'s result,*)
(* the eight-bit year, the packed date's bit fields, the 24-bit time, and *)
(* a separator the blobfix encoder does not drop.                          *)
(***************************************************************************)
EXTENDS CodecCell, TLC

MCColumns ==
  {[type |-> ty, len |-> 3] : ty \in {"Varchar", "Longvarchar", "Char"}}
  \cup {[type |-> ty, len |-> 0] :
          ty \in NumberTypes \cup TemporalTypes}
  \cup {[type |-> ty, len |-> 2] : ty \in BinaryTypes}

MCStrings == {Str(0, 0), Str(2, 0), Str(3, 0), Str(1, 2), Str(5, 0),
              Str(256, 0), Str(258, 0), Str(65537, 0)}

\* Numerals in int range, and beyond it: 2^32 (low bits 0), 2^31 (its int
\* image is INT_MIN), -2^32 + 5 (image 5), and 10^20 (saturates LONG_MAX).
MCNumbers ==
  {Num(v) : v \in {0, -1, 127, 128, -129, 255, 256, 32767, 40000, -32769,
                   65536, 8388607, 8388608, -8388609, 16777216, 1899, 1900,
                   2155, 2156}}
  \cup {Big(0, FALSE, FALSE), Big(-2147483647 - 1, FALSE, FALSE),
        Big(5, TRUE, FALSE), Big(0, FALSE, TRUE)}

MCTemporals ==
  {Date(2009, 1, 15, "-"), Date(0, 1, 1, "/"), Date(9999, 12, 31, "-"),
   Date(2009, 1, 15, "."), Date(2010, 20, 1, "-"),
   Time(FALSE, 10, 30, 0, ":"), Time(TRUE, 838, 59, 59, ":"),
   Time(TRUE, 0, 0, 0, ":"), Time(FALSE, 839, 0, 0, ":"),
   Time(FALSE, 10, 30, 0, "."),
   DateTime(2009, 1, 15, 10, 30, 0, "-"), DateTime(2009, 1, 15, 10, 30, 0, ".")}


\* A JSON-like escape table: '"' and '\\' are backslash-escaped, NUL is
\* written as \0, and CR is dropped (an empty escape, esc[0] = 0).
MCEscapes == (34 :> <<92, 34>>) @@ (92 :> <<92, 92>>) @@ (0 :> <<92, 48>>) @@ (13 :> <<>>)

\* Every sequence of up to three bytes over NUL, CR, '"', 'A' and '\\':
\* shorter than, equal to and longer than the two-byte columns, with NULs
\* leading, embedded and trailing.
MCBinaryValues == {Bytes(v) : v \in UNION {[1..n -> {0, 13, 34, 65, 92}] : n \in 0..3}}

MCTexts == MCStrings \cup MCNumbers \cup MCTemporals \cup MCBinaryValues

=============================================================================
