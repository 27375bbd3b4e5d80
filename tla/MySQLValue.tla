----------------------------- MODULE MySQLValue -----------------------------
(***************************************************************************)
(* The value codec of MySQL_value.cc, at the level the request handler    *)
(* sees it: which variant of the mvalue union MySQL::value() and           *)
(* MySQL::binary_value() select for a column type and a text, and whether *)
(* Query.cc's mval_is_usable() accepts it.  The byte-level encodings of   *)
(* each variant are the subject of the codec modules.                     *)
(***************************************************************************)
EXTENDS Integers, Sequences

CONSTANT NULL    \* a null char* (a key column the request did not supply)

\* NdbDictionary::Column::Type, grouped as MySQL::value() dispatches on them.
CharTypes     == {"Varchar", "Longvarchar", "Char"}
DateTypes     == {"Time", "Date", "Datetime"}
NumericTypes  == {"Int", "Unsigned", "Timestamp", "Float", "Double",
                  "Bigint", "Bigunsigned", "Bit", "Tinyint", "Tinyunsigned",
                  "Smallint", "Smallunsigned", "Mediumint", "Mediumunsigned",
                  "Year", "Decimal", "Decimalunsigned"}
BinaryTypes   == {"Text", "Blob", "Longvarbinary", "Varbinary", "Binary"}
LegacyTypes   == {"Olddecimal", "Olddecimalunsigned"}
ColumnTypes   == CharTypes \cup DateTypes \cup NumericTypes \cup BinaryTypes
                   \cup LegacyTypes

\* The dynamic pseudo-values, recognised only on non-char, non-date columns.
DynamicValues == {"@null", "@++", "@--", "@time", "@autoinc"}

ErrorUses == {"err_bad_column", "err_bad_user_value", "err_bad_data_type"}

\* The use_value a numeric column's switch case selects for a plain text.
NumericUse(type) ==
  CASE type \in {"Int", "Tinyint", "Smallint", "Mediumint"} -> "use_signed"
    [] type \in {"Unsigned", "Timestamp", "Tinyunsigned", "Smallunsigned",
                 "Mediumunsigned", "Year"}                   -> "use_unsigned"
    [] type = "Float"                                        -> "use_float"
    [] type = "Double"                                       -> "use_double"
    [] type = "Bigint"                                       -> "use_64"
    [] type \in {"Bigunsigned", "Bit"}                       -> "use_unsigned_64"
    [] type \in {"Decimal", "Decimalunsigned"}               -> "use_char"
    [] type \in BinaryTypes                                  -> "must_use_binary"
    [] OTHER                                                 -> "err_bad_data_type"

DynamicUse(text) ==
  CASE text = "@null"    -> "use_null"
    [] text = "@time"    -> "use_unsigned"
    [] text = "@autoinc" -> "use_autoinc"
    [] OTHER             -> "use_interpreted"   \* @++ and @--

(***************************************************************************)
(* MySQL::value(m, p, col, val): the use_value it stores in m.  A null    *)
(* column is err_bad_column; char and date columns map a null text to     *)
(* use_null before anything else; every other column rejects a null text,*)
(* then honours the dynamic values, then dispatches on the type.          *)
(***************************************************************************)
UseValue(type, text) ==
  CASE type = NULL                        -> "err_bad_column"
    [] type \in CharTypes                 -> IF text = NULL THEN "use_null"
                                             ELSE "use_char"
    [] type \in DateTypes                 -> IF text = NULL THEN "use_null"
                                             ELSE IF type = "Datetime"
                                                  THEN "use_unsigned_64"
                                                  ELSE "use_signed"
    [] text = NULL                        -> "err_bad_user_value"
    [] text \in DynamicValues             -> DynamicUse(text)
    [] OTHER                              -> NumericUse(type)

\* MySQL::binary_value(): the retry for a must_use_binary value.
BinaryUseValue(type) ==
  CASE type \in {"Text", "Blob"}                       -> "use_blob"
    [] type \in {"Binary", "Varbinary", "Longvarbinary"} -> "use_char"
    [] OTHER                                            -> "err_bad_data_type"

\* The use_value set_up_write() keeps: MySQL::value, retried as binary.
WriteUseValue(type, text) ==
  IF UseValue(type, text) = "must_use_binary" THEN BinaryUseValue(type)
  ELSE UseValue(type, text)

\* Query.cc mval_is_usable(): every use_value but the error kinds.
MvalIsUsable(use) == use \notin ErrorUses

=============================================================================
