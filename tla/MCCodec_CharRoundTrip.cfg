\* spec.md section 8's codec contract, checked against MySQL::value() and
\* MySQL::result() on the same columns and texts as MCCodecCell.cfg.
CONSTANTS
  Columns <- MCColumns
  Texts <- MCTexts
  Impls = {"value", "blobfix"}
  CharIsSigned = TRUE
  Escapes <- MCEscapes

SPECIFICATION Spec

INVARIANT CharRoundTrip
