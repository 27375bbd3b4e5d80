\* Both encoders, every modelled column type, texts at every boundary, on
\* a build where char is signed: in-range values round-trip, and writing
\* back what was read never changes the stored bytes; uploaded binary
\* values read back through a JSON-like escape table.
CONSTANTS
  Columns <- MCColumns
  Texts <- MCTexts
  Impls = {"value", "blobfix"}
  CharIsSigned = TRUE
  Escapes <- MCEscapes

SPECIFICATION Spec

INVARIANT TypeOK
INVARIANT RoundTrip
PROPERTY WriteBackStable
