\* Three uploads of two parts under five names in a five-slot table.
CONSTANTS
  BlobNames <- MCBlobNames
  Infos = {i1, i2}
  Missing = Missing
  BLOB_TABLE_SIZE = 5
  MaxSets = 3

SPECIFICATION Spec

PROPERTY ImplementsBlobMap
