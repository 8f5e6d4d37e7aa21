SPECIFICATION Spec
CONSTANTS
  Digests = {d1, d2}
  Encodings = {raw}
  NoRow = NoRow
  NoFile = NoFile
  Readers = {}
  MaxRefs = 2
  MaxId = 3
  Environment = {"maintenance"}
SYMMETRY Symmetry
INVARIANTS
  HotFileAccounted
  ReferencedPayloadSurvives
