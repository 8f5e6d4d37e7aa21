SPECIFICATION Spec
CONSTANTS
  Digests = {d1}
  Encodings = {raw}
  NoRow = NoRow
  NoFile = NoFile
  Readers = {}
  MaxRefs = 1
  MaxId = 2
  Environment = {"rewrite"}
SYMMETRY Symmetry
INVARIANT
  ReferencedPayloadSurvives
