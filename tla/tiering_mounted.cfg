SPECIFICATION Spec
CONSTANTS
  Digests = {d1}
  Encodings = {raw}
  NoRow = NoRow
  NoFile = NoFile
  Readers = {r1}
  MaxRefs = 2
  MaxId = 2
  Environment = {"outage", "rollback", "crash"}
SYMMETRY Symmetry
INVARIANTS
  TypeOK
  ReferencedPayloadSurvives
  ColdIndexTruthful
  RepairsFit
PROPERTY
  ReadFailsOnlyIfOvertaken
