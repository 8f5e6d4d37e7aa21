SPECIFICATION Spec
CONSTANTS
  Threads = {t1, t2}
  ChunkSize = 2
  Bytes = {1, 2}
  MaxSize = 5
  CreateBesideWrites = FALSE
  NoPlan = NoPlan
SYMMETRY Symmetry
INVARIANTS
  TypeOK
  ReadsExact
PROPERTY
  ImplementsByteFile
