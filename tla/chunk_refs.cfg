SPECIFICATION Spec
CONSTANTS
  Digests = {d1, d2}
  Encodings = {raw}
  NoRow = NoRow
  NoBlock = NoBlock
  Files = {f1, f2}
  MaxIndex = 1
SYMMETRY Symmetry
INVARIANTS
  TypeOK
  RefcountExact
  GarbageMarkedExactly
  RowsLegal
  EveryFileCanBeEmptied
