SPECIFICATION Spec
CONSTANTS
  Digests = {d1}
  Encodings = {raw}
  NoRow = NoRow
  MaxRefs = 2
INVARIANTS
  TypeOK
  TwoRunsRepair
  RefusedOnlyInOutage
PROPERTIES
  LastGoodCopyKept
  ColdClaimsKept
