SPECIFICATION Spec
CONSTANTS
  Owners = {o1, o2}
  MaxOffset = 3
  None = None
  Idle = Idle
  ReleaseBetween = FALSE
SYMMETRY Symmetry
INVARIANTS
  TypeOK
  LocksDisjoint
  RefusalsJustified
PROPERTY
  ImplementsByteLocks
