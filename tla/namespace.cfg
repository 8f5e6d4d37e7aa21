SPECIFICATION Spec
CONSTANTS
  Names = {a, b}
  Handles = {h1, h2}
  MaxInode = 4
  NoInode = NoInode
  RemoveBetween = FALSE
SYMMETRY Symmetry
INVARIANTS
  TypeOK
  LinkCountExact
  DirectoryTree
  UnlinkedInodesCleaned
  HandlesKeepTheirFile

