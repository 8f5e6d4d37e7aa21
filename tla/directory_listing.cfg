SPECIFICATION ListingSpec
CONSTANT
  DirHandles = {h1}
  NameCount = 4
  PageLimit = 2
INVARIANT ListedOnce
