SPECIFICATION StoreFairSpec
CONSTANT
  Threads = {t1, t2, t3, t4}
  Connections = {c1, c2}
  NoConnection = NoConnection
  MaxAccesses = 1
INVARIANTS
  StoreTypeOK
  NoLostWakeup
  OneWriterInSQLite
  WaitersAreServed
PROPERTIES
  LockProgress
  AccessesCounted
