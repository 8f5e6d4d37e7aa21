SPECIFICATION HooksFairSpec
CONSTANT
  Workers = {t1, t2}
  Digests = {d1, d2, d3}
  Stuck = {}
  Budget = 2
  HotMax = 2
  HotMin = 1
  Environment = {}
PROPERTY
  LowWatermarkReached
