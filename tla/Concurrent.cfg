SPECIFICATION Spec
CONSTANTS
  Threads = {t1, t2}
  Granule = 100
  MaxUintx = 699
  MetaspaceSize = 200
  MaxMetaspaceSize = 600
  MinMetaspaceExpansion = 100
  MaxMetaspaceExpansion = 200
  MinMetaspaceFreeRatio = 40
  MaxMetaspaceFreeRatio = 70
  Sizes = {60}
  ClassSizes = {300}
  WholeChunk = 200
  BootCommitted = {0, 300}
  ConcurrentUnloading = TRUE
INVARIANTS
  ThresholdInRange
  CommittedWithinMax
