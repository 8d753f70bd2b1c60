SPECIFICATION Spec
CONSTANTS
  Threads = {t1, t2}
  Granule = 100
  MaxUintx = 9999
  MetaspaceSize = 200
  MaxMetaspaceSize = 800
  MinMetaspaceExpansion = 100
  MaxMetaspaceExpansion = 200
  MinMetaspaceFreeRatio = 40
  MaxMetaspaceFreeRatio = 70
  Sizes = {60, 300}
  ClassSizes = {}
  WholeChunk = 200
  BootCommitted = {0, 300}
  ConcurrentUnloading = FALSE
INVARIANT
  OutOfMemoryMeansFull
