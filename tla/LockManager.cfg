SPECIFICATION FairSpec
CONSTANTS
  Threads = {t1, t2, t3}
  Series = {s1, s2}
  LockIds = {l1, l2, l3}
  Nobody = Nobody
  NoLock = NoLock
INVARIANTS LockInv MutualExclusion NoCrossBlocking
PROPERTIES StableLock ImplementsMutex SeriesProgress
