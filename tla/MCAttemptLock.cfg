SPECIFICATION FairSpec
CONSTANTS
  Procs = {p1, p2, p3}
INVARIANT NoLostWakeup
PROPERTIES IsRWLock WaitersServed WritersNotStarved
