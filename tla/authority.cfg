SPECIFICATION FairSpec
CONSTANTS
  None = None
  Coords = {c1, c2}
  Threads = {t1}
  MaxPauses = 2
  MaxFaults = 2
INVARIANT ReleasedBetweenClosures
PROPERTIES FencingImplemented SupersededWindsDown AuthorityRecovers ShutdownEnds
CHECK_DEADLOCK FALSE
