SPECIFICATION FairSpec
CONSTANTS
  Threads = {t1, t2, t3}
  Items = {x, y}
  m_maxSize = 2
  Calls = {"put", "take", "takeList", "stop"}
INVARIANTS TypeOK TakersNotified PuttersNotStranded WaitersReleased
PROPERTIES ImplementsChannel StopReleases
CHECK_DEADLOCK FALSE
