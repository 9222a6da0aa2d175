SPECIFICATION FairSpec
CONSTANTS
  c1 = c1
  c2 = c2
  Client <- MCClient
  MaxEvents = 2
  EventCap = 1
  QueueCap = 1
  StreamCap = 1
  MaxFailures = 1
INVARIANTS TypeOK NoSilentMiss
PROPERTIES NobodyHeldUp GoneRemoved
\* all is quiet when no events come
CHECK_DEADLOCK FALSE
