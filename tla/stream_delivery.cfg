\* Both streams: two writers and a reader, an API client or a browser, that loses
\* connections; the client also presents refused cursors, the browser leaves and
\* comes back.  Readers share nothing but the stream they read, so one is enough.
SPECIFICATION FairSpec
CONSTANTS
  Writers = {w1, w2}
  Readers = {r1}
  ReplayBatch = 2
  Window = 2
  MaxEvents = 4
  MaxFailures = 3
  MaxDrops = 3
  NoOne = NoOne
CHECK_DEADLOCK FALSE
INVARIANTS
    GapFree
PROPERTIES
    EverythingDelivered
