SPECIFICATION MCSpec
CONSTANTS
  Draft = {d1, d2, d3}
  ByNode = {d1, d2}
  Failures = {"write", "read"}
  Restarts = TRUE
  Subscriber = {s1, s2}
  Plain = {p, t}
  Critical = {c}
  Unserialisable = {t}
  QueueMax = 2
  Threshold = 2
  MaxPublished = 4
INVARIANT TypeOK AllowedOnlyByApproval RecordedDecisionsArrive EventsInOrder
PROPERTY EveryCallEnds PendingIsFlushed
CHECK_DEADLOCK FALSE
