SPECIFICATION CaptureSpec
CONSTANTS
  w1 = w1  w2 = w2  c1 = c1
  Writers = {w1, w2}
  Conns = {c1}
  ConnOf <- OneFile
  StoreCap = 1
  Rotate = 1
  Retention = 1
  MaxEvents = 4
  t1 = t1  t2 = t2
  Taps = {t1, t2}
  Readers = {r1, r2}
  Count <- TwoAndOne
  Events <- AllEvents
  Cap = 2
  NoEvent = NoEvent
  QueueCap = 1
  MaxLogSize = 1
  MaxLogFiles = 1
  MaxRecent = 2
  Seconds <- TwoSeconds
  MaxEntries = 6
  MaxFaults = 1
INVARIANTS CaptureTypeOK  LatestIsLatest StreamInOrder LostOnlyWhenFull 
PROPERTIES ImplementsLog
CHECK_DEADLOCK FALSE
