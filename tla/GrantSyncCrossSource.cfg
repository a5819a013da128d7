\* A grant a second source lists after the first listing was changed.
CONSTANTS
    s1 = s1  s2 = s2  s3 = s3  e1 = e1  e2 = e2  w1 = w1  w2 = w2
    t1 = t1  t2 = t2  d1 = d1  india = india
    Unknown = unknown  Empty = Empty  NoDate = NoDate  Absent = Absent
    Source = {s1, s2}
    BadConnector = {}
    Ext = {e1}
    Text = {t1, t2, d1, india, unknown}
    Worker = {w1}
    Feed <- RaceFeed
    MaxNow = 1
    MaxSyncs = 3
SPECIFICATION Spec
CHECK_DEADLOCK FALSE
PROPERTIES CrossSourceDuplicateCaught
