\* Sources synced one after the other, every shape of record: what a re-sync may do.
CONSTANTS
    s1 = s1  s2 = s2  s3 = s3  e1 = e1  e2 = e2  w1 = w1  w2 = w2
    t1 = t1  t2 = t2  d1 = d1  india = india
    Unknown = unknown  Empty = Empty  NoDate = NoDate  Absent = Absent
    Source = {s1, s2, s3}
    BadConnector = {s3}
    Ext = {e1, e2}
    Text = {t1, t2, d1, india, unknown}
    Worker = {w1}
    Feed <- SerialFeed
    MaxNow = 2
    MaxSyncs = 2
SPECIFICATION Spec
CHECK_DEADLOCK FALSE
SYMMETRY SourcesAlike
INVARIANTS TypeOK StampsOrdered HashNamesRow
PROPERTIES NoSecondCopy
