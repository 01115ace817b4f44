\* Three IDs against two entries, so the eviction path is taken; the clock
\* runs long enough for entries to expire (SeenTTL = 1) and be reused.
CONSTANTS
    Ids = {i1, i2, i3}
    NoId = NoId
    Capacity = 2
    SeenTTL = 1
    MaxTime = 3
SPECIFICATION Spec
INVARIANTS TypeOK NoDuplicateLive
PROPERTIES ImplementsDedupWindow
