CONSTANTS
  s1 = s1
  s2 = s2
  s3 = s3
  p1 = p1
  p2 = p2
  b1 = b1
  b2 = b2
  Thread = {t1, t2}
  Space = {s1, s2, s3}
  Cached = {s1, s2}
  Page = {p1, p2}
  Last = {b1, b2}
  Request <- MCRequest
  Capacity = 2
  MaxLookups = 3
  Nobody = Nobody

SPECIFICATION LookupSpec

CHECK_DEADLOCK FALSE

INVARIANTS
  SlotsAreDistinct
  CacheIsMostRecent
  WarnsOnceWhenFull

PROPERTIES
  LookupsEnd
