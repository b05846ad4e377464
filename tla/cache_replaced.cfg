SPECIFICATION Spec
CONSTANTS
  t1 = t1  t2 = t2  i1 = i1  i2 = i2
  a = a  b = b  c = c  d = d  long = long
  None = None
  Threads = {t1, t2}
  Inputs = {i1, i2}
  Surfaces = {a, b, c, d, long}
  Unfit = {long}
  Conversions <- Firsts
  Results <- SomeResults
  IncludeContext = FALSE
  MaxInitFailures = 2
  MaxContextHistory = 1
  MaxCandidatesToAdd = 2
  MaxQueueSize = 1
INVARIANT CacheStays
