SPECIFICATION FairSpec
CONSTANTS
  a = a  b = b  c = c  t1 = t1  t2 = t2
  None = None
  Threads = {t1}
  Surfaces = {a, b, c}
  Junk = {c}
  Requests <- AllRequests
  Replies <- AnyReplies
  Enabled = TRUE
  LogEnabled = TRUE
  HookMode = FALSE
  GuardOn = TRUE
  StrictGuard = TRUE
  CandCap = 3
  DegradedCap = 2
  ContextChars = 3
  DegradedChars = 2
  DegradeAfter = 1
INVARIANTS
  TypeOK
  CandidatesKept
  FailSafeOrder
  ReturnTellsChange
  GuardStopsAtTierThree
PROPERTIES
  RewriteReturns
  Recovers
