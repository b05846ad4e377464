SPECIFICATION FairSpec
CONSTANTS
  a = a  b = b  c = c  t1 = t1  t2 = t2
  None = None
  Threads = {t1}
  Surfaces = {a, b, c}
  Junk = {c}
  Requests <- CallRequests
  Replies <- OneReply
  Enabled = TRUE
  LogEnabled = TRUE
  HookMode = TRUE
  GuardOn = TRUE
  StrictGuard = TRUE
  CandCap = 3
  DegradedCap = 2
  ContextChars = 3
  DegradedChars = 2
  DegradeAfter = 5
PROPERTY RewriteReturns
