SPECIFICATION MCFairSpec
CONSTANTS
  biz1 = biz1
  biz2 = biz2
  l1 = l1
  l2 = l2
  t1 = t1
  t2 = t2
  Business = {biz1}
  Lead = {l1, l2}
  Task = {t1, t2}
  None = None
  MaxTries = 2
  AmbiguousTries = 1
  PerPage = 1
  Answers = {"ok","token","not_found","transient","rate_limit"}
  MaxUpsets = 2
  Plays <- RetryPlays
  Casts <- RetryCasts
PROPERTIES KeepsThePromise WaitingLeadSettles
CHECK_DEADLOCK FALSE
