SPECIFICATION MCSpec
CONSTANTS
  biz1 = biz1
  biz2 = biz2
  l1 = l1
  l2 = l2
  t1 = t1
  t2 = t2
  Business = {biz1, biz2}
  Lead = {l1}
  Task = {t1, t2}
  None = None
  MaxTries = 2
  AmbiguousTries = 1
  PerPage = 1
  Answers = {"ok","permission","rate_limit"}
  MaxUpsets = 2
  Plays <- OwnerPlays
  Casts <- OwnerCasts
INVARIANT NoLeadWaitsOnAnOffPage
CHECK_DEADLOCK FALSE
