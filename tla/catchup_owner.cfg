SPECIFICATION FairSpec
CONSTANTS
  Form = {f1}
  f1 = f1
  f2 = f2
  l1 = l1
  l2 = l2
  Lead = {l1, l2}
  FormOf <- OneForm
  Job = {j1}
  None = None
  Hour = 1
  Cap = 1
  MaxTime = 3
  MaxOns = 2
  MaxTroubles = 1
  MaxFailures = 1
  Overlapping = FALSE
  Sweeping = {}
CONSTRAINT InOrder
INVARIANT NothingFromWhileOff
PROPERTY CaughtUp
CHECK_DEADLOCK FALSE
