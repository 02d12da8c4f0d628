SPECIFICATION Spec
CONSTANTS
  Form = {f1}
  f1 = f1
  f2 = f2
  l1 = l1
  l2 = l2
  Lead = {l1, l2}
  FormOf <- OneForm
  Job = {j1}
  None = None
  Hour = 1
  Cap = 1
  MaxTime = 4
  MaxOns = 2
  MaxTroubles = 0
  MaxFailures = 0
  Overlapping = TRUE
  Sweeping = {}
INVARIANT NothingFromWhileOff
CHECK_DEADLOCK FALSE
