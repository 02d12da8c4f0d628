SPECIFICATION Spec
CONSTANTS
  Form = {f1}
  f1 = f1
  f2 = f2
  l1 = l1
  l2 = l2
  Lead = {l1, l2}
  FormOf <- OneForm
  Job = {j1}
  None = None
  Hour = 1
  Cap = 1
  MaxTime = 4
  MaxOns = 1
  MaxTroubles = 0
  MaxFailures = 1
  Overlapping = FALSE
  Sweeping = {}
INVARIANT NothingOutOfReach
CHECK_DEADLOCK FALSE
