SPECIFICATION Spec
CONSTANTS
  Form = {f1}
  f1 = f1
  f2 = f2
  l1 = l1
  l2 = l2
  Lead = {l1, l2, l3}
  FormOf <- OneForm
  Job = {j1, j2}
  None = None
  Hour = 0
  Cap = 1
  MaxTime = 2
  MaxOns = 1
  MaxTroubles = 0
  MaxFailures = 0
  Overlapping = FALSE
  Sweeping = {j2}
SYMMETRY SameForm
INVARIANTS TypeOK NothingOutOfReach
CHECK_DEADLOCK FALSE
