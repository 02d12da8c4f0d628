SPECIFICATION Spec
CONSTANTS
  Quote = {q1, q2}
  Lead = {l1}
  q1 = q1
  q2 = q2
  l1 = l1
  p1 = p1
  p2 = p2
  LeadOf <- OneLead
  Event = {e1, e2}
  Total = {1, 2}
  Request = {p1, p2}
  None = None
  Plays <- TwoAtOnce
  Alone = {}
PROPERTIES AnsweredForGood
CHECK_DEADLOCK FALSE
