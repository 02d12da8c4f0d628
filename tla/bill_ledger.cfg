SPECIFICATION FairSpec
CONSTANTS
  Bill = {b1, b2}
  Payment = {x1, x2}
  Party = {e1}
  e1 = e1
  Event = {e1}
  Year = {y1}
  Total = {1, 2}
  Amount = {1, 2}
  Request = {p1, p2}
  None = None
  Apart <- KeptApart
INVARIANTS TypeOK NumbersWithoutGaps
PROPERTIES NewBillNotOverpaid Promised EveryRequestEnds
CHECK_DEADLOCK FALSE
