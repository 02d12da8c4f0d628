SPECIFICATION BillingSpec
CONSTANTS
  Handler = {h1, h2}
  Buyer = {o1}
  TrialEnd = 2
  Period = 1
  LastDate = 2
  MaxPlans = 2
  MaxMessages = 2
INVARIANT EachHandledOnce
CHECK_DEADLOCK FALSE
