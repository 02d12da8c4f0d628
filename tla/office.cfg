SPECIFICATION OfficeSpec
CONSTANTS
  Person = {m, w}
  Boss = {m}
  Nobody = nobody
  Priority = {"normal"}
  Counting = {"first_time"}
  LastDay = 2
  MaxHandIns = 2
  MaxMoved = 1
  Maker = {m1, m2}
  Rule = {r1}
  Falls <- MCFalls
  LastRepeat = 3
  Settled = TRUE
  Server = {s1}
  Flusher = {f1, f2}
  Staff = {staff}
  Owner = owner
  NoOne = noone
  LastTime = 2
  Unhurried = TRUE
  ItemList <- MCItemList
  Discount = {0, 1, 5000, 3001}
  Percent = {0, 10}
  PlanList <- MCPlanList
  MaxEdits = 2
  Payout = {p1, p2}
  Expense = {e1, e2}
  Amount = {1, 2}
  OnlyVendors = TRUE
  Link = {l1, l2, l3}
  Request = {q1, q2}
  Unraced = TRUE
  Handler = {h1, h2}
  Buyer = {o1}
  TrialEnd = 2
  Period = 1
  LastDate = 2
  MaxPlans = 1
  MaxMessages = 3
  Sender = {g1, g2}
  Number = {n1}
  NoNumber = nonumber
  MaxLeads = 2
  Seller = {k1, k2}
  FirstOwner = k0
  FormWindow = 1
  MetaWindow = 2
  LastMorning = 1
  MaxByHand = 1
INVARIANTS OfficeTypeOK ClockStops CheckedMeansMade OnceADay MarkedMeansTold BuzzesOnce InvoiceAddsUp PaidIsSpent NoWayBack HandledAtMostOnce
PROPERTIES BonusOnlyUnreturned DecisionsStand SavingChangesNothing LetsInOnce DueIsTold OneLeadPerNumber FewestFirst
CHECK_DEADLOCK FALSE
