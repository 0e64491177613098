CONSTANTS
  t1 = t1  t2 = t2  e1 = e1
  None = None
  Employees = {e1}
  Adjustments = {1}
  LastCycle = 1
  Txns = {t1, t2}
  Earnings <- MCEarnings
  FreshEarnings = 0
  LegacyFigure <- MCAlike
  Proposals <- MCProposals
  ManualAmounts = {1}
  Leavers = {}
  Requests = {"settle", "materialize"}
SPECIFICATION Spec
INVARIANT NoDeadlock
