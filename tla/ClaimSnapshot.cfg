CONSTANTS
  t1 = t1  t2 = t2  e1 = e1
  None = None
  Employees = {e1}
  Adjustments = {1}
  LastCycle = 1
  Txns = {t1}
  Earnings <- MCEarnings
  FreshEarnings = 0
  LegacyFigure <- MCAlike
  Proposals <- MCProposals
  ManualAmounts = {1}
  Leavers = {}
  Requests = {"release"}
SPECIFICATION Spec
INVARIANT SnapshotAgrees
