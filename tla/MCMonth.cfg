SPECIFICATION ScenarioSpec
CONSTANTS
  t1 = t1
  t2 = t2
  t3 = t3
  e1 = e1
  e2 = e2
  e3 = e3
  None = None
  Employees = {e3}
  Advances = {1}
  Payees = {e1, e2}
  Units = {1, 2, 3}
  SiteOf <- MCSites
  Callers = {t1, t2}
  MaxVersion = 1
  Edits = {"hold"}
  Waiting = {}
  Types = {"LOAN"}
  LastMonth = 2
  Terms <- MCTerms
  Totals = {1, 3}
  Figures <- MCPaid
  ManualAmounts = {1}
  Leavers = {}
  Txns = {t1, t2}
  Requests = {"create", "edit", "cancel", "defer", "release"}
  Alone = {"create", "rollover"}
SYMMETRY MCSymmetry
INVARIANTS CollectedOnce AdvanceBooksAgree SweepMatchesUnits
PROPERTIES ClosedStays DeductionsSettle SweptAsShown AllReleased
