SPECIFICATION ScenarioSpec
CONSTANTS
  t1 = t1
  t2 = t2
  t3 = t3
  e1 = e1
  None = None
  Employees = {e1}
  Adjustments = {1}
  LastCycle = 1
  Txns = {t1, t2}
  Earnings <- MCEarnings
  FreshEarnings = 0
  LegacyFigure <- MCAlike
  Proposals <- MCTwoProposals
  ManualAmounts = {1}
  Leavers = {e1}
  Requests = {"payment", "settle", "materialize", "batch", "release"}
SYMMETRY MCSymmetry
INVARIANTS IInv ReservationsCovered BooksInv BooksAgree BooksAgreeElsewhere
PROPERTIES HistoryIsFinal ImplementsObligation
