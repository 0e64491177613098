SPECIFICATION EndsSpec
CONSTANTS
  t1 = t1
  t2 = t2
  e1 = e1
  r1 = r1
  v1 = v1
  None = None
  Employees = {e1}
  Units = {1}
  SiteOf <- AllAtA
  Profiles <- Somebody
  Patches <- NoChange
  Owing = {e1}
  Callers = {t1, t2}
  Requests = {"leave", "import", "manual", "reconcile"}
  Alone = {}
  FormResubmits = FALSE
  MaxCycle = 1
PROPERTIES RequestsEnd WaitingEnds
CHECK_DEADLOCK FALSE
