SPECIFICATION ScenarioSpec
CONSTANTS
  e1 = e1
  t1 = t1
  t2 = t2
  None = None
  Callers = {t1, t2}
  LastMonth = 2
  LastVersion = 2
  MaxEdits = 0
  MaxCrashes = 1
  DataFiles = {"data"}
  CreatesOverlap = FALSE
  SlowGeneration = FALSE
  LostCommits = FALSE
  Employees = {e1}
  Units = {1, 2, 3}
  SiteOf <- MCSiteOf
  Profiles <- MCProfiles
  Patches <- MCPatches
  Owing = {e1}
  Requests = {"create", "update", "leave", "reconcile"}
  Alone = {"update", "reactivate", "leave", "reconcile", "rollover"}
  FormResubmits = FALSE
  MaxCycle = 1
SYMMETRY MCSymmetry
INVARIANTS EmployeeIsCoherent EntryFollowsEmployee OneCurrentCycle BackupsAreWhole
PROPERTIES LeaversUnpaid ResolvedOutlives PackagesAreFinal
