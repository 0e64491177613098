SPECIFICATION ScenarioSpec
CONSTANTS
  e1 = e1
  t1 = t1
  t2 = t2
  None = None
  Entries = {e1}
  Units = {1, 2, 3}
  SiteOf <- MCSiteOf
  Lines = {1, 2}
  MaxDays = 2
  Bases = {1, 2}
  Rates = {0, 1}
  Callers = {t1, t2}
  MaxVersion = 1
  BulkOverlaps = FALSE
SYMMETRY MCSymmetry
INVARIANTS EntryIsWhole
PROPERTIES WorkIsKept NothingOverwritten
