SPECIFICATION ScenarioSpec
CONSTANTS
  ann = ann
  bob = bob
  cid = cid
  t1 = t1
  keep = keep
  nobody = nobody
  Users = {ann, bob, cid}
  Managers = {ann, bob}
  Tasks = {t1}
  Keep = keep
  Nobody = nobody
  Overlap = FALSE
  MaxNotes = 4
INVARIANTS AssigneeWasTold DatedIsCompleted OverlapsTold
PROPERTIES EveryoneTold
