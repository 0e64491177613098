SPECIFICATION ScenarioSpec
CONSTANTS
  e1 = e1
  e2 = e2
  r1 = r1
  r2 = r2
  r3 = r3
  ann = ann
  bob = bob
  None = none
  Users = {ann, bob}
  Requests = {r1, r2, r3}
  Entries = {e1, e2}
  Split = {e2}
  Fields <- MCFields
  LineFields <- MCLineFields
  Figures <- MCFigures
  Original <- MCOriginal
  Net <- MCNet
  Answers <- MCAnswers
  Overlap = TRUE
  MaxClock = 3
SYMMETRY MCSymmetry
INVARIANT RequestsSettle
PROPERTY DecisionsAreFinal
CHECK_DEADLOCK FALSE
