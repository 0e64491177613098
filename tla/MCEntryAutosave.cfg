SPECIFICATION ScenarioSpec
CONSTANTS
  v1 = v1
  v2 = v2
  half = half
  over = over
  nothing = nothing
  Keys <- MCTwoKeys
  Lines = {1}
  Values = {v1, v2}
  Unfinished = {}
  Refused = {}
  NoValue = nothing
  MaxMounts = 2
  MaxAutoRetries = 1
  Careful = {"reload", "cycleDays"}
  MaxEdits = 2
  MaxLineEdits = 0
  MaxForeign = 1
  MaxLost = 1
  MaxClicks = 1
INVARIANTS LastEditIsKept PendingShown
CHECK_DEADLOCK FALSE
