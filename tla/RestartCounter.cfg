CONSTANTS
  main = main
  http = http
  broker = broker
  number = number
  Tasks = {main, http}
  MainTask = main
  HttpTask = http
  Keys = {}
  StringKeys = {}
  Inputs <- MCInputs
  Fallback <- MCFallback
  Minimum <- MCMinimum
  Maximum <- MCMaximum
  ReadOnly = {}
  RESTART_COUNTER_KEY = restart_counter
  Absent = Absent
  MaxBoots = 3
  MaxCount = 4
SPECIFICATION Spec
INVARIANT AlreadyIncremented
