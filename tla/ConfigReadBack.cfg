CONSTANTS
  main = main
  http = http
  broker = broker
  number = number
  Tasks = {main, http}
  MainTask = main
  HttpTask = http
  Keys = {broker, number}
  StringKeys = {broker}
  Inputs <- MCInputsAtLimit
  Fallback <- MCFallback
  Minimum <- MCMinimum
  Maximum <- MCMaximum
  ReadOnly = {number}
  RESTART_COUNTER_KEY = restart_counter
  Absent = Absent
  MaxBoots = 2
  MaxCount = 2
SPECIFICATION Spec
INVARIANT ReadsBack
