CONSTANTS
  main = main
  http = http
  broker = broker
  number = number
  Tasks = {main, http}
  MainTask = main
  HttpTask = http
  Keys = {broker}
  StringKeys = {broker}
  Inputs <- MCInputs
  Fallback <- MCFallback
  Minimum <- MCMinimum
  Maximum <- MCMaximum
  ReadOnly = {}
  RESTART_COUNTER_KEY = restart_counter
  Absent = Absent
  MaxBoots = 3
  MaxCount = 2
SPECIFICATION Spec
INVARIANTS TypeOK AckedSurvives ReadsBackOutsideGap CounterGrows
PROPERTIES CountedOnce ImplementsDurableStore
