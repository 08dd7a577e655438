CONSTANTS
  sys = sys
  cfg = cfg
  app = app
  Modules = {sys, cfg, app}
  Handlers <- MCHandlers
  MaxUriHandlers = 4
  Main = main
  Loop = loop
  NoModule = NoModule
  ClockRange = 24
  RollOver = 8
  Delays = {0, 2, 4}
  MaxGap = 2
  Horizon = 12
  READ_BUFFER_SIZE = 3
  MaxSize = 3
  HeapSize = 4
SPECIFICATION PartsSpec
INVARIANTS PartsTypeOK EveryEndpointServed NotLate MemoryReturned AnsweredOnce
PROPERTIES NeverEarly PulsesShown HandlerAdvances LedKeepsBlinking RequestEnds
