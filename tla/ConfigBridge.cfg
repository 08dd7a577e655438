CONSTANTS
  number = number
  secret = secret
  Properties = {number, secret}
  IntProperties = {number}
  Visibility <- MCVisibility
  ReadOnly = {}
  Values <- MCValues
  Writers = {main}
  Loop = loop
  MqttTask = mqtt
  QueueSize = 3
  None = None
SPECIFICATION FairSpec
INVARIANTS TypeOK PublishedFollowsStored
PROPERTIES LoopServesPosts ImplementsConfigMirror OnlyTheLockCycleBlocks
