CONSTANTS
  n1 = n1
  n2 = n2
  Subscribers = {s1, s2}
  GroupScoped = {s1}
  Creators = {loop, main}
  EventLoop = loop
  MqttTask = mqtt
  Names = {n1}
  Settings <- MCSettings
  NoTopic = NoTopic
  None = None
SPECIFICATION Spec
INVARIANT CommandsReachCallback
