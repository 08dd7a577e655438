CONSTANTS
  QueueSize = 2
  RESET_WIFI_AFTER_ERROR_COUNT = 2
  CounterRange = 4
  ClientProperties = 1
SPECIFICATION FairSpec
INVARIANTS TypeOK StatusFollows ServicesStarted
PROPERTIES CredentialsKept BootCompletes ProvisioningStarts
