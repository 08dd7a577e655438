CONSTANTS
  Requesters = {httpd}
  Handles = {h1, h2}
  Null = Null
  Freed = Freed
SPECIFICATION FairSpec
PROPERTY StartedUpdateRuns
