CONSTANTS
  Requesters = {httpd, mqtt}
  Handles = {h1, h2}
  Null = Null
  Freed = Freed
SPECIFICATION FairSpec
INVARIANTS TypeOK NoUseAfterFree NoHandleLeaked OutcomeIsTrue RefusesForAReason
PROPERTIES ImplementsUpdateService WorkEnds AcceptedUpdateRuns
