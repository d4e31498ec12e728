SPECIFICATION FairSpec
CONSTANTS
  t1 = t1  t2 = t2  client = client
  Nobody = Nobody
  stranger = stranger
  Threads = {t1, t2}
  Addresses = {client, stranger}
  Access = {client}
  MaxAttempts = 1
  Penalty = 1
  MaxFailures = 2
  MaxOpen = 1
  Settings <- SomeOrNothing
INVARIANTS NoFailureLost NoUseAfterFree
PROPERTIES LockedOutWaits SignalEndsProgram LockoutEnds
CHECK_DEADLOCK FALSE
