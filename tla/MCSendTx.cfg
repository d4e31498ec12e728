SPECIFICATION FairSpec
CONSTANTS
  s1 = s1  s2 = s2
  Foreign = Foreign
  Sends = {s1, s2}
  Nonces = {1, 2}
  Locals = {TRUE, FALSE}
  Attempts = 2
  Lag = 1
  MaxSpent = 1
INVARIANTS PaidOnce OkIsPaid AutoNonceFits
PROPERTY EverySendIsAnswered
CHECK_DEADLOCK FALSE
