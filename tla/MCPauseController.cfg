CONSTANTS
  w1 = w1
  w2 = w2
  m1 = m1
  Waiters <- MCWaiters
  Messages <- MCMessages
  NoMessage = NoMessage
  MaxChannels = 3
  MaxRestarts = 1
SPECIFICATION FairSpec
INVARIANTS
  NoStrandedWaiter
  NoDoubleClose
  
  MessageOnlyWhenStopped
PROPERTIES
  ResumeReleasesWaiters
  WaitReturns
CHECK_DEADLOCK FALSE
