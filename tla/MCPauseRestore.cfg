CONSTANTS
  w1 = w1
  w2 = w2
  m1 = m1
  Waiters <- MCWaiters
  Messages <- MCMessages
  NoMessage = NoMessage
  MaxChannels = 3
  MaxRestarts = 1
SPECIFICATION Spec
INVARIANT
  ResumeSucceeds
CHECK_DEADLOCK FALSE
