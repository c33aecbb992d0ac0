SPECIFICATION FairSpec
CONSTANTS
  r1 = r1
  r2 = r2
  r3 = r3
  r4 = r4
  None = None
  Requests <- MCRequests
  TooLong <- MCTooLong
  Workers = 3
  ChanCap = 2
  PollEvery = 2
  MaxInterrupts = 2
PROPERTY ResponseArrives
CHECK_DEADLOCK FALSE
