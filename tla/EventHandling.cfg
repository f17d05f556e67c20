SPECIFICATION FairSpec
CONSTANTS
  t1 = t1
  t2 = t2
  t3 = t3
  Thread = {t1, t2, t3}
  Reader = {t1, t2}
  Timed = {t1}
  Nobody = Nobody
  Rounds = 1
  Interrupts = 1
INVARIANTS PipeMatchesFlags SleeperHasWaker PollsAllDevices ClosedNotPolled
PROPERTIES TransferReturns CloseReturns
CHECK_DEADLOCK FALSE
