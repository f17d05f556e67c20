SPECIFICATION FairSequentialSpec
CONSTANTS
    Session = {s1, s2, s3}
    Stopper = {m1}
    Null = Null
    Happens = {"connect", "unplug", "stall"}
INVARIANTS
    ThreadsUseOwnSession
    SessionReleased
    ReceivesAsSetUp
PROPERTY StopReturns
CHECK_DEADLOCK FALSE
