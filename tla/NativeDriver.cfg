SPECIFICATION FairSpec
CONSTANTS
    Session = {s1, s2}
    Stopper = {m1}
    Null = Null
    Happens = {"connect", "unplug", "stall"}
INVARIANTS
    TypeOK
PROPERTY StopEndsReception
CHECK_DEADLOCK FALSE
