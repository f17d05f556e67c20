SPECIFICATION FairSpec
CONSTANTS
  Session = {s1, s2}
  Nobody = Nobody
  Plugs = 2
INVARIANTS MonitorCounted ListsAreCurrent   CrashHasCause
PROPERTY CallsReturn
CHECK_DEADLOCK FALSE
