SPECIFICATION Spec
CONSTANTS
    Session = {s1, s2}
    Main = Main
    Null = Null
    MaxAsks = 1
    Happens = {"rotate", "finish", "ask", "unplug"}
INVARIANTS
    ServiceHasDriver
    StopSparesNewService
    MainThreadGoesOn
    StartsReachDriver
SYMMETRY Symmetry
CHECK_DEADLOCK FALSE
