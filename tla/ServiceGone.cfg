SPECIFICATION Spec
CONSTANTS
    Session = {s1, s2}
    Main = Main
    Null = Null
    MaxAsks = 1
    Happens = {"rotate", "connect"}
INVARIANT ServiceKeepsDriver
SYMMETRY Symmetry
CHECK_DEADLOCK FALSE
