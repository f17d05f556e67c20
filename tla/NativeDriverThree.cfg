SPECIFICATION Spec
CONSTANTS
    Session = {s1, s2, s3}
    Stopper = {}
    Null = Null
    Happens = {"connect"}
INVARIANT OneAdapterReceiving
SYMMETRY Symmetry
CHECK_DEADLOCK FALSE
