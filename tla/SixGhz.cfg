SPECIFICATION Spec
INVARIANT SixGhzTuned
