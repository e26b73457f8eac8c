SPECIFICATION Spec
CONSTANTS
    None = None
    Sessions = {s1, s2}
    Contexts = {c1, c2, c3}
    MaxFailures = 1
SYMMETRY Alike
CHECK_DEADLOCK FALSE
INVARIANTS EndpointSound MemoryOutlivesUse
PROPERTY CommandsProved
