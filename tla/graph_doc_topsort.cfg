SPECIFICATION Spec
CONSTANTS
    Vertex = {a, b}
    None = None
    MaxEdges = 1
CHECK_DEADLOCK FALSE
INVARIANT DocTopsort
