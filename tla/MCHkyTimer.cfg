CONSTANTS
    e1 = e1  e2 = e2  e3 = e3  e4 = e4
    c1 = c1  c2 = c2  c3 = c3  c4 = c4  c5 = c5
    c6 = c6  c7 = c7  c8 = c8  c9 = c9  c10 = c10  c11 = c11
    Nodes <- MCNodes
    Active <- MCActive
    Rearmed <- MCRearmed
    Crowds <- MCCrowds
    Sentinel = Sentinel
    NULL = NULL
    Half = 6
    Delays = {0, 2}
    Lazy = 2
    Late = 1
SPECIFICATION Spec
SYMMETRY NodeSymmetry
INVARIANTS Balanced WalkInOrder
PROPERTIES QueueSpec
