CONSTANTS
    r1 = r1
    r2 = r2
    p1 = p1
    p2 = p2
    c1 = c1
    c2 = c2
    None = None
    Runs <- OneRun
    Procs <- TwoProcs
    Clients <- OneClient
    MaxForwards = 2
SPECIFICATION Spec
SYMMETRY Symmetry
PROPERTIES
    MarkerRemovedClean
