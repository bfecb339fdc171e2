CONSTANTS
    r1 = r1
    r2 = r2
    p1 = p1
    p2 = p2
    c1 = c1
    c2 = c2
    None = None
    Runs <- OneRun
    Procs <- OneProc
    Clients <- TwoClients
    MaxForwards = 1
SPECIFICATION Spec
INVARIANTS
    RestoredBeforeTeardown
