SPECIFICATION Spec
CONSTANTS
    Procs = {p1, p2}
    Pids = {k1, k2}
    Racing = TRUE
    Reuse = FALSE
    None = None
SYMMETRY Symmetry
CHECK_DEADLOCK FALSE
INVARIANTS
    Singleton
