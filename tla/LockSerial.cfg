SPECIFICATION Spec
CONSTANTS
    Procs = {p1, p2, p3, p4}
    Pids = {k1, k2, k3}
    Racing = FALSE
    Reuse = TRUE
    None = None
SYMMETRY Symmetry
INVARIANTS
    Singleton
    Findable
    RefusedByOwnPid
PROPERTIES
    HolderKeepsLock
