SPECIFICATION Spec
CONSTANTS
    Daemons = {d1}
    Shells = {c1}
    MaxFailures = 1
    None = None
INVARIANTS
    StopConfirmed
