SPECIFICATION Spec
CONSTANTS
    Procs = {p1, p2}
    Names = {z}
    v1 = v1
    v2 = v2
    v3 = v3
    s = s
    t = t
    Versions <- MCVersions
    Stamps <- MCStamps
    StampOf <- MCStampOf
    MaxSelects = 2
    MaxChanges = 2
    MaxFaults = 1
    None = None
SYMMETRY Symmetry
INVARIANTS
    InstalledAsSelected
    OneInstaller
    InstalledOnce
    RefusedRightly
