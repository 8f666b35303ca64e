CONSTANTS
    Companies = {1, 2}
    Users = {ann, bob}
    Procs = {p, q}
    MaxVersion = 1
    None = None
SPECIFICATION Spec
SYMMETRY Symmetry
INVARIANTS
    NoWaitCycle
