CONSTANTS
    Companies = {1}
    Users = {ann, bob}
    Procs = {p, q}
    MaxVersion = 2
    None = None
SPECIFICATION Spec
SYMMETRY Symmetry
INVARIANTS
    TypeOK
    ExactlyOneOwner
    OwnerIsActive
    BackstopSilent
    StillTrueAtCommit
PROPERTIES
    ImplementsAtomic
