CONSTANTS
    Groups = {g}
    Labels = {active, leave}
    Ids = {1, 2, 3}
    Writers = {w1, w2}
    Limits = {1, 2}
    MaxTime = 1
    None = None
SPECIFICATION Spec
SYMMETRY Symmetry
INVARIANTS
    StrictlyDescending
    NothingSkipped
