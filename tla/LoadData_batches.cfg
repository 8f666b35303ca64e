SPECIFICATION Spec
CONSTANTS
    None = None
    Generators = {g1, g2}
    Profiles <- MCProfiles
    BatchSize = 40
SYMMETRY Symmetry
INVARIANTS
    LoadedByOne
    SuccessIsComplete
    AssignmentsAreSound
    PoolIsUsable
PROPERTIES
    RejectedOnlyByAnother
