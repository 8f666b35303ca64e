CONSTANTS
    Companies = {c}
    Users = {ann}
    Employees = {e}
    Projects = {q}
    Emails = {}
    Keep = Keep
    None = None
    EmployeePatches <- StatusPatches
    MaxVersion = 2
    Procs = {p1, p2}
SPECIFICATION Spec
SYMMETRY Symmetry
INVARIANTS
    TypeOK
    AssignmentsAreSound
    StillTrueAtCommit
PROPERTIES
    FinishedStaysFinished
    ImplementsAtomic
