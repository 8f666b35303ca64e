CONSTANTS
    Companies = {c}
    Users = {ann}
    Employees = {e1, e2}
    Projects = {}
    Emails = {m}
    Keep = Keep
    None = None
    EmployeePatches <- EmailPatches
    MaxVersion = 2
    Procs = {p1, p2}
SPECIFICATION Spec
SYMMETRY Symmetry
PROPERTIES
    ImplementsAtomic
