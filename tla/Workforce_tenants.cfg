CONSTANTS
    Companies = {c1, c2}
    Users = {ann}
    Employees = {e}
    Projects = {q}
    Emails = {}
    Keep = Keep
    None = None
    EmployeePatches <- TenantPatches
    MaxVersion = 2
    Procs = {p1}
SPECIFICATION Spec
PROPERTIES
    ImplementsAtomic
