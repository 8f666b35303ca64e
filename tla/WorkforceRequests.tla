------------------------- MODULE WorkforceRequests --------------------------
(***************************************************************************)
(* Employees, projects and what clients ask about them: the vocabulary     *)
(* that Workforce and its abstract specification WorkforceAtomic share.    *)
(***************************************************************************)
EXTENDS Integers, RowLocks

CONSTANTS
    Companies, Users,
    Employees, Projects,    \* ids; that of a deleted row is taken for a new one
    Emails,                 \* normalized work emails
    Keep,                   \* a field that a PATCH does not set
    EmployeePatches,        \* the PATCH bodies that are tried
    MaxVersion              \* largest value of the integer column "version"

EmploymentStatuses == {"active", "leave", "terminated"}
ProjectStatuses == {"planned", "active", "completed", "cancelled"}

\* The columns that rules are about; ended: end_date is not null.
EmployeeData == [status : EmploymentStatuses, ended : BOOLEAN, email : Emails \cup {None}]
EmployeeRows == [company : Companies, version : 1..MaxVersion, data : EmployeeData]
ProjectRows == [company : Companies, version : 1..MaxVersion, status : ProjectStatuses]

\* EmployeeUpdate: any of the columns may be left out.
PatchBodies == [status : EmploymentStatuses \cup {Keep}, ended : BOOLEAN \cup {Keep},
                email : Emails \cup {None, Keep}]

ASSUME PatchesAreBodies == EmployeePatches \subseteq PatchBodies
ASSUME MaxVersionIsPositive == MaxVersion \in Nat \ {0}
ASSUME KeepIsNoValue ==
    /\ Keep \notin EmploymentStatuses /\ Keep \notin ProjectStatuses
    /\ Keep \notin BOOLEAN /\ Keep \notin Emails \cup {None}

\* EmployeeCreate's validator: the terminated, and only they, have an end date.
ValidEmployee(d) == (d.status = "terminated") = d.ended

\* A field of a PATCH, or else the row's.
Either(field, old) == IF field = Keep THEN old ELSE field

\* values | data.model_dump(exclude_unset=True)
Merge(d, patch) ==
    [status |-> Either(patch.status, d.status), ended |-> Either(patch.ended, d.ended),
     email |-> Either(patch.email, d.email)]

\* Mutant: a project that was cancelled can be taken up again.
TransitionReopens(previous, target) ==
    \/ previous = target
    \/ previous = "planned" /\ target \in {"active", "cancelled"}
    \/ previous = "active" /\ target \in {"completed", "cancelled"}
    \/ previous = "cancelled" /\ target = "active"

\* validate_transition.
Transition(previous, target) ==
    \/ previous = target
    \/ previous = "planned" /\ target \in {"active", "cancelled"}
    \/ previous = "active" /\ target \in {"completed", "cancelled"}

\* The projects that people can be assigned to.
Assignable == {"planned", "active"}

Requests ==
         [op : {"createEmployee"}, actor : Users, company : Companies,
          data : {d \in EmployeeData : ValidEmployee(d)}]
    \cup [op : {"updateEmployee"}, actor : Users, company : Companies,
          employee : Employees, version : 1..MaxVersion, patch : EmployeePatches]
    \cup [op : {"deleteEmployee"}, actor : Users, company : Companies,
          employee : Employees, version : 1..MaxVersion]
    \cup [op : {"createProject"}, actor : Users, company : Companies, status : ProjectStatuses]
    \cup [op : {"updateProject"}, actor : Users, company : Companies,
          project : Projects, version : 1..MaxVersion, patch : ProjectStatuses \cup {Keep}]
    \cup [op : {"deleteProject"}, actor : Users, company : Companies,
          project : Projects, version : 1..MaxVersion]
    \cup [op : {"assign", "unassign"}, actor : Users, company : Companies,
          project : Projects, employee : Employees]

=============================================================================
