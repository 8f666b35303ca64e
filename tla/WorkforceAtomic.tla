-------------------------- MODULE WorkforceAtomic ---------------------------
(***************************************************************************)
(* What the employees and projects components promise their clients: a     *)
(* request takes effect in one step between question and answer, on the    *)
(* rows of that moment and only if its actor may write then; the answers   *)
(* "created" (201), "ok" and "email" (the address is taken) are true then; *)
(* and a request that fails changes nothing.  There are no locks and no    *)
(* rows that were read earlier.                                            *)
(***************************************************************************)
EXTENDS WorkforceRequests

CONSTANT Procs

VARIABLES live, writers, employee, project, assigned, req, reply

tables == <<live, writers, employee, project, assigned>>
vars == <<tables, req, reply>>

HasProject(r) == project[r.project] # None /\ project[r.project].company = r.company
HasEmployee(r) == employee[r.employee] # None /\ employee[r.employee].company = r.company

\* The employees of the request's company, apart from e, who have the address.
Namesakes(r, e, email) ==
    {f \in Employees \ {e} : /\ employee[f] # None /\ employee[f].company = r.company
                             /\ employee[f].data.email = email}

Init ==
    /\ live = Companies
    /\ writers \in [Companies -> SUBSET Users]
    /\ employee = [e \in Employees |-> None]
    /\ project = [q \in Projects |-> None]
    /\ assigned = {}
    /\ req = [p \in Procs |-> None]
    /\ reply = [p \in Procs |-> "none"]

-----------------------------------------------------------------------------
(* Employees.                                                              *)

CreateEmployee(r) ==
    /\ r.op = "createEmployee"
    /\ \E e \in Employees :
        /\ employee[e] = None
        /\ r.data.email # None => Namesakes(r, e, r.data.email) = {}
        /\ employee' = [employee EXCEPT ![e] =
                            [company |-> r.company, version |-> 1, data |-> r.data]]
    /\ UNCHANGED <<live, writers, project, assigned>>

\* Who is terminated by the change leaves every project.
UpdateEmployee(r) ==
    LET e == r.employee  data == Merge(employee[e].data, r.patch) IN
    /\ r.op = "updateEmployee" /\ HasEmployee(r)
    /\ employee[e].version = r.version /\ r.version < MaxVersion
    /\ ValidEmployee(data)
    /\ data.email # None => Namesakes(r, e, data.email) = {}
    /\ employee' = [employee EXCEPT ![e] =
                        [company |-> r.company, version |-> r.version + 1, data |-> data]]
    /\ assigned' = {a \in assigned : a[3] = e => data.status # "terminated"}
    /\ UNCHANGED <<live, writers, project>>

DeleteEmployee(r) ==
    /\ r.op = "deleteEmployee" /\ HasEmployee(r)
    /\ employee[r.employee].version = r.version
    /\ employee' = [employee EXCEPT ![r.employee] = None]
    /\ assigned' = {a \in assigned : a[3] # r.employee}
    /\ UNCHANGED <<live, writers, project>>

\* The address of the new or the changed employee is somebody else's.
EmailConflict(r) ==
    \/ r.op = "createEmployee" /\ r.data.email # None
       /\ \E e \in Employees : employee[e] = None /\ Namesakes(r, e, r.data.email) # {}
    \/ r.op = "updateEmployee" /\ HasEmployee(r)
       /\ LET email == Merge(employee[r.employee].data, r.patch).email
          IN  email # None /\ Namesakes(r, r.employee, email) # {}

-----------------------------------------------------------------------------
(* Projects and assignments.                                               *)

CreateProject(r) ==
    /\ r.op = "createProject"
    /\ \E q \in Projects :
        /\ project[q] = None
        /\ project' = [project EXCEPT ![q] =
                            [company |-> r.company, version |-> 1, status |-> r.status]]
    /\ UNCHANGED <<live, writers, employee, assigned>>

UpdateProject(r) ==
    LET q == r.project  status == Either(r.patch, project[q].status) IN
    /\ r.op = "updateProject" /\ HasProject(r)
    /\ project[q].version = r.version /\ r.version < MaxVersion
    /\ Transition(project[q].status, status)
    /\ project' = [project EXCEPT ![q] =
                        [company |-> r.company, version |-> r.version + 1, status |-> status]]
    /\ UNCHANGED <<live, writers, employee, assigned>>

DeleteProject(r) ==
    /\ r.op = "deleteProject" /\ HasProject(r)
    /\ project[r.project].version = r.version
    /\ project' = [project EXCEPT ![r.project] = None]
    /\ assigned' = {a \in assigned : a[2] # r.project}
    /\ UNCHANGED <<live, writers, employee>>

Row(r) == <<r.company, r.project, r.employee>>

\* A new assignment; of two concurrent requests for it one creates it.
Assign(r) ==
    /\ r.op = "assign" /\ HasProject(r) /\ HasEmployee(r)
    /\ Row(r) \notin assigned
    /\ employee[r.employee].data.status = "active"
    /\ project[r.project].status \in Assignable
    /\ assigned' = assigned \cup {Row(r)}
    /\ UNCHANGED <<live, writers, employee, project>>

Assigned(r) == r.op = "assign" /\ Row(r) \in assigned /\ UNCHANGED tables

Unassign(r) ==
    /\ r.op = "unassign" /\ HasProject(r) /\ HasEmployee(r)
    /\ assigned' = assigned \ {Row(r)}
    /\ UNCHANGED <<live, writers, employee, project>>

-----------------------------------------------------------------------------
(* Requests and their answers.                                             *)

Ask(p) ==
    \E r \in Requests :
        /\ req[p] = None
        /\ req' = [req EXCEPT ![p] = r]
        /\ reply' = [reply EXCEPT ![p] = "none"]
        /\ UNCHANGED tables

Answer(p, a) ==
    /\ req[p] # None
    /\ req' = [req EXCEPT ![p] = None]
    /\ reply' = [reply EXCEPT ![p] = a]

Authorized(r) == r.company \in live /\ r.actor \in writers[r.company]

Serve(p) ==
    LET r == req[p] IN
    /\ req[p] # None
    /\ Authorized(r)
    /\ \/ Answer(p, "created") /\ Assign(r)
       \/ Answer(p, "email") /\ EmailConflict(r) /\ UNCHANGED tables
       \/ /\ Answer(p, "ok")
          /\ \/ CreateEmployee(r) \/ UpdateEmployee(r) \/ DeleteEmployee(r)
             \/ CreateProject(r) \/ UpdateProject(r) \/ DeleteProject(r)
             \/ Assigned(r) \/ Unassign(r)

Fail(p) == Answer(p, "error") /\ UNCHANGED tables

\* The companies component gives and takes roles, and deletes companies.
ChangeAccess(c) ==
    /\ c \in live
    /\ \E W \in SUBSET Users : writers' = [writers EXCEPT ![c] = W]
    /\ UNCHANGED <<live, employee, project, assigned, req, reply>>

DeleteCompany(c) ==
    /\ c \in live
    /\ live' = live \ {c}
    /\ writers' = [writers EXCEPT ![c] = {}]
    /\ employee' = [e \in Employees |-> IF employee[e] # None /\ employee[e].company = c
                                          THEN None ELSE employee[e]]
    /\ project' = [q \in Projects |-> IF project[q] # None /\ project[q].company = c
                                        THEN None ELSE project[q]]
    /\ assigned' = {a \in assigned : a[1] # c}
    /\ UNCHANGED <<req, reply>>

Next ==
    \/ \E p \in Procs : Ask(p) \/ Serve(p) \/ Fail(p)
    \/ \E c \in Companies : ChangeAccess(c) \/ DeleteCompany(c)

Spec == Init /\ [][Next]_vars

=============================================================================
