----------------------------- MODULE Workforce ------------------------------
(***************************************************************************)
(* Employees, projects and assignments, as changed by app/employees and    *)
(* app/projects.  As in CompanyAccess every request is one transaction at  *)
(* READ COMMITTED whose statements interleave with those of the others; a  *)
(* transaction's writes are one action with its COMMIT.                    *)
(*                                                                         *)
(* Every use case begins by locking the company.  What the companies       *)
(* component does meanwhile is here as it was shown to be there: access    *)
(* changes and deletions of companies, each one step that waits for the    *)
(* company's lock.                                                         *)
(***************************************************************************)
EXTENDS WorkforceRequests

CONSTANT Procs                  \* concurrent requests

ASSUME NoneIsNothing ==
    /\ None \notin Procs /\ None \notin Requests
    /\ None \notin EmployeeRows /\ None \notin ProjectRows

VARIABLES
    live,                       \* companies that have a row
    writers,                    \* the owner and the admins of a company
    employee, project,          \* the rows by id, None: no row
    assigned,                   \* project_employees, by primary key
    companyLock, projectLock, employeeLock,
    req, step, reply,
    readProject, readEmployee   \* the rows as the locking statements returned them

tables == <<live, writers, employee, project, assigned>>
locks == <<companyLock, projectLock, employeeLock>>
memory == <<readProject, readEmployee>>
vars == <<tables, locks, req, step, reply, memory>>

-----------------------------------------------------------------------------
(* Data.                                                                   *)

ProjectOf(c, q) == q \in Projects /\ project[q] # None /\ project[q].company = c

\* Mutant: the row is looked up by its id alone.
EmployeeOfAny(c, e) == e \in Employees /\ employee[e] # None

EmployeeOf(c, e) == e \in Employees /\ employee[e] # None /\ employee[e].company = c

\* Mutant: the index is missing.
EmailNeverTaken(c, e, email) == FALSE

\* uq_employee_company_email: somebody else in the company has the address.
EmailTaken(c, e, email) ==
    /\ email # None
    /\ \E other \in Employees \ {e} : EmployeeOf(c, other) /\ employee[other].data.email = email

\* The statement after authorize.
AfterAuthorize(op) ==
    CASE op \in {"createEmployee", "createProject"} -> "commit"
      [] op \in {"updateEmployee", "deleteEmployee"} -> "lockEmployee"
      [] OTHER -> "lockProject"

TypeOK ==
    /\ live \subseteq Companies
    /\ writers \in [Companies -> SUBSET Users]
    /\ employee \in [Employees -> EmployeeRows \cup {None}]
    /\ project \in [Projects -> ProjectRows \cup {None}]
    /\ assigned \subseteq Companies \X Projects \X Employees
    /\ \A e \in Employees : employee[e] # None =>
          employee[e].company \in live /\ ValidEmployee(employee[e].data)
    /\ \A q \in Projects : project[q] # None => project[q].company \in live
    /\ companyLock \in [Companies -> Procs \cup {None}]
    /\ projectLock \in [Projects -> Procs \cup {None}]
    /\ employeeLock \in [Employees -> Procs \cup {None}]
    /\ req \in [Procs -> Requests \cup {None}]
    /\ step \in [Procs -> {"idle", "find", "lockCompany", "authorize", "lockProject",
                           "lockEmployee", "existing", "commit"}]
    /\ reply \in [Procs -> {"none", "ok", "created", "email", "conflict", "error"}]
    /\ readProject \in [Procs -> ProjectRows \cup {None}]
    /\ readEmployee \in [Procs -> EmployeeRows \cup {None}]

Init ==
    /\ live = Companies
    /\ writers \in [Companies -> SUBSET Users]
    /\ employee = [e \in Employees |-> None]
    /\ project = [q \in Projects |-> None]
    /\ assigned = {}
    /\ companyLock = [c \in Companies |-> None]
    /\ projectLock = [q \in Projects |-> None]
    /\ employeeLock = [e \in Employees |-> None]
    /\ req = [p \in Procs |-> None]
    /\ step = [p \in Procs |-> "idle"]
    /\ reply = [p \in Procs |-> "none"]
    /\ readProject = [p \in Procs |-> None]
    /\ readEmployee = [p \in Procs |-> None]

-----------------------------------------------------------------------------
(* Beginning and ending a request.                                         *)

Goto(p, s) == step' = [step EXCEPT ![p] = s]

Begin(p) ==
    \E r \in Requests :
        /\ step[p] = "idle"
        /\ req' = [req EXCEPT ![p] = r]
        /\ reply' = [reply EXCEPT ![p] = "none"]
        /\ Goto(p, "find")
        /\ UNCHANGED <<tables, locks, memory>>

\* The transaction ends, its row locks are freed and the client is answered.
Finish(p, answer) ==
    /\ Goto(p, "idle")
    /\ reply' = [reply EXCEPT ![p] = answer]
    /\ req' = [req EXCEPT ![p] = None]
    /\ readProject' = [readProject EXCEPT ![p] = None]
    /\ readEmployee' = [readEmployee EXCEPT ![p] = None]
    /\ companyLock' = Release(companyLock, p)
    /\ projectLock' = Release(projectLock, p)
    /\ employeeLock' = Release(employeeLock, p)

\* An error leaves the use case and everything is rolled back.
Reject(p, answer) == Finish(p, answer) /\ UNCHANGED tables
Refuse(p) == Reject(p, "error")

\* A timeout, a lost connection, a refusal for data that is not modelled.
Abort(p) == step[p] # "idle" /\ Refuse(p)

-----------------------------------------------------------------------------
(* authorize(write=True).                                                  *)

\* The snapshot of accessible(); a viewer gets as far as authorize.
Find(p) ==
    /\ step[p] = "find"
    /\ IF req[p].company \in live
          THEN Goto(p, "lockCompany") /\ UNCHANGED <<tables, locks, req, reply, memory>>
          ELSE Refuse(p)

\* Mutant: the SELECT without FOR UPDATE.
LockCompanyWithoutLock(p) ==
    /\ step[p] = "lockCompany"
    /\ IF req[p].company \in live
          THEN Goto(p, "authorize") /\ UNCHANGED <<tables, locks, req, reply, memory>>
          ELSE Refuse(p)

LockCompany(p) ==
    LET c == req[p].company IN
    /\ step[p] = "lockCompany"
    /\ Granted(companyLock, c, p)
    /\ IF c \in live
          THEN /\ companyLock' = Take(companyLock, c, p)
               /\ Goto(p, "authorize")
               /\ UNCHANGED <<tables, projectLock, employeeLock, req, reply, memory>>
          ELSE Refuse(p)

\* The actor's role, read again under the company's lock.
Authorize(p) ==
    /\ step[p] = "authorize"
    /\ IF req[p].actor \in writers[req[p].company]
          THEN /\ Goto(p, AfterAuthorize(req[p].op))
               /\ UNCHANGED <<tables, locks, req, reply, memory>>
          ELSE Refuse(p)

-----------------------------------------------------------------------------
(* The rows of the company.                                                *)

\* What the use case wants of the project it has locked: the version of
\* If-Match, and for an update a transition that exists.
ProjectFits(r) ==
    LET row == project[r.project] IN
    /\ r.op \in {"updateProject", "deleteProject"} => row.version = r.version
    /\ r.op = "updateProject" => Transition(row.status, Either(r.patch, row.status))

\* projects.scoped(lock=True): a row of the company, or 404.
LockProject(p) ==
    LET r == req[p] IN
    /\ step[p] = "lockProject"
    /\ ProjectOf(r.company, r.project) => Granted(projectLock, r.project, p)
    /\ IF ProjectOf(r.company, r.project) /\ ProjectFits(r)
          THEN /\ projectLock' = Take(projectLock, r.project, p)
               /\ readProject' = [readProject EXCEPT ![p] = project[r.project]]
               /\ Goto(p, IF r.op \in {"assign", "unassign"} THEN "lockEmployee" ELSE "commit")
               /\ UNCHANGED <<tables, companyLock, employeeLock, req, reply, readEmployee>>
          ELSE Refuse(p)

\* Mutant: the body of a PATCH is validated by itself, without the row.
EmployeeFitsAlone(r) ==
    LET row == employee[r.employee] IN
    /\ r.op \in {"updateEmployee", "deleteEmployee"} => row.version = r.version
    /\ r.op = "updateEmployee" =>
          \/ r.patch.status = Keep \/ r.patch.ended = Keep \/ ValidEmployee(r.patch)

\* The version of If-Match, and a PATCH that leaves a valid row.
EmployeeFits(r) ==
    LET row == employee[r.employee] IN
    /\ r.op \in {"updateEmployee", "deleteEmployee"} => row.version = r.version
    /\ r.op = "updateEmployee" => ValidEmployee(Merge(row.data, r.patch))

\* employees.scoped(lock=True).
LockEmployee(p) ==
    LET r == req[p] IN
    /\ step[p] = "lockEmployee"
    /\ EmployeeOf(r.company, r.employee) => Granted(employeeLock, r.employee, p)
    /\ IF EmployeeOf(r.company, r.employee) /\ EmployeeFits(r)
          THEN /\ employeeLock' = Take(employeeLock, r.employee, p)
               /\ readEmployee' = [readEmployee EXCEPT ![p] = employee[r.employee]]
               /\ Goto(p, IF r.op = "assign" THEN "existing" ELSE "commit")
               /\ UNCHANGED <<tables, companyLock, projectLock, req, reply, readProject>>
          ELSE Refuse(p)

\* Mutant: the project's status is not looked at.
ExistingAnyProject(p) ==
    LET r == req[p] IN
    /\ step[p] = "existing"
    /\ IF <<r.company, r.project, r.employee>> \in assigned
          THEN Reject(p, "ok")
          ELSE IF readEmployee[p].data.status = "active"
          THEN Goto(p, "commit") /\ UNCHANGED <<tables, locks, req, reply, memory>>
          ELSE Refuse(p)

\* ensure_assignment: an assignment that is there is the answer (200); a new
\* one needs an active employee and a project that is not over.
Existing(p) ==
    LET r == req[p] IN
    /\ step[p] = "existing"
    /\ IF <<r.company, r.project, r.employee>> \in assigned
          THEN Reject(p, "ok")
          ELSE IF readEmployee[p].data.status = "active" /\ readProject[p].status \in Assignable
          THEN Goto(p, "commit") /\ UNCHANGED <<tables, locks, req, reply, memory>>
          ELSE Refuse(p)

-----------------------------------------------------------------------------
(* The writes of each use case and its COMMIT.  "conflict": the answer     *)
(* when a foreign or primary key is violated or the row to refresh is gone.*)

\* (Bound: Employees; with none left the request fails.)
CommitCreateEmployee(p) ==
    LET r == req[p]  c == r.company
        unused == {e \in Employees : employee[e] = None}
    IN
    /\ step[p] = "commit" /\ r.op = "createEmployee"
    /\ IF c \notin live THEN Reject(p, "conflict")
       ELSE IF unused = {} THEN Refuse(p)
       ELSE \E e \in unused :
              IF EmailTaken(c, e, r.data.email) THEN Reject(p, "email")
              ELSE /\ employee' = [employee EXCEPT ![e] =
                                      [company |-> c, version |-> 1, data |-> r.data]]
                   /\ Finish(p, "ok")
                   /\ UNCHANGED <<live, writers, project, assigned>>

\* The assignments without those that satisfy a WHERE clause.
Without(rows) == assigned \ rows
AssignmentsOf(c, e) == {a \in assigned : a[1] = c /\ a[3] = e}

\* Mutant: somebody who leaves keeps the assignments.
CommitUpdateEmployeeOnly(p) ==
    LET r == req[p]  c == r.company  e == r.employee
        data == Merge(readEmployee[p].data, r.patch)
    IN
    /\ step[p] = "commit" /\ r.op = "updateEmployee"
    /\ IF r.version = MaxVersion THEN Refuse(p)
       ELSE IF EmailTaken(c, e, data.email) THEN Reject(p, "email")
       ELSE /\ employee' = [employee EXCEPT ![e] =
                               [company |-> c, version |-> r.version + 1, data |-> data]]
            /\ Finish(p, "ok")
            /\ UNCHANGED <<live, writers, project, assigned>>

\* UPDATE ... WHERE company, id AND version, with the values merged from the
\* row that was read; the terminated lose their assignments; then the refresh.
CommitUpdateEmployee(p) ==
    LET r == req[p]  c == r.company  e == r.employee
        data == Merge(readEmployee[p].data, r.patch)
        hit == EmployeeOf(c, e) /\ employee[e].version = r.version
    IN
    /\ step[p] = "commit" /\ r.op = "updateEmployee"
    /\ IF r.version = MaxVersion THEN Refuse(p)
       ELSE IF employee[e] = None THEN Reject(p, "conflict")
       ELSE IF hit /\ EmailTaken(c, e, data.email) THEN Reject(p, "email")
       ELSE /\ employee' = IF hit THEN [employee EXCEPT ![e] =
                                           [company |-> c, version |-> r.version + 1, data |-> data]]
                             ELSE employee
            /\ assigned' = IF data.status = "terminated" THEN Without(AssignmentsOf(c, e))
                             ELSE assigned
            /\ Finish(p, "ok")
            /\ UNCHANGED <<live, writers, project>>

\* DELETE ... WHERE company, id AND version; the assignments go with the row.
CommitDeleteEmployee(p) ==
    LET r == req[p]  e == r.employee
        hit == EmployeeOf(r.company, e) /\ employee[e].version = r.version
    IN
    /\ step[p] = "commit" /\ r.op = "deleteEmployee"
    /\ employee' = IF hit THEN [employee EXCEPT ![e] = None] ELSE employee
    /\ assigned' = IF hit THEN Without(AssignmentsOf(r.company, e)) ELSE assigned
    /\ Finish(p, "ok")
    /\ UNCHANGED <<live, writers, project>>

\* (Bound: Projects.)
CommitCreateProject(p) ==
    LET r == req[p]
        unused == {q \in Projects : project[q] = None}
    IN
    /\ step[p] = "commit" /\ r.op = "createProject"
    /\ IF r.company \notin live THEN Reject(p, "conflict")
       ELSE IF unused = {} THEN Refuse(p)
       ELSE \E q \in unused :
              /\ project' = [project EXCEPT ![q] =
                                [company |-> r.company, version |-> 1, status |-> r.status]]
              /\ Finish(p, "ok")
              /\ UNCHANGED <<live, writers, employee, assigned>>

CommitUpdateProject(p) ==
    LET r == req[p]  c == r.company  q == r.project
        status == Either(r.patch, readProject[p].status)
    IN
    /\ step[p] = "commit" /\ r.op = "updateProject"
    /\ IF r.version = MaxVersion THEN Refuse(p)
       ELSE IF project[q] = None THEN Reject(p, "conflict")
       ELSE /\ project' = IF ProjectOf(c, q) /\ project[q].version = r.version
                            THEN [project EXCEPT ![q] =
                                    [company |-> c, version |-> r.version + 1, status |-> status]]
                            ELSE project
            /\ Finish(p, "ok")
            /\ UNCHANGED <<live, writers, employee, assigned>>

CommitDeleteProject(p) ==
    LET r == req[p]  q == r.project
        hit == ProjectOf(r.company, q) /\ project[q].version = r.version
    IN
    /\ step[p] = "commit" /\ r.op = "deleteProject"
    /\ project' = IF hit THEN [project EXCEPT ![q] = None] ELSE project
    /\ assigned' = IF hit THEN Without({a \in assigned : a[1] = r.company /\ a[2] = q})
                     ELSE assigned
    /\ Finish(p, "ok")
    /\ UNCHANGED <<live, writers, employee>>

\* The INSERT, against the primary key and the two foreign keys.
CommitAssign(p) ==
    LET r == req[p]
        row == <<r.company, r.project, r.employee>>
    IN
    /\ step[p] = "commit" /\ r.op = "assign"
    /\ IF \/ row \in assigned
          \/ ~ ProjectOf(r.company, r.project) \/ ~ EmployeeOf(r.company, r.employee)
          THEN Reject(p, "conflict")
          ELSE /\ assigned' = assigned \cup {row}
               /\ Finish(p, "created")
               /\ UNCHANGED <<live, writers, employee, project>>

CommitUnassign(p) ==
    LET r == req[p] IN
    /\ step[p] = "commit" /\ r.op = "unassign"
    /\ assigned' = Without({<<r.company, r.project, r.employee>>})
    /\ Finish(p, "ok")
    /\ UNCHANGED <<live, writers, employee, project>>

Commit(p) ==
    \/ CommitCreateEmployee(p) \/ CommitUpdateEmployee(p) \/ CommitDeleteEmployee(p)
    \/ CommitCreateProject(p) \/ CommitUpdateProject(p) \/ CommitDeleteProject(p)
    \/ CommitAssign(p) \/ CommitUnassign(p)

-----------------------------------------------------------------------------
(* The companies component.                                                *)

Free(c) == companyLock[c] = None

\* A grant, a change, a revocation or a transfer.
ChangeAccess(c) ==
    \E W \in SUBSET Users :
        /\ c \in live /\ Free(c)
        /\ writers' = [writers EXCEPT ![c] = W]
        /\ UNCHANGED <<live, employee, project, assigned, locks, req, step, reply, memory>>

\* A company is deleted, and everything in it.
DeleteCompany(c) ==
    /\ c \in live /\ Free(c)
    /\ live' = live \ {c}
    /\ writers' = [writers EXCEPT ![c] = {}]
    /\ employee' = [e \in Employees |-> IF EmployeeOf(c, e) THEN None ELSE employee[e]]
    /\ project' = [q \in Projects |-> IF ProjectOf(c, q) THEN None ELSE project[q]]
    /\ assigned' = Without({a \in assigned : a[1] = c})
    /\ UNCHANGED <<locks, req, step, reply, memory>>

-----------------------------------------------------------------------------
Step(p) ==
    \/ Find(p) \/ LockCompany(p) \/ Authorize(p) \/ LockProject(p) \/ LockEmployee(p)
    \/ Existing(p) \/ Commit(p)

Next ==
    \/ \E p \in Procs : Begin(p) \/ Step(p) \/ Abort(p)
    \/ \E c \in Companies : ChangeAccess(c) \/ DeleteCompany(c)

Spec == Init /\ [][Next]_vars

-----------------------------------------------------------------------------
(* Properties.                                                             *)

\* Nobody whose employment has ended is assigned to anything, and what an
\* assignment names is there, in the company of the assignment: terminations,
\* assignments and deletions that overlap leave nothing dangling.
AssignmentsAreSound ==
    \A a \in assigned :
        /\ ProjectOf(a[1], a[2]) /\ EmployeeOf(a[1], a[3])
        /\ employee[a[3]].data.status # "terminated"

\* Check-then-act: the rows a use case has read and checked are the rows it
\* writes, several statements later, and its actor may still write them.
StillTrueAtCommit ==
    \A p \in Procs : step[p] = "commit" =>
        LET r == req[p] IN
        /\ r.company \in live /\ r.actor \in writers[r.company]
        /\ readProject[p] # None => readProject[p] = project[r.project]
        /\ readEmployee[p] # None => readEmployee[p] = employee[r.employee]
        /\ r.op = "assign" => <<r.company, r.project, r.employee>> \notin assigned

\* A project that is over is over: it is not taken up again, and nobody is
\* assigned to it any more, however long ago the assignment was asked for.
FinishedStaysFinished ==
    [][\A q \in Projects : project[q] # None /\ project[q].status \notin Assignable =>
          /\ project'[q] # None => project'[q].status = project[q].status
          /\ \A a \in assigned' : a[2] = q => a \in assigned]_vars

\* Each request takes effect at one instant, on the rows and roles of that
\* instant, and its answer says so: see WorkforceAtomic.
Atomic == INSTANCE WorkforceAtomic

ImplementsAtomic == Atomic!Spec

=============================================================================
