-------------------------- MODULE WorkforceProofs ---------------------------
(* Theorems about Workforce, for any companies, rows, requests and number  *)
(* of processes.                                                           *)
EXTENDS Workforce, TLAPS

-----------------------------------------------------------------------------
(* Requests, rows and row locks.                                           *)

ProjectOps == {"updateProject", "deleteProject", "assign", "unassign"}
EmployeeOps == {"updateEmployee", "deleteEmployee", "assign", "unassign"}

\* Which fields a request has, by its operation.
LEMMA RequestFields ==
    ASSUME NEW r \in Requests
    PROVE  /\ r.op \in ProjectOps \cup EmployeeOps \cup {"createEmployee", "createProject"}
           /\ r.actor \in Users /\ r.company \in Companies
           /\ r.op \in ProjectOps => r.project \in Projects
           /\ r.op \in EmployeeOps => r.employee \in Employees
           /\ r.op \in {"updateEmployee", "deleteEmployee", "updateProject", "deleteProject"}
                => r.version \in 1..MaxVersion
           /\ r.op = "createEmployee" => r.data \in EmployeeData /\ ValidEmployee(r.data)
           /\ r.op = "updateEmployee" => r.patch \in PatchBodies
           /\ r.op = "createProject" => r.status \in ProjectStatuses
           /\ r.op = "updateProject" => r.patch \in ProjectStatuses \cup {Keep}
BY PatchesAreBodies DEF Requests, ProjectOps, EmployeeOps

\* A PATCH of employee data gives employee data.
LEMMA MergeTypes ==
    ASSUME NEW d \in EmployeeData, NEW patch \in PatchBodies
    PROVE  Merge(d, patch) \in EmployeeData
BY DEF EmployeeData, PatchBodies, Merge, Either

\* Taking a free row leaves a lock table a lock table, gives the row to p and
\* takes no row from another process.
LEMMA LockTables ==
    ASSUME NEW Rows, NEW t \in [Rows -> Procs \cup {None}], NEW r \in Rows,
           NEW p \in Procs, Granted(t, r, p)
    PROVE  /\ Take(t, r, p) \in [Rows -> Procs \cup {None}]
           /\ Take(t, r, p)[r] = p
           /\ \A s \in Rows : t[s] \in Procs => Take(t, r, p)[s] = t[s]
BY NoneIsNothing DEF Granted, Take

\* Releasing p's rows leaves a lock table a lock table.
LEMMA Releases ==
    ASSUME NEW Rows, NEW t \in [Rows -> Procs \cup {None}], NEW p \in Procs
    PROVE  Release(t, p) \in [Rows -> Procs \cup {None}]
BY NoneIsNothing DEF Release

-----------------------------------------------------------------------------
(* The inductive invariant.                                                *)

\* The two halves of TypeOK: what is stored, and what the processes have.
TablesOK ==
    /\ live \subseteq Companies
    /\ writers \in [Companies -> SUBSET Users]
    /\ employee \in [Employees -> EmployeeRows \cup {None}]
    /\ project \in [Projects -> ProjectRows \cup {None}]
    /\ assigned \subseteq Companies \X Projects \X Employees
    /\ \A e \in Employees : employee[e] # None =>
          employee[e].company \in live /\ ValidEmployee(employee[e].data)
    /\ \A q \in Projects : project[q] # None => project[q].company \in live

Steps == {"idle", "find", "lockCompany", "authorize", "lockProject", "lockEmployee",
          "existing", "commit"}
Replies == {"none", "ok", "created", "email", "conflict", "error"}

ProcsOK ==
    /\ companyLock \in [Companies -> Procs \cup {None}]
    /\ projectLock \in [Projects -> Procs \cup {None}]
    /\ employeeLock \in [Employees -> Procs \cup {None}]
    /\ req \in [Procs -> Requests \cup {None}]
    /\ step \in [Procs -> Steps]
    /\ reply \in [Procs -> Replies]
    /\ readProject \in [Procs -> ProjectRows \cup {None}]
    /\ readEmployee \in [Procs -> EmployeeRows \cup {None}]

\* Between requests a process has none; each statement belongs to some use
\* cases only; and nobody is ever told of a broken key.
Path ==
    \A p \in Procs :
        /\ step[p] = "idle" => req[p] = None
        /\ step[p] # "idle" => req[p] \in Requests
        /\ step[p] = "lockProject" => req[p].op \in ProjectOps
        /\ step[p] = "lockEmployee" => req[p].op \in EmployeeOps
        /\ step[p] = "existing" => req[p].op = "assign"
        /\ reply[p] # "conflict"

\* p has passed accessible().
InCompany(p) == step[p] \in {"authorize", "lockProject", "lockEmployee", "existing", "commit"}

\* p has locked and read its project, its employee.
HasProject(p) ==
    \/ step[p] = "commit" /\ req[p].op \in ProjectOps
    \/ step[p] \in {"lockEmployee", "existing"} /\ req[p].op \in {"assign", "unassign"}

HasEmployee(p) ==
    \/ step[p] = "commit" /\ req[p].op \in EmployeeOps
    \/ step[p] = "existing"

\* The company's lock, and all that p has found out while it had it.
Held(p) ==
    LET r == req[p] IN
    /\ InCompany(p) => companyLock[r.company] = p /\ r.company \in live
    /\ InCompany(p) /\ step[p] # "authorize" => r.actor \in writers[r.company]
    /\ readProject[p] = IF HasProject(p) THEN project[r.project] ELSE None
    /\ readEmployee[p] = IF HasEmployee(p) THEN employee[r.employee] ELSE None
    /\ HasProject(p) => ProjectOf(r.company, r.project) /\ ProjectFits(r)
    /\ HasEmployee(p) => EmployeeOf(r.company, r.employee) /\ EmployeeFits(r)
    /\ step[p] = "commit" /\ r.op = "assign" =>
          /\ <<r.company, r.project, r.employee>> \notin assigned
          /\ employee[r.employee].data.status = "active"
          /\ project[r.project].status \in Assignable

IInv ==
    /\ TablesOK /\ ProcsOK /\ Path
    /\ AssignmentsAreSound
    /\ \A p \in Procs : Held(p)

LEMMA TypesAreIn == IInv => TypeOK
BY DEF IInv, TablesOK, ProcsOK, TypeOK, Steps, Replies

-----------------------------------------------------------------------------
(* A step and the other processes.                                         *)

\* A step leaves company c and everything in it as it is.
Untouched(c) ==
    /\ c \in live => c \in live'
    /\ writers'[c] = writers[c]
    /\ \A e \in Employees : EmployeeOf(c, e) => employee'[e] = employee[e]
    /\ \A q \in Projects : ProjectOf(c, q) => project'[q] = project[q]
    /\ \A q \in Projects, e \in Employees :
          <<c, q, e>> \in assigned' => <<c, q, e>> \in assigned

\* A step leaves q where it is, with its locks and its memory.
Rests(q) ==
    /\ step'[q] = step[q] /\ req'[q] = req[q] /\ reply'[q] = reply[q]
    /\ readProject'[q] = readProject[q] /\ readEmployee'[q] = readEmployee[q]
    /\ \A c \in Companies : companyLock[c] = q => companyLock'[c] = q

\* Nobody but p is moved, and no company that another process has locked.
Keeps(p) == \A q \in Procs \ {p} : Rests(q)
Spares(p) == \A c \in Companies : companyLock[c] \in Procs \ {p} => Untouched(c)

\* What a process holds and has found stays true when it rests and the company
\* it has locked is not touched.
LEMMA HeldStays ==
    ASSUME IInv, NEW q \in Procs, Rests(q),
           \A c \in Companies : companyLock[c] = q => Untouched(c)
    PROVE  Held(q)'
<1>. DEFINE r == req[q]
<1>1. /\ Held(q)
      /\ InCompany(q)' <=> InCompany(q)
      /\ HasProject(q)' <=> HasProject(q)
      /\ HasEmployee(q)' <=> HasEmployee(q)
      /\ HasProject(q) \/ HasEmployee(q) => InCompany(q)
      /\ HasProject(q) => r.op \in ProjectOps
      /\ HasEmployee(q) => r.op \in EmployeeOps
  BY DEF IInv, Path, Rests, InCompany, HasProject, HasEmployee, ProjectOps, EmployeeOps
<1>2. CASE ~ InCompany(q)
  BY <1>1, <1>2 DEF Held, Rests, InCompany
<1>3. CASE InCompany(q)
  <2>1. r \in Requests
    BY <1>3 DEF IInv, Path, InCompany
  <2>2. r.company \in Companies /\ Untouched(r.company) /\ companyLock'[r.company] = q
    BY <1>1, <1>3, <2>1, RequestFields DEF Held, Rests
  <2>3. HasProject(q) => r.project \in Projects /\ project'[r.project] = project[r.project]
    BY <1>1, <2>1, <2>2, RequestFields DEF Held, Untouched
  <2>4. HasEmployee(q) => r.employee \in Employees /\ employee'[r.employee] = employee[r.employee]
    BY <1>1, <2>1, <2>2, RequestFields DEF Held, Untouched
  <2>5. /\ r.company \in live'
        /\ step[q] # "authorize" => r.actor \in writers'[r.company]
    BY <1>1, <1>3, <2>2 DEF Held, Untouched
  <2>6. HasProject(q) => ProjectOf(r.company, r.project)' /\ ProjectFits(r)'
    BY <1>1, <2>3 DEF Held, Rests, ProjectOf, ProjectFits
  <2>7. HasEmployee(q) => EmployeeOf(r.company, r.employee)' /\ EmployeeFits(r)'
    BY <1>1, <2>4 DEF Held, Rests, EmployeeOf, EmployeeFits
  <2>8. step[q] = "commit" /\ r.op = "assign" =>
          /\ HasProject(q) /\ HasEmployee(q)
          /\ <<r.company, r.project, r.employee>> \notin assigned'
    BY <1>1, <2>2, <2>3, <2>4 DEF Held, Untouched, HasProject, HasEmployee, ProjectOps, EmployeeOps
  <2>. QED
    BY <1>1, <2>2, <2>3, <2>4, <2>5, <2>6, <2>7, <2>8 DEF Held, Rests
<1>. QED BY <1>2, <1>3

\* A step of p keeps the invariant if it keeps its parts that are about the
\* tables and about p.
LEMMA OwnStep ==
    ASSUME IInv, NEW p \in Procs, Keeps(p), Spares(p),
           TablesOK', AssignmentsAreSound', ProcsOK', Path', Held(p)'
    PROVE  IInv'
<1>1. ASSUME NEW q \in Procs, q # p
      PROVE  Held(q)'
  BY <1>1, HeldStays DEF Keeps, Spares
<1>. QED BY <1>1 DEF IInv

\* A statement that writes nothing.
LEMMA ReadStep ==
    ASSUME IInv, NEW p \in Procs, Keeps(p), UNCHANGED tables,
           ProcsOK', Path', Held(p)'
    PROVE  IInv'
<1>1. Spares(p)
  BY DEF Spares, Untouched, tables
<1>2. TablesOK' /\ AssignmentsAreSound'
  BY DEF IInv, TablesOK, AssignmentsAreSound, ProjectOf, EmployeeOf, tables
<1>. QED BY <1>1, <1>2, OwnStep

\* The end of a transaction: p holds nothing any more, the others what they had.
LEMMA FinishKeeps ==
    ASSUME IInv, NEW p \in Procs, NEW a \in Replies \ {"conflict"}, Finish(p, a)
    PROVE  Keeps(p) /\ ProcsOK' /\ Path' /\ Held(p)'
<1>. USE DEF IInv
<1>1. /\ step' = [step EXCEPT ![p] = "idle"] /\ reply' = [reply EXCEPT ![p] = a]
      /\ req' = [req EXCEPT ![p] = None]
      /\ readProject' = [readProject EXCEPT ![p] = None]
      /\ readEmployee' = [readEmployee EXCEPT ![p] = None]
  BY DEF Finish, Goto
<1>2. /\ companyLock' \in [Companies -> Procs \cup {None}]
      /\ projectLock' \in [Projects -> Procs \cup {None}]
      /\ employeeLock' \in [Employees -> Procs \cup {None}]
      /\ \A c \in Companies : companyLock[c] \in Procs \ {p} => companyLock'[c] = companyLock[c]
  <2>1. /\ companyLock' = Release(companyLock, p) /\ projectLock' = Release(projectLock, p)
        /\ employeeLock' = Release(employeeLock, p)
    BY DEF Finish
  <2>2. companyLock' \in [Companies -> Procs \cup {None}]
    BY <2>1, Releases DEF ProcsOK
  <2>3. projectLock' \in [Projects -> Procs \cup {None}]
    BY <2>1, Releases DEF ProcsOK
  <2>4. employeeLock' \in [Employees -> Procs \cup {None}]
    BY <2>1, Releases DEF ProcsOK
  <2>5. \A c \in Companies : companyLock[c] \in Procs \ {p} => companyLock'[c] = companyLock[c]
    BY <2>1 DEF ProcsOK, Release
  <2>. QED BY <2>2, <2>3, <2>4, <2>5
<1>3. ProcsOK'
  BY <1>1, <1>2 DEF ProcsOK, Steps
<1>4. Path'
  BY <1>1 DEF ProcsOK, Path
<1>5. Held(p)'
  BY <1>1 DEF ProcsOK, Held, InCompany, HasProject, HasEmployee
<1>6. Keeps(p)
  BY <1>1, <1>2 DEF ProcsOK, Keeps, Rests
<1>. QED BY <1>3, <1>4, <1>5, <1>6

\* A request that is refused or answered from what is there leaves the tables.
LEMMA RejectStep ==
    ASSUME IInv, NEW p \in Procs, NEW a \in Replies \ {"conflict"}, Reject(p, a)
    PROVE  IInv'
BY FinishKeeps, ReadStep DEF Reject

LEMMA RefuseStep ==
    ASSUME IInv, NEW p \in Procs, Refuse(p)
    PROVE  IInv'
BY RejectStep DEF Refuse, Replies

-----------------------------------------------------------------------------
(* The statements before the COMMIT.                                       *)

\* p goes on to statement s of its request, with at most another free row and
\* another row read.
LEMMA GotoKeeps ==
    ASSUME IInv, NEW p \in Procs, NEW s \in Steps, Goto(p, s), UNCHANGED <<tables, req, reply>>,
           companyLock' \in [Companies -> Procs \cup {None}],
           \A c \in Companies : companyLock[c] \in Procs => companyLock'[c] = companyLock[c],
           projectLock' \in [Projects -> Procs \cup {None}],
           employeeLock' \in [Employees -> Procs \cup {None}],
           readProject' \in [Procs -> ProjectRows \cup {None}],
           readEmployee' \in [Procs -> EmployeeRows \cup {None}],
           \A q \in Procs \ {p} :
              readProject'[q] = readProject[q] /\ readEmployee'[q] = readEmployee[q],
           req[p] \in Requests, s # "idle",
           s = "lockProject" => req[p].op \in ProjectOps,
           s = "lockEmployee" => req[p].op \in EmployeeOps,
           s = "existing" => req[p].op = "assign"
    PROVE  Keeps(p) /\ ProcsOK' /\ Path' /\ step'[p] = s
<1>. USE DEF IInv
<1>1. step' = [step EXCEPT ![p] = s]
  BY DEF Goto
<1>2. ProcsOK'
  BY <1>1 DEF ProcsOK
<1>3. Path'
  BY <1>1 DEF ProcsOK, Path
<1>4. Keeps(p)
  BY <1>1 DEF ProcsOK, Keeps, Rests
<1>. QED BY <1>1, <1>2, <1>3, <1>4 DEF ProcsOK

\* A statement that neither locks nor remembers anything.
LEMMA PlainKeeps ==
    ASSUME IInv, NEW p \in Procs, NEW s \in Steps, Goto(p, s),
           UNCHANGED <<tables, locks, req, reply, memory>>,
           req[p] \in Requests, s # "idle",
           s = "lockProject" => req[p].op \in ProjectOps,
           s = "lockEmployee" => req[p].op \in EmployeeOps,
           s = "existing" => req[p].op = "assign"
    PROVE  /\ Keeps(p) /\ ProcsOK' /\ Path'
           /\ step'[p] = s /\ req'[p] = req[p]
           /\ readProject'[p] = readProject[p] /\ readEmployee'[p] = readEmployee[p]
<1>. USE DEF IInv, locks, memory
<1>1. step' = [step EXCEPT ![p] = s]
  BY DEF Goto
<1>2. ProcsOK' /\ Path'
  BY <1>1 DEF ProcsOK, Path
<1>3. Keeps(p)
  BY <1>1 DEF ProcsOK, Keeps, Rests
<1>. QED BY <1>1, <1>2, <1>3 DEF ProcsOK

LEMMA BeginStep ==
    ASSUME IInv, NEW p \in Procs, Begin(p)
    PROVE  IInv'
<1>. USE DEF IInv
<1>1. PICK r \in Requests :
        /\ step[p] = "idle"
        /\ req' = [req EXCEPT ![p] = r]
        /\ reply' = [reply EXCEPT ![p] = "none"]
        /\ step' = [step EXCEPT ![p] = "find"]
        /\ UNCHANGED <<tables, locks, memory>>
  BY DEF Begin, Goto
<1>2. ProcsOK' /\ Keeps(p)
  BY <1>1 DEF ProcsOK, Keeps, Rests, Steps, Replies, locks, memory
<1>3. Path'
  BY <1>1 DEF ProcsOK, Path
<1>4. Held(p)'
  BY <1>1 DEF ProcsOK, Held, InCompany, HasProject, HasEmployee, memory
<1>. QED BY <1>1, <1>2, <1>3, <1>4, ReadStep

LEMMA FindStep ==
    ASSUME IInv, NEW p \in Procs, Find(p)
    PROVE  IInv'
<1>1. CASE Refuse(p)
  BY <1>1, RefuseStep
<1>2. CASE ~ Refuse(p)
  <2>1. step[p] = "find" /\ Goto(p, "lockCompany") /\ UNCHANGED <<tables, locks, req, reply, memory>>
    BY <1>2 DEF Find
  <2>2. req[p] \in Requests
    BY <2>1 DEF IInv, Path
  <2>3. /\ Keeps(p) /\ ProcsOK' /\ Path' /\ step'[p] = "lockCompany"
        /\ readProject'[p] = readProject[p] /\ readEmployee'[p] = readEmployee[p]
    BY <2>1, <2>2, PlainKeeps DEF Steps
  <2>4. Held(p)'
    BY <2>1, <2>3 DEF IInv, Held, InCompany, HasProject, HasEmployee
  <2>. QED BY <2>1, <2>3, <2>4, ReadStep
<1>. QED BY <1>1, <1>2

LEMMA LockCompanyStep ==
    ASSUME IInv, NEW p \in Procs, LockCompany(p)
    PROVE  IInv'
<1>1. CASE Refuse(p)
  BY <1>1, RefuseStep
<1>2. CASE ~ Refuse(p)
  <2>. DEFINE c == req[p].company
  <2>1. /\ step[p] = "lockCompany" /\ c \in live
        /\ Granted(companyLock, c, p) /\ companyLock' = Take(companyLock, c, p)
        /\ Goto(p, "authorize")
        /\ UNCHANGED <<tables, projectLock, employeeLock, req, reply, memory>>
    BY <1>2 DEF LockCompany
  <2>2. req[p] \in Requests /\ c \in Companies /\ Held(p)
    BY <2>1, RequestFields DEF IInv, Path
  <2>3. /\ companyLock' \in [Companies -> Procs \cup {None}] /\ companyLock'[c] = p
        /\ \A d \in Companies : companyLock[d] \in Procs => companyLock'[d] = companyLock[d]
    BY <2>1, <2>2, LockTables DEF IInv, ProcsOK
  <2>4. /\ readProject' \in [Procs -> ProjectRows \cup {None}]
        /\ readEmployee' \in [Procs -> EmployeeRows \cup {None}]
        /\ UNCHANGED <<readProject, readEmployee>>
        /\ projectLock' \in [Projects -> Procs \cup {None}]
        /\ employeeLock' \in [Employees -> Procs \cup {None}]
    BY <2>1 DEF IInv, ProcsOK, memory
  <2>5. /\ Keeps(p) /\ ProcsOK' /\ Path' /\ step'[p] = "authorize" /\ req'[p] = req[p]
        /\ readProject'[p] = readProject[p] /\ readEmployee'[p] = readEmployee[p]
    BY <2>1, <2>2, <2>3, <2>4, GotoKeeps DEF Steps
  <2>6. Held(p)'
    BY <2>1, <2>2, <2>3, <2>5 DEF Held, InCompany, HasProject, HasEmployee, tables
  <2>. QED BY <2>1, <2>5, <2>6, ReadStep
<1>. QED BY <1>1, <1>2

LEMMA AuthorizeStep ==
    ASSUME IInv, NEW p \in Procs, Authorize(p)
    PROVE  IInv'
<1>1. CASE Refuse(p)
  BY <1>1, RefuseStep
<1>2. CASE ~ Refuse(p)
  <2>. DEFINE r == req[p]  s == AfterAuthorize(r.op)
  <2>1. /\ step[p] = "authorize" /\ r.actor \in writers[r.company]
        /\ Goto(p, s) /\ UNCHANGED <<tables, locks, req, reply, memory>>
    BY <1>2 DEF Authorize
  <2>2. r \in Requests /\ Held(p)
    BY <2>1 DEF IInv, Path
  <2>3. /\ s \in Steps /\ s \in {"commit", "lockEmployee", "lockProject"}
        /\ s = "lockProject" => r.op \in ProjectOps
        /\ s = "lockEmployee" => r.op \in EmployeeOps \ {"assign", "unassign"}
        /\ s = "commit" => r.op \notin ProjectOps \cup EmployeeOps
    BY <2>2, RequestFields DEF AfterAuthorize, Steps, ProjectOps, EmployeeOps
  <2>. HIDE DEF s
  <2>4. /\ Keeps(p) /\ ProcsOK' /\ Path' /\ step'[p] = s /\ req'[p] = r
        /\ readProject'[p] = readProject[p] /\ readEmployee'[p] = readEmployee[p]
    BY <2>1, <2>2, <2>3, PlainKeeps
  <2>5. Held(p)'
    BY <2>1, <2>2, <2>3, <2>4
    DEF Held, InCompany, HasProject, HasEmployee, ProjectOps, EmployeeOps, tables, locks
  <2>. QED BY <2>1, <2>4, <2>5, ReadStep
<1>. QED BY <1>1, <1>2

LEMMA LockProjectStep ==
    ASSUME IInv, NEW p \in Procs, LockProject(p)
    PROVE  IInv'
<1>1. CASE Refuse(p)
  BY <1>1, RefuseStep
<1>2. CASE ~ Refuse(p)
  <2>. DEFINE r == req[p]
              s == IF r.op \in {"assign", "unassign"} THEN "lockEmployee" ELSE "commit"
  <2>1. /\ step[p] = "lockProject" /\ ProjectOf(r.company, r.project) /\ ProjectFits(r)
        /\ Granted(projectLock, r.project, p) /\ projectLock' = Take(projectLock, r.project, p)
        /\ readProject' = [readProject EXCEPT ![p] = project[r.project]]
        /\ Goto(p, s)
        /\ UNCHANGED <<tables, companyLock, employeeLock, req, reply, readEmployee>>
    BY <1>2 DEF LockProject
  <2>2. r \in Requests /\ r.op \in ProjectOps /\ Held(p)
    BY <2>1 DEF IInv, Path
  <2>3. r.project \in Projects /\ project[r.project] \in ProjectRows \cup {None}
    BY <2>1 DEF ProjectOf, IInv, TablesOK
  <2>4. projectLock' \in [Projects -> Procs \cup {None}]
    BY <2>1, <2>3, LockTables DEF IInv, ProcsOK
  <2>5. /\ s \in {"lockEmployee", "commit"}
        /\ s = "lockEmployee" => r.op \in {"assign", "unassign"}
        /\ s = "commit" => r.op \notin EmployeeOps
    BY <2>2 DEF ProjectOps, EmployeeOps
  <2>. HIDE DEF s
  <2>6. /\ readProject' \in [Procs -> ProjectRows \cup {None}]
        /\ readEmployee' \in [Procs -> EmployeeRows \cup {None}]
        /\ readProject'[p] = project[r.project]
        /\ \A q \in Procs \ {p} :
              readProject'[q] = readProject[q] /\ readEmployee'[q] = readEmployee[q]
        /\ companyLock' \in [Companies -> Procs \cup {None}]
        /\ employeeLock' \in [Employees -> Procs \cup {None}]
        /\ \A c \in Companies : companyLock[c] \in Procs => companyLock'[c] = companyLock[c]
        /\ UNCHANGED <<tables, req, reply>>
    BY <2>1, <2>3 DEF IInv, ProcsOK
  <2>7. /\ Keeps(p) /\ ProcsOK' /\ Path' /\ step'[p] = s /\ req'[p] = r
        /\ readProject'[p] = project[r.project] /\ readEmployee'[p] = readEmployee[p]
    <3>1. s \in Steps /\ s # "idle" /\ (s = "lockEmployee" => r.op \in EmployeeOps)
          /\ s # "lockProject" /\ s # "existing"
      BY <2>5 DEF Steps, EmployeeOps
    <3>. QED BY <2>1, <2>2, <2>3, <2>4, <2>6, <3>1, GotoKeeps
  <2>8. Held(p)'
    <3>1. HasProject(p)' /\ ~ HasEmployee(p)' /\ ~ HasEmployee(p)
      BY <2>1, <2>2, <2>5, <2>7 DEF HasProject, HasEmployee
    <3>2. readEmployee'[p] = None
      BY <2>2, <2>7, <3>1 DEF Held
    <3>3. ProjectOf(r.company, r.project)' /\ ProjectFits(r)'
      BY <2>1 DEF ProjectOf, ProjectFits, tables
    <3>4. companyLock'[r.company] = p /\ r.company \in live' /\ r.actor \in writers'[r.company]
      BY <2>1, <2>2 DEF Held, InCompany, tables
    <3>5. ~ (step'[p] = "commit" /\ r.op = "assign")
      BY <2>5, <2>7 DEF EmployeeOps
    <3>. QED BY <2>1, <2>7, <3>1, <3>2, <3>3, <3>4, <3>5 DEF Held, tables
  <2>. QED BY <2>6, <2>7, <2>8, ReadStep
<1>. QED BY <1>1, <1>2

LEMMA LockEmployeeStep ==
    ASSUME IInv, NEW p \in Procs, LockEmployee(p)
    PROVE  IInv'
<1>1. CASE Refuse(p)
  BY <1>1, RefuseStep
<1>2. CASE ~ Refuse(p)
  <2>. DEFINE r == req[p]
              s == IF r.op = "assign" THEN "existing" ELSE "commit"
  <2>1. /\ step[p] = "lockEmployee" /\ EmployeeOf(r.company, r.employee) /\ EmployeeFits(r)
        /\ Granted(employeeLock, r.employee, p) /\ employeeLock' = Take(employeeLock, r.employee, p)
        /\ readEmployee' = [readEmployee EXCEPT ![p] = employee[r.employee]]
        /\ Goto(p, s)
        /\ UNCHANGED <<tables, companyLock, projectLock, req, reply, readProject>>
    BY <1>2 DEF LockEmployee
  <2>2. r \in Requests /\ r.op \in EmployeeOps /\ Held(p)
    BY <2>1 DEF IInv, Path
  <2>3. r.employee \in Employees /\ employee[r.employee] \in EmployeeRows \cup {None}
    BY <2>1 DEF EmployeeOf, IInv, TablesOK
  <2>4. employeeLock' \in [Employees -> Procs \cup {None}]
    BY <2>1, <2>3, LockTables DEF IInv, ProcsOK
  <2>5. /\ s \in {"existing", "commit"}
        /\ s = "existing" <=> r.op = "assign"
    OBVIOUS
  <2>. HIDE DEF s
  <2>6. /\ readProject' \in [Procs -> ProjectRows \cup {None}]
        /\ readEmployee' \in [Procs -> EmployeeRows \cup {None}]
        /\ readEmployee'[p] = employee[r.employee]
        /\ \A q \in Procs \ {p} :
              readProject'[q] = readProject[q] /\ readEmployee'[q] = readEmployee[q]
        /\ companyLock' \in [Companies -> Procs \cup {None}]
        /\ projectLock' \in [Projects -> Procs \cup {None}]
        /\ \A c \in Companies : companyLock[c] \in Procs => companyLock'[c] = companyLock[c]
        /\ UNCHANGED <<tables, req, reply>>
    BY <2>1, <2>3 DEF IInv, ProcsOK
  <2>7. /\ Keeps(p) /\ ProcsOK' /\ Path' /\ step'[p] = s /\ req'[p] = r
        /\ readEmployee'[p] = employee[r.employee] /\ readProject'[p] = readProject[p]
    <3>1. s \in Steps /\ s # "idle" /\ (s = "existing" => r.op = "assign")
          /\ s # "lockProject" /\ s # "lockEmployee"
      BY <2>5 DEF Steps
    <3>. QED BY <2>1, <2>2, <2>3, <2>4, <2>6, <3>1, GotoKeeps
  <2>8. Held(p)'
    <3>1. HasEmployee(p)' /\ (HasProject(p)' <=> HasProject(p))
      BY <2>1, <2>2, <2>5, <2>7 DEF HasProject, HasEmployee, ProjectOps, EmployeeOps
    <3>2. EmployeeOf(r.company, r.employee)' /\ EmployeeFits(r)'
      BY <2>1 DEF EmployeeOf, EmployeeFits, tables
    <3>3. HasProject(p) => ProjectOf(r.company, r.project)' /\ ProjectFits(r)'
      BY <2>1, <2>2 DEF Held, ProjectOf, ProjectFits, tables
    <3>4. companyLock'[r.company] = p /\ r.company \in live' /\ r.actor \in writers'[r.company]
      BY <2>1, <2>2 DEF Held, InCompany, tables
    <3>5. ~ (step'[p] = "commit" /\ r.op = "assign")
      BY <2>5, <2>7
    <3>6. readProject'[p] = IF HasProject(p)' THEN project'[r.project] ELSE None
      BY <2>1, <2>2, <2>7, <3>1 DEF Held, tables
    <3>. QED BY <2>1, <2>7, <3>1, <3>2, <3>3, <3>4, <3>5, <3>6 DEF Held, tables
  <2>. QED BY <2>6, <2>7, <2>8, ReadStep
<1>. QED BY <1>1, <1>2

LEMMA ExistingStep ==
    ASSUME IInv, NEW p \in Procs, Existing(p)
    PROVE  IInv'
<1>1. CASE Reject(p, "ok") \/ Refuse(p)
  BY <1>1, RejectStep, RefuseStep DEF Replies
<1>2. CASE ~ (Reject(p, "ok") \/ Refuse(p))
  <2>. DEFINE r == req[p]
  <2>1. /\ step[p] = "existing" /\ <<r.company, r.project, r.employee>> \notin assigned
        /\ readEmployee[p].data.status = "active" /\ readProject[p].status \in Assignable
        /\ Goto(p, "commit") /\ UNCHANGED <<tables, locks, req, reply, memory>>
    BY <1>2 DEF Existing
  <2>2. r \in Requests /\ r.op = "assign" /\ Held(p)
    BY <2>1 DEF IInv, Path
  <2>3. /\ Keeps(p) /\ ProcsOK' /\ Path' /\ step'[p] = "commit" /\ req'[p] = r
        /\ readProject'[p] = readProject[p] /\ readEmployee'[p] = readEmployee[p]
    BY <2>1, <2>2, PlainKeeps DEF Steps
  <2>4. HasProject(p) /\ HasEmployee(p) /\ HasProject(p)' /\ HasEmployee(p)'
    BY <2>1, <2>2, <2>3 DEF HasProject, HasEmployee, ProjectOps, EmployeeOps
  <2>5. /\ readProject[p] = project[r.project] /\ readEmployee[p] = employee[r.employee]
        /\ ProjectOf(r.company, r.project) /\ ProjectFits(r)
        /\ EmployeeOf(r.company, r.employee) /\ EmployeeFits(r)
        /\ companyLock[r.company] = p /\ r.company \in live /\ r.actor \in writers[r.company]
    BY <2>1, <2>2, <2>4 DEF Held, InCompany
  <2>6. /\ ProjectOf(r.company, r.project)' /\ ProjectFits(r)'
        /\ EmployeeOf(r.company, r.employee)' /\ EmployeeFits(r)'
    BY <2>1, <2>5 DEF ProjectOf, EmployeeOf, ProjectFits, EmployeeFits, tables
  <2>7. Held(p)'
    BY <2>1, <2>3, <2>4, <2>5, <2>6 DEF Held, tables, locks
  <2>. QED BY <2>1, <2>3, <2>7, ReadStep
<1>. QED BY <1>1, <1>2

-----------------------------------------------------------------------------
(* The COMMIT.  What a transaction writes is the effect of its request as  *)
(* the abstract specification has it: that is shown first, and from it     *)
(* both that the invariant is kept and that the specification is           *)
(* implemented.                                                            *)

\* Both specifications speak of the same requests, and of data with the same
\* rules.
LEMMA SameVocabulary ==
    /\ Atomic!Requests = Requests
    /\ \A d, patch : Atomic!Merge(d, patch) = Merge(d, patch)
    /\ \A d : Atomic!ValidEmployee(d) <=> ValidEmployee(d)
    /\ \A field, old : Atomic!Either(field, old) = Either(field, old)
    /\ \A s, t : Atomic!Transition(s, t) <=> Transition(s, t)
    /\ Atomic!Assignable = Assignable
<1>1. Atomic!Requests = Requests
  BY DEF Atomic!Requests, Requests, Atomic!EmployeeData, EmployeeData,
     Atomic!EmploymentStatuses, EmploymentStatuses, Atomic!ProjectStatuses, ProjectStatuses,
     Atomic!ValidEmployee, ValidEmployee
<1>2. /\ \A d, patch : Atomic!Merge(d, patch) = Merge(d, patch)
      /\ \A field, old : Atomic!Either(field, old) = Either(field, old)
  BY DEF Atomic!Merge, Merge, Atomic!Either, Either
<1>3. \A d : Atomic!ValidEmployee(d) <=> ValidEmployee(d)
  BY DEF Atomic!ValidEmployee, ValidEmployee
<1>4. /\ \A s, t : Atomic!Transition(s, t) <=> Transition(s, t)
      /\ Atomic!Assignable = Assignable
  BY DEF Atomic!Transition, Transition, Atomic!Assignable, Assignable
<1>. QED BY <1>1, <1>2, <1>3, <1>4

\* What a process knows of its request's rows when it comes to its writes.
LEMMA AtCommit ==
    ASSUME IInv, NEW p \in Procs, step[p] = "commit"
    PROVE  LET r == req[p] IN
           /\ r \in Requests
           /\ companyLock[r.company] = p
           /\ r.company \in live /\ r.company \in Companies /\ r.actor \in writers[r.company]
           /\ r.op \in ProjectOps =>
                 /\ r.project \in Projects
                 /\ ProjectOf(r.company, r.project) /\ ProjectFits(r)
                 /\ readProject[p] = project[r.project]
           /\ r.op \in EmployeeOps =>
                 /\ r.employee \in Employees
                 /\ EmployeeOf(r.company, r.employee) /\ EmployeeFits(r)
                 /\ readEmployee[p] = employee[r.employee]
           /\ r.op = "assign" =>
                 /\ <<r.company, r.project, r.employee>> \notin assigned
                 /\ employee[r.employee].data.status = "active"
                 /\ project[r.project].status \in Assignable
<1>1. req[p] \in Requests /\ Held(p)
  BY DEF IInv, Path
<1>. QED
  BY <1>1, RequestFields DEF Held, InCompany, HasProject, HasEmployee

\* uq_employee_company_email refuses what the abstract specification calls
\* somebody else's address.
LEMMA Namesakes ==
    ASSUME NEW r, NEW e, NEW email
    PROVE  EmailTaken(r.company, e, email) <=> email # None /\ Atomic!Namesakes(r, e, email) # {}
BY DEF EmailTaken, EmployeeOf, Atomic!Namesakes

\* The assignments of an employee are those in the employee's company.
LEMMA AssignmentsOfEmployee ==
    ASSUME IInv, NEW c, NEW e, EmployeeOf(c, e)
    PROVE  /\ Without(AssignmentsOf(c, e)) = {a \in assigned : a[3] # e}
           /\ \A a \in assigned : a[3] = e => a \in AssignmentsOf(c, e)
BY DEF IInv, AssignmentsAreSound, EmployeeOf, Without, AssignmentsOf

\* The effects that are answered with "ok".
Effect(r) ==
    \/ Atomic!CreateEmployee(r) \/ Atomic!UpdateEmployee(r) \/ Atomic!DeleteEmployee(r)
    \/ Atomic!CreateProject(r) \/ Atomic!UpdateProject(r) \/ Atomic!DeleteProject(r)
    \/ Atomic!Unassign(r)

\* What becomes of a request at its COMMIT.
Served(p) ==
    \/ Refuse(p)
    \/ Reject(p, "email") /\ Atomic!EmailConflict(req[p])
    \/ Finish(p, "created") /\ Atomic!Assign(req[p])
    \/ Finish(p, "ok") /\ Effect(req[p])

LEMMA CreateEmployeeServed ==
    ASSUME IInv, NEW p \in Procs, CommitCreateEmployee(p)
    PROVE  Served(p)
<1>. DEFINE r == req[p]  c == r.company
<1>1. step[p] = "commit" /\ r.op = "createEmployee"
  BY DEF CommitCreateEmployee
<1>2. c \in live
  BY <1>1, AtCommit
<1>3. CASE Refuse(p)
  BY <1>3 DEF Served
<1>4. CASE ~ Refuse(p)
  <2>1. PICK e \in {f \in Employees : employee[f] = None} :
          IF EmailTaken(c, e, r.data.email) THEN Reject(p, "email")
          ELSE /\ employee' = [employee EXCEPT ![e] =
                                  [company |-> c, version |-> 1, data |-> r.data]]
               /\ Finish(p, "ok")
               /\ UNCHANGED <<live, writers, project, assigned>>
    BY <1>2, <1>4 DEF CommitCreateEmployee
  <2>2. CASE EmailTaken(c, e, r.data.email)
    <3>1. r.data.email # None /\ Atomic!Namesakes(r, e, r.data.email) # {}
      BY <2>2, Namesakes
    <3>2. Atomic!EmailConflict(r)
      BY <1>1, <3>1 DEF Atomic!EmailConflict
    <3>. QED BY <2>1, <2>2, <3>2 DEF Served
  <2>3. CASE ~ EmailTaken(c, e, r.data.email)
    <3>1. r.data.email # None => Atomic!Namesakes(r, e, r.data.email) = {}
      BY <2>3, Namesakes
    <3>2. Atomic!CreateEmployee(r)
      BY <1>1, <2>1, <2>3, <3>1 DEF Atomic!CreateEmployee
    <3>. QED BY <2>1, <2>3, <3>2 DEF Served, Effect
  <2>. QED BY <2>2, <2>3
<1>. QED BY <1>3, <1>4

LEMMA UpdateEmployeeServed ==
    ASSUME IInv, NEW p \in Procs, CommitUpdateEmployee(p)
    PROVE  Served(p)
<1>. DEFINE r == req[p]  c == r.company  e == r.employee
            data == Merge(readEmployee[p].data, r.patch)
<1>1. step[p] = "commit" /\ r.op = "updateEmployee"
  BY DEF CommitUpdateEmployee
<1>2. /\ r \in Requests /\ e \in Employees /\ EmployeeOf(c, e)
      /\ employee[e].version = r.version /\ ValidEmployee(data)
      /\ data = Merge(employee[e].data, r.patch)
  BY <1>1, AtCommit DEF EmployeeOps, EmployeeFits
<1>3. employee[e] # None /\ Atomic!HasEmployee(r)
  BY <1>2 DEF EmployeeOf, Atomic!HasEmployee
<1>4. Atomic!Merge(employee[e].data, r.patch) = data /\ Atomic!ValidEmployee(data)
  BY <1>2, SameVocabulary
<1>5. r.version \in 1..MaxVersion
  BY <1>1, <1>2, RequestFields
<1>. HIDE DEF data
<1>6. CASE Refuse(p)
  BY <1>6 DEF Served
<1>7. CASE ~ Refuse(p) /\ EmailTaken(c, e, data.email)
  <2>1. Reject(p, "email")
    BY <1>2, <1>3, <1>7 DEF CommitUpdateEmployee, data
  <2>2. data.email # None /\ Atomic!Namesakes(r, e, data.email) # {}
    BY <1>7, Namesakes
  <2>3. Atomic!EmailConflict(r)
    BY <1>1, <1>3, <1>4, <2>2 DEF Atomic!EmailConflict
  <2>. QED BY <2>1, <2>3 DEF Served
<1>8. CASE ~ Refuse(p) /\ ~ EmailTaken(c, e, data.email)
  <2>1. /\ r.version # MaxVersion
        /\ employee' = [employee EXCEPT ![e] =
                           [company |-> c, version |-> r.version + 1, data |-> data]]
        /\ assigned' = IF data.status = "terminated" THEN Without(AssignmentsOf(c, e))
                         ELSE assigned
        /\ Finish(p, "ok")
        /\ UNCHANGED <<live, writers, project>>
    BY <1>2, <1>3, <1>8 DEF CommitUpdateEmployee, data
  <2>2. r.version < MaxVersion
    BY <1>5, <2>1, MaxVersionIsPositive
  <2>3. assigned' = {a \in assigned : a[3] = e => data.status # "terminated"}
    BY <1>2, <2>1, AssignmentsOfEmployee
  <2>4. data.email # None => Atomic!Namesakes(r, e, data.email) = {}
    BY <1>8, Namesakes
  <2>5. Atomic!UpdateEmployee(r)
    BY <1>1, <1>2, <1>3, <1>4, <2>1, <2>2, <2>3, <2>4 DEF Atomic!UpdateEmployee
  <2>. QED BY <2>1, <2>5 DEF Served, Effect
<1>. QED BY <1>6, <1>7, <1>8

LEMMA DeleteEmployeeServed ==
    ASSUME IInv, NEW p \in Procs, CommitDeleteEmployee(p)
    PROVE  Served(p)
<1>. DEFINE r == req[p]  c == r.company  e == r.employee
<1>1. step[p] = "commit" /\ r.op = "deleteEmployee"
  BY DEF CommitDeleteEmployee
<1>2. EmployeeOf(c, e) /\ employee[e].version = r.version
  BY <1>1, AtCommit DEF EmployeeOps, EmployeeFits
<1>3. /\ employee' = [employee EXCEPT ![e] = None]
      /\ assigned' = {a \in assigned : a[3] # e}
      /\ Finish(p, "ok")
      /\ UNCHANGED <<live, writers, project>>
  BY <1>2, AssignmentsOfEmployee DEF CommitDeleteEmployee
<1>4. Atomic!DeleteEmployee(r)
  BY <1>1, <1>2, <1>3 DEF EmployeeOf, Atomic!HasEmployee, Atomic!DeleteEmployee
<1>. QED BY <1>3, <1>4 DEF Served, Effect

LEMMA ProjectServed ==
    ASSUME IInv, NEW p \in Procs,
           CommitCreateProject(p) \/ CommitUpdateProject(p) \/ CommitDeleteProject(p)
    PROVE  Served(p)
<1>. DEFINE r == req[p]  c == r.company  q == r.project
<1>1. step[p] = "commit" /\ r \in Requests
  BY AtCommit DEF CommitCreateProject, CommitUpdateProject, CommitDeleteProject
<1>2. ASSUME r.op \in ProjectOps
      PROVE  /\ q \in Projects /\ ProjectOf(c, q) /\ ProjectFits(r) /\ project[q] # None
             /\ readProject[p] = project[q]
             /\ Atomic!HasProject(r)
  BY <1>1, <1>2, AtCommit DEF ProjectOf, Atomic!HasProject
<1>3. CASE Refuse(p)
  BY <1>3 DEF Served
<1>4. CASE ~ Refuse(p) /\ CommitCreateProject(p)
  <2>1. PICK n \in {f \in Projects : project[f] = None} :
          /\ project' = [project EXCEPT ![n] =
                            [company |-> c, version |-> 1, status |-> r.status]]
          /\ Finish(p, "ok")
          /\ UNCHANGED <<live, writers, employee, assigned>>
    BY <1>1, <1>4, AtCommit DEF CommitCreateProject
  <2>2. Atomic!CreateProject(r)
    BY <1>4, <2>1 DEF CommitCreateProject, Atomic!CreateProject
  <2>. QED BY <2>1, <2>2 DEF Served, Effect
<1>5. CASE ~ Refuse(p) /\ CommitUpdateProject(p)
  <2>. DEFINE status == Either(r.patch, project[q].status)
  <2>1. r.op = "updateProject" /\ r.op \in ProjectOps
    BY <1>5 DEF CommitUpdateProject, ProjectOps
  <2>2. /\ project[q].version = r.version
        /\ Atomic!Transition(project[q].status, Atomic!Either(r.patch, project[q].status))
        /\ status = Atomic!Either(r.patch, project[q].status)
    BY <1>2, <2>1, SameVocabulary DEF ProjectFits
  <2>3. /\ r.version # MaxVersion
        /\ project' = [project EXCEPT ![q] =
                          [company |-> c, version |-> r.version + 1, status |-> status]]
        /\ Finish(p, "ok")
        /\ UNCHANGED <<live, writers, employee, assigned>>
    BY <1>2, <1>5, <2>1, <2>2 DEF CommitUpdateProject
  <2>4. r.version < MaxVersion
    BY <1>1, <2>1, <2>3, RequestFields, MaxVersionIsPositive
  <2>. HIDE DEF status
  <2>5. Atomic!UpdateProject(r)
    BY <1>2, <2>1, <2>2, <2>3, <2>4 DEF Atomic!UpdateProject
  <2>. QED BY <2>3, <2>5 DEF Served, Effect
<1>6. CASE CommitDeleteProject(p)
  <2>1. r.op = "deleteProject" /\ r.op \in ProjectOps
    BY <1>6 DEF CommitDeleteProject, ProjectOps
  <2>2. project[q].version = r.version
    BY <1>2, <2>1 DEF ProjectFits
  <2>3. \A a \in assigned : a[2] = q => a[1] = c
    BY <1>2, <2>1 DEF IInv, AssignmentsAreSound, ProjectOf
  <2>4. /\ project' = [project EXCEPT ![q] = None]
        /\ assigned' = Without({a \in assigned : a[1] = c /\ a[2] = q})
        /\ Finish(p, "ok")
        /\ UNCHANGED <<live, writers, employee>>
    BY <1>2, <1>6, <2>1, <2>2 DEF CommitDeleteProject
  <2>5. assigned' = {a \in assigned : a[2] # q}
    BY <2>3, <2>4 DEF Without
  <2>6. Atomic!DeleteProject(r)
    BY <1>2, <2>1, <2>2, <2>4, <2>5 DEF Atomic!DeleteProject
  <2>. QED BY <2>4, <2>6 DEF Served, Effect
<1>. QED BY <1>3, <1>4, <1>5, <1>6

LEMMA AssignmentServed ==
    ASSUME IInv, NEW p \in Procs, CommitAssign(p) \/ CommitUnassign(p)
    PROVE  Served(p)
<1>. DEFINE r == req[p]  row == <<r.company, r.project, r.employee>>
<1>1. step[p] = "commit" /\ r.op \in {"assign", "unassign"}
  BY DEF CommitAssign, CommitUnassign
<1>2. /\ ProjectOf(r.company, r.project) /\ EmployeeOf(r.company, r.employee)
      /\ Atomic!HasProject(r) /\ Atomic!HasEmployee(r) /\ Atomic!Row(r) = row
  BY <1>1, AtCommit
  DEF ProjectOps, EmployeeOps, ProjectOf, EmployeeOf, Atomic!HasProject, Atomic!HasEmployee, Atomic!Row
<1>3. CASE CommitAssign(p)
  <2>1. /\ row \notin assigned /\ employee[r.employee].data.status = "active"
        /\ project[r.project].status \in Atomic!Assignable
    BY <1>1, <1>3, AtCommit, SameVocabulary DEF CommitAssign
  <2>2. /\ assigned' = assigned \cup {row}
        /\ Finish(p, "created")
        /\ UNCHANGED <<live, writers, employee, project>>
    BY <1>2, <1>3, <2>1 DEF CommitAssign
  <2>3. Atomic!Assign(r)
    BY <1>2, <1>3, <2>1, <2>2 DEF CommitAssign, Atomic!Assign
  <2>. QED BY <2>2, <2>3 DEF Served
<1>4. CASE CommitUnassign(p)
  <2>1. /\ r.op = "unassign" /\ assigned' = assigned \ {row}
        /\ Finish(p, "ok")
        /\ UNCHANGED <<live, writers, employee, project>>
    BY <1>4 DEF CommitUnassign, Without
  <2>2. Atomic!Unassign(r)
    BY <1>2, <2>1 DEF Atomic!Unassign
  <2>. QED BY <2>1, <2>2 DEF Served, Effect
<1>. QED BY <1>3, <1>4

\* No COMMIT meets a broken key, a row that has gone or a stale version.
LEMMA CommitServes ==
    ASSUME IInv, NEW p \in Procs, Commit(p)
    PROVE  step[p] = "commit" /\ Served(p)
<1>1. step[p] = "commit"
  BY DEF Commit, CommitCreateEmployee, CommitUpdateEmployee, CommitDeleteEmployee,
     CommitCreateProject, CommitUpdateProject, CommitDeleteProject, CommitAssign, CommitUnassign
<1>. QED
  BY <1>1, CreateEmployeeServed, UpdateEmployeeServed, DeleteEmployeeServed, ProjectServed,
     AssignmentServed DEF Commit

-----------------------------------------------------------------------------
(* Effects keep the tables in order.                                       *)

\* An employee's row is written, with its assignments if they are to go.
LEMMA EmployeeWritten ==
    ASSUME IInv, NEW e \in Employees, NEW c \in live,
           employee[e] = None \/ employee[e].company = c,
           NEW row \in EmployeeRows \cup {None}, employee' = [employee EXCEPT ![e] = row],
           row # None => row.company = c /\ ValidEmployee(row.data),
           assigned' \subseteq assigned,
           \A a \in assigned' : a[3] = e => row # None /\ row.data.status # "terminated",
           UNCHANGED <<live, writers, project>>
    PROVE  /\ TablesOK' /\ AssignmentsAreSound'
           /\ \A d \in Companies \ {c} : Untouched(d)
<1>. USE DEF IInv
<1>1. TablesOK'
  BY DEF TablesOK
<1>2. AssignmentsAreSound'
  <2>. SUFFICES ASSUME NEW a \in assigned'
                PROVE  /\ ProjectOf(a[1], a[2])' /\ EmployeeOf(a[1], a[3])'
                       /\ employee'[a[3]].data.status # "terminated"
    BY DEF AssignmentsAreSound
  <2>1. /\ ProjectOf(a[1], a[2]) /\ EmployeeOf(a[1], a[3])
        /\ employee[a[3]].data.status # "terminated"
    BY DEF AssignmentsAreSound
  <2>2. ProjectOf(a[1], a[2])'
    BY <2>1 DEF ProjectOf
  <2>3. CASE a[3] = e
    <3>1. employee'[e] = row
      BY DEF TablesOK
    <3>2. a[1] = c
      BY <2>1, <2>3 DEF EmployeeOf
    <3>. QED BY <2>2, <2>3, <3>1, <3>2 DEF EmployeeOf
  <2>4. CASE a[3] # e
    <3>1. employee'[a[3]] = employee[a[3]]
      BY <2>1, <2>4 DEF TablesOK, EmployeeOf
    <3>. QED BY <2>1, <2>2, <3>1 DEF EmployeeOf
  <2>. QED BY <2>3, <2>4
<1>3. \A d \in Companies \ {c} : Untouched(d)
  BY DEF TablesOK, Untouched, EmployeeOf, ProjectOf
<1>. QED BY <1>1, <1>2, <1>3

\* A project's row is written, with its assignments if they are to go.
LEMMA ProjectWritten ==
    ASSUME IInv, NEW q \in Projects, NEW c \in live,
           project[q] = None \/ project[q].company = c,
           NEW row \in ProjectRows \cup {None}, project' = [project EXCEPT ![q] = row],
           row # None => row.company = c,
           assigned' \subseteq assigned,
           \A a \in assigned' : a[2] = q => row # None,
           UNCHANGED <<live, writers, employee>>
    PROVE  /\ TablesOK' /\ AssignmentsAreSound'
           /\ \A d \in Companies \ {c} : Untouched(d)
<1>. USE DEF IInv
<1>1. TablesOK'
  BY DEF TablesOK
<1>2. AssignmentsAreSound'
  <2>. SUFFICES ASSUME NEW a \in assigned'
                PROVE  /\ ProjectOf(a[1], a[2])' /\ EmployeeOf(a[1], a[3])'
                       /\ employee'[a[3]].data.status # "terminated"
    BY DEF AssignmentsAreSound
  <2>1. /\ ProjectOf(a[1], a[2]) /\ EmployeeOf(a[1], a[3])
        /\ employee[a[3]].data.status # "terminated"
    BY DEF AssignmentsAreSound
  <2>2. EmployeeOf(a[1], a[3])' /\ employee'[a[3]].data.status # "terminated"
    BY <2>1 DEF EmployeeOf
  <2>3. CASE a[2] = q
    <3>1. project'[q] = row /\ a[1] = c
      BY <2>1, <2>3 DEF TablesOK, ProjectOf
    <3>. QED BY <2>2, <2>3, <3>1 DEF ProjectOf
  <2>4. CASE a[2] # q
    <3>1. project'[a[2]] = project[a[2]]
      BY <2>1, <2>4 DEF TablesOK, ProjectOf
    <3>. QED BY <2>1, <2>2, <3>1 DEF ProjectOf
  <2>. QED BY <2>3, <2>4
<1>3. \A d \in Companies \ {c} : Untouched(d)
  BY DEF TablesOK, Untouched, EmployeeOf, ProjectOf
<1>. QED BY <1>1, <1>2, <1>3

\* An allowed effect leaves everything sound, and touches one company only.
LEMMA EffectKeeps ==
    ASSUME IInv, NEW r \in Requests, r.company \in live, Effect(r) \/ Atomic!Assign(r)
    PROVE  /\ TablesOK' /\ AssignmentsAreSound'
           /\ \A d \in Companies \ {r.company} : Untouched(d)
<1>. DEFINE c == r.company
<1>1. c \in Companies
  BY RequestFields
<1>2. CASE Atomic!CreateEmployee(r)
  <2>1. PICK e \in Employees :
          /\ employee[e] = None
          /\ employee' = [employee EXCEPT ![e] = [company |-> c, version |-> 1, data |-> r.data]]
    BY <1>2 DEF Atomic!CreateEmployee
  <2>. DEFINE row == [company |-> c, version |-> 1, data |-> r.data]
  <2>2. r.data \in EmployeeData /\ ValidEmployee(r.data) /\ UNCHANGED <<live, writers, project, assigned>>
    BY <1>2, RequestFields DEF Atomic!CreateEmployee
  <2>3. row \in EmployeeRows /\ row # None /\ row.company = c /\ ValidEmployee(row.data)
    BY <1>1, <2>2, MaxVersionIsPositive, NoneIsNothing DEF EmployeeRows
  <2>4. assigned' \subseteq assigned /\ \A a \in assigned' : a[3] # e
    BY <2>1, <2>2 DEF IInv, AssignmentsAreSound, EmployeeOf
  <2>5. employee' = [employee EXCEPT ![e] = row] /\ UNCHANGED <<live, writers, project>>
    BY <2>1, <2>2
  <2>6. row # None => row.company = c /\ ValidEmployee(row.data)
    BY <2>3
  <2>7. \A a \in assigned' : a[3] = e => row # None /\ row.data.status # "terminated"
    BY <2>4
  <2>8. row \in EmployeeRows \cup {None} /\ (employee[e] = None \/ employee[e].company = c)
    BY <2>1, <2>3
  <2>. HIDE DEF row
  <2>. QED BY <2>4, <2>5, <2>6, <2>7, <2>8, EmployeeWritten
<1>3. CASE Atomic!UpdateEmployee(r)
  <2>. DEFINE e == r.employee
              data == Merge(employee[e].data, r.patch)
              row == [company |-> c, version |-> r.version + 1, data |-> data]
  <2>1. /\ r.op = "updateEmployee" /\ employee[e] # None /\ employee[e].company = c
        /\ r.version < MaxVersion /\ ValidEmployee(data)
        /\ employee' = [employee EXCEPT ![e] = row]
        /\ assigned' = {a \in assigned : a[3] = e => data.status # "terminated"}
        /\ UNCHANGED <<live, writers, project>>
    BY <1>3, SameVocabulary DEF Atomic!UpdateEmployee, Atomic!HasEmployee
  <2>2. e \in Employees /\ r.version \in 1..MaxVersion /\ r.patch \in PatchBodies
    BY <2>1, RequestFields DEF EmployeeOps
  <2>3. data \in EmployeeData
    <3>1. employee[e].data \in EmployeeData
      BY <2>1, <2>2 DEF IInv, TablesOK, EmployeeRows
    <3>. QED BY <2>2, <3>1, MergeTypes
  <2>. HIDE DEF data
  <2>4. row \in EmployeeRows /\ row # None /\ row.company = c /\ row.data = data
    BY <1>1, <2>1, <2>2, <2>3, MaxVersionIsPositive, NoneIsNothing DEF EmployeeRows
  <2>. HIDE DEF row
  <2>. QED BY <2>1, <2>2, <2>4, EmployeeWritten
<1>4. CASE Atomic!DeleteEmployee(r)
  <2>1. /\ r.op = "deleteEmployee" /\ employee[r.employee].company = c
        /\ employee' = [employee EXCEPT ![r.employee] = None]
        /\ assigned' = {a \in assigned : a[3] # r.employee}
        /\ UNCHANGED <<live, writers, project>>
    BY <1>4 DEF Atomic!DeleteEmployee, Atomic!HasEmployee
  <2>2. r.employee \in Employees
    BY <2>1, RequestFields DEF EmployeeOps
  <2>. QED BY <2>1, <2>2, EmployeeWritten
<1>5. CASE Atomic!CreateProject(r)
  <2>. DEFINE row == [company |-> c, version |-> 1, status |-> r.status]
  <2>1. PICK q \in Projects : project[q] = None /\ project' = [project EXCEPT ![q] = row]
    BY <1>5 DEF Atomic!CreateProject
  <2>2. r.status \in ProjectStatuses /\ UNCHANGED <<live, writers, employee, assigned>>
    BY <1>5, RequestFields DEF Atomic!CreateProject
  <2>3. row \in ProjectRows /\ row # None /\ row.company = c
    BY <1>1, <2>2, MaxVersionIsPositive, NoneIsNothing DEF ProjectRows
  <2>. HIDE DEF row
  <2>. QED BY <2>1, <2>2, <2>3, ProjectWritten
<1>6. CASE Atomic!UpdateProject(r)
  <2>. DEFINE q == r.project
              status == Either(r.patch, project[q].status)
              row == [company |-> c, version |-> r.version + 1, status |-> status]
  <2>1. /\ r.op = "updateProject" /\ project[q] # None /\ project[q].company = c
        /\ r.version < MaxVersion
        /\ project' = [project EXCEPT ![q] = row]
        /\ UNCHANGED <<live, writers, employee, assigned>>
    BY <1>6, SameVocabulary DEF Atomic!UpdateProject, Atomic!HasProject
  <2>2. /\ q \in Projects /\ r.version \in 1..MaxVersion
        /\ r.patch \in ProjectStatuses \cup {Keep}
    BY <2>1, RequestFields DEF ProjectOps
  <2>3. status \in ProjectStatuses
    BY <2>1, <2>2 DEF IInv, TablesOK, ProjectRows, Either
  <2>. HIDE DEF status
  <2>4. row \in ProjectRows /\ row # None /\ row.company = c
    BY <1>1, <2>1, <2>2, <2>3, MaxVersionIsPositive, NoneIsNothing DEF ProjectRows
  <2>. HIDE DEF row
  <2>. QED BY <2>1, <2>2, <2>4, ProjectWritten
<1>7. CASE Atomic!DeleteProject(r)
  <2>1. /\ r.op = "deleteProject" /\ project[r.project].company = c
        /\ project' = [project EXCEPT ![r.project] = None]
        /\ assigned' = {a \in assigned : a[2] # r.project}
        /\ UNCHANGED <<live, writers, employee>>
    BY <1>7 DEF Atomic!DeleteProject, Atomic!HasProject
  <2>2. r.project \in Projects
    BY <2>1, RequestFields DEF ProjectOps
  <2>. QED BY <2>1, <2>2, ProjectWritten
<1>8. CASE Atomic!Assign(r)
  <2>. DEFINE row == <<c, r.project, r.employee>>
  <2>1. /\ r.op = "assign"
        /\ project[r.project] # None /\ project[r.project].company = c
        /\ employee[r.employee] # None /\ employee[r.employee].company = c
        /\ employee[r.employee].data.status = "active"
        /\ assigned' = assigned \cup {row}
        /\ UNCHANGED <<live, writers, employee, project>>
    BY <1>8 DEF Atomic!Assign, Atomic!HasProject, Atomic!HasEmployee, Atomic!Row
  <2>2. r.project \in Projects /\ r.employee \in Employees
    BY <2>1, RequestFields DEF ProjectOps, EmployeeOps
  <2>3. TablesOK'
    BY <1>1, <2>1, <2>2 DEF IInv, TablesOK
  <2>4. AssignmentsAreSound'
    BY <2>1, <2>2 DEF IInv, AssignmentsAreSound, ProjectOf, EmployeeOf
  <2>5. \A d \in Companies \ {c} : Untouched(d)
    BY <2>1 DEF Untouched
  <2>. QED BY <2>3, <2>4, <2>5
<1>9. CASE Atomic!Unassign(r)
  <2>1. assigned' \subseteq assigned /\ UNCHANGED <<live, writers, employee, project>>
    BY <1>9 DEF Atomic!Unassign
  <2>2. TablesOK' /\ AssignmentsAreSound'
    BY <2>1 DEF IInv, TablesOK, AssignmentsAreSound, ProjectOf, EmployeeOf
  <2>3. \A d \in Companies \ {c} : Untouched(d)
    BY <2>1 DEF Untouched
  <2>. QED BY <2>2, <2>3
<1>. QED
  BY <1>2, <1>3, <1>4, <1>5, <1>6, <1>7, <1>8, <1>9 DEF Effect

LEMMA CommitStep ==
    ASSUME IInv, NEW p \in Procs, Commit(p)
    PROVE  IInv'
<1>. DEFINE r == req[p]
<1>1. step[p] = "commit" /\ Served(p)
  BY CommitServes
<1>2. r \in Requests /\ r.company \in live /\ companyLock[r.company] = p
  BY <1>1, AtCommit
<1>3. ASSUME NEW a \in {"ok", "created"}, Finish(p, a), Effect(r) \/ Atomic!Assign(r)
      PROVE  IInv'
  <2>1. /\ TablesOK' /\ AssignmentsAreSound'
        /\ \A d \in Companies \ {r.company} : Untouched(d)
    BY <1>2, <1>3, EffectKeeps
  <2>2. Spares(p)
    BY <1>2, <2>1 DEF Spares
  <2>3. Keeps(p) /\ ProcsOK' /\ Path' /\ Held(p)'
    BY <1>3, FinishKeeps DEF Replies
  <2>. QED BY <2>1, <2>2, <2>3, OwnStep
<1>. QED
  BY <1>1, <1>3, RefuseStep, RejectStep DEF Served, Replies

-----------------------------------------------------------------------------
(* The companies component, and the whole.                                 *)

\* A step that is nobody's: nobody moves, and only companies are touched that
\* nobody has locked.
LEMMA OthersStep ==
    ASSUME IInv, NEW c \in Companies, Free(c), UNCHANGED <<locks, req, step, reply, memory>>,
           \A d \in Companies \ {c} : Untouched(d),
           TablesOK', AssignmentsAreSound'
    PROVE  IInv'
<1>1. ASSUME NEW q \in Procs
      PROVE  Held(q)'
  <2>1. Rests(q)
    BY DEF Rests, locks, memory
  <2>2. \A d \in Companies : companyLock[d] = q => Untouched(d)
    BY NoneIsNothing DEF Free
  <2>. QED BY <2>1, <2>2, HeldStays
<1>2. ProcsOK' /\ Path'
  BY DEF IInv, ProcsOK, Path, locks, memory
<1>. QED BY <1>1, <1>2 DEF IInv

LEMMA ChangeAccessStep ==
    ASSUME IInv, NEW c \in Companies, ChangeAccess(c)
    PROVE  IInv'
<1>1. PICK W \in SUBSET Users :
        /\ Free(c)
        /\ writers' = [writers EXCEPT ![c] = W]
        /\ UNCHANGED <<live, employee, project, assigned, locks, req, step, reply, memory>>
  BY DEF ChangeAccess
<1>2. TablesOK' /\ AssignmentsAreSound'
  BY <1>1 DEF IInv, TablesOK, AssignmentsAreSound, ProjectOf, EmployeeOf
<1>3. \A d \in Companies \ {c} : Untouched(d)
  BY <1>1 DEF IInv, TablesOK, Untouched
<1>. QED BY <1>1, <1>2, <1>3, OthersStep

LEMMA DeleteCompanyStep ==
    ASSUME IInv, NEW c \in Companies, DeleteCompany(c)
    PROVE  IInv'
<1>. USE DEF IInv
<1>1. /\ Free(c)
      /\ live' = live \ {c}
      /\ writers' = [writers EXCEPT ![c] = {}]
      /\ employee' = [e \in Employees |-> IF EmployeeOf(c, e) THEN None ELSE employee[e]]
      /\ project' = [q \in Projects |-> IF ProjectOf(c, q) THEN None ELSE project[q]]
      /\ assigned' = {a \in assigned : a[1] # c}
      /\ UNCHANGED <<locks, req, step, reply, memory>>
  BY DEF DeleteCompany, Without
<1>2. TablesOK'
  BY <1>1 DEF TablesOK, EmployeeOf, ProjectOf
<1>3. \A d \in Companies \ {c}, e \in Employees : EmployeeOf(d, e) => employee'[e] = employee[e]
  BY <1>1 DEF EmployeeOf
<1>4. \A d \in Companies \ {c}, q \in Projects : ProjectOf(d, q) => project'[q] = project[q]
  BY <1>1 DEF ProjectOf
<1>5. AssignmentsAreSound'
  <2>. SUFFICES ASSUME NEW a \in assigned'
                PROVE  /\ ProjectOf(a[1], a[2])' /\ EmployeeOf(a[1], a[3])'
                       /\ employee'[a[3]].data.status # "terminated"
    BY DEF AssignmentsAreSound
  <2>1. /\ a[1] \in Companies \ {c} /\ ProjectOf(a[1], a[2]) /\ EmployeeOf(a[1], a[3])
        /\ employee[a[3]].data.status # "terminated"
    BY <1>1 DEF AssignmentsAreSound, TablesOK
  <2>2. employee'[a[3]] = employee[a[3]] /\ project'[a[2]] = project[a[2]]
    BY <1>3, <1>4, <2>1 DEF EmployeeOf, ProjectOf
  <2>. QED BY <2>1, <2>2 DEF EmployeeOf, ProjectOf
<1>6. \A d \in Companies \ {c} : Untouched(d)
  BY <1>1, <1>3, <1>4 DEF TablesOK, Untouched
<1>. QED BY <1>1, <1>2, <1>5, <1>6, OthersStep

LEMMA Inductive == IInv /\ [Next]_vars => IInv'
<1>. SUFFICES ASSUME IInv, [Next]_vars
              PROVE  IInv'
  OBVIOUS
<1>1. CASE UNCHANGED vars
  BY <1>1 DEF IInv, TablesOK, ProcsOK, Path, AssignmentsAreSound, ProjectOf, EmployeeOf, Held,
     InCompany, HasProject, HasEmployee, ProjectFits, EmployeeFits, vars, tables, locks, memory
<1>2. ASSUME NEW p \in Procs, Begin(p) \/ Step(p) \/ Abort(p)
      PROVE  IInv'
  BY <1>2, BeginStep, FindStep, LockCompanyStep, AuthorizeStep, LockProjectStep,
     LockEmployeeStep, ExistingStep, CommitStep, RefuseStep DEF Step, Abort
<1>. QED
  BY <1>1, <1>2, ChangeAccessStep, DeleteCompanyStep DEF Next

LEMMA Invariant == Spec => []IInv
<1>1. Init => IInv
  BY DEF Init, IInv, TablesOK, ProcsOK, Path, AssignmentsAreSound, Held,
     InCompany, HasProject, HasEmployee, Steps, Replies
<1>. QED BY <1>1, Inductive, PTL DEF Spec

-----------------------------------------------------------------------------
(* Theorems.                                                               *)

\* Columns, locks and fields have their types; every row is in a company that
\* exists; and, whatever sequence of partial updates an employee has been
\* through, exactly the terminated have an end date.
THEOREM TypeCorrect == Spec => []TypeOK
BY Invariant, TypesAreIn, PTL

\* No termination, assignment or deletion, in whatever order their statements
\* come, leaves somebody assigned who has left, or to what is gone.
THEOREM SoundAssignments == Spec => []AssignmentsAreSound
BY Invariant, PTL DEF IInv

\* What a use case has read and checked is still so when it writes.
THEOREM ChecksHold == Spec => []StillTrueAtCommit
<1>1. IInv => StillTrueAtCommit
  <2>. SUFFICES ASSUME IInv, NEW p \in Procs, step[p] = "commit"
                PROVE  LET r == req[p] IN
        /\ r.company \in live /\ r.actor \in writers[r.company]
        /\ readProject[p] # None => readProject[p] = project[r.project]
        /\ readEmployee[p] # None => readEmployee[p] = employee[r.employee]
        /\ r.op = "assign" => <<r.company, r.project, r.employee>> \notin assigned
    BY DEF StillTrueAtCommit
  <2>. QED
    BY AtCommit DEF IInv, Held
<1>. QED BY <1>1, Invariant, PTL

-----------------------------------------------------------------------------
(* The transactions implement the atomic specification.                    *)

\* An answer other than an error is given to an authorized request.
LEMMA AnswerServes ==
    ASSUME IInv, NEW p \in Procs, InCompany(p), step[p] # "authorize",
           NEW a, Finish(p, a),
           \/ a = "created" /\ Atomic!Assign(req[p])
           \/ a = "email" /\ Atomic!EmailConflict(req[p]) /\ UNCHANGED tables
           \/ a = "ok" /\ (Effect(req[p]) \/ Atomic!Assigned(req[p]))
    PROVE  Atomic!Serve(p)
<1>1. Held(p) /\ req[p] \in Requests
  BY DEF IInv, Path, InCompany
<1>2. req[p] # None /\ Atomic!Authorized(req[p])
  BY <1>1, NoneIsNothing DEF Held, Atomic!Authorized
<1>3. Atomic!Answer(p, a)
  BY <1>2 DEF Finish, Atomic!Answer
<1>. QED
  BY <1>2, <1>3 DEF Effect, tables, Atomic!tables, Atomic!Serve

LEMMA CommitIsAtomic ==
    ASSUME IInv, NEW p \in Procs, Commit(p)
    PROVE  Refuse(p) \/ Atomic!Serve(p)
<1>1. Served(p) /\ InCompany(p) /\ step[p] # "authorize"
  BY CommitServes DEF InCompany
<1>2. CASE Reject(p, "email") /\ Atomic!EmailConflict(req[p])
  BY <1>1, <1>2, AnswerServes DEF Reject
<1>3. CASE Finish(p, "created") /\ Atomic!Assign(req[p])
  BY <1>1, <1>3, AnswerServes
<1>4. CASE Finish(p, "ok") /\ Effect(req[p])
  BY <1>1, <1>4, AnswerServes
<1>. QED BY <1>1, <1>2, <1>3, <1>4 DEF Served

\* An assignment that is found is the answer, and is there at that moment.
LEMMA ExistingIsAtomic ==
    ASSUME IInv, NEW p \in Procs, Existing(p), Reject(p, "ok"), ~ Refuse(p)
    PROVE  Atomic!Serve(p)
<1>. DEFINE r == req[p]
<1>1. step[p] = "existing" /\ r.op = "assign" /\ Finish(p, "ok") /\ UNCHANGED tables
  BY DEF Existing, IInv, Path, Reject
<1>2. <<r.company, r.project, r.employee>> \in assigned
  <2>1. reply'[p] = "ok" /\ step'[p] = "idle"
    BY <1>1 DEF IInv, ProcsOK, Finish, Goto
  <2>. QED BY <2>1 DEF Existing, Goto, IInv, ProcsOK
<1>3. Atomic!Assigned(r)
  BY <1>1, <1>2 DEF Atomic!Assigned, Atomic!Row, tables, Atomic!tables
<1>. QED BY <1>1, <1>3, AnswerServes DEF InCompany

\* Each step of a request is a step of the atomic specification, or none.
LEMMA StepIsAtomic ==
    IInv /\ [Next]_vars => [Atomic!Next]_Atomic!vars
<1>. SUFFICES ASSUME IInv, [Next]_vars
              PROVE  [Atomic!Next]_Atomic!vars
  OBVIOUS
<1>1. CASE UNCHANGED <<tables, req, reply>>
  BY <1>1 DEF tables, Atomic!vars, Atomic!tables
<1>2. ASSUME NEW p \in Procs, Begin(p)
      PROVE  Atomic!Ask(p)
  BY <1>2, SameVocabulary DEF Begin, IInv, Path, tables, Atomic!Ask, Atomic!tables
<1>3. ASSUME NEW p \in Procs, step[p] # "idle", Refuse(p)
      PROVE  Atomic!Fail(p)
  <2>1. req[p] # None
    BY <1>3, NoneIsNothing DEF IInv, Path
  <2>. QED BY <1>3, <2>1 DEF Refuse, Reject, Finish, tables, Atomic!Fail, Atomic!Answer, Atomic!tables
<1>4. ASSUME NEW p \in Procs, Step(p) \/ Abort(p)
      PROVE  \/ step[p] # "idle" /\ Refuse(p)
             \/ Atomic!Serve(p)
             \/ UNCHANGED <<tables, req, reply>>
  <2>1. CASE Commit(p)
    BY <2>1, CommitServes, CommitIsAtomic
  <2>2. CASE Existing(p)
    <3>1. step[p] = "existing"
      BY <2>2 DEF Existing
    <3>2. Reject(p, "ok") \/ Refuse(p) \/ UNCHANGED <<tables, req, reply>>
      BY <2>2 DEF Existing
    <3>. QED BY <2>2, <3>1, <3>2, ExistingIsAtomic
  <2>3. CASE Abort(p)
    BY <2>3 DEF Abort
  <2>4. CASE Find(p) \/ LockCompany(p) \/ Authorize(p) \/ LockProject(p) \/ LockEmployee(p)
    BY <2>4 DEF Find, LockCompany, Authorize, LockProject, LockEmployee
  <2>. QED BY <1>4, <2>1, <2>2, <2>3, <2>4 DEF Step
<1>5. ASSUME NEW c \in Companies, ChangeAccess(c)
      PROVE  Atomic!ChangeAccess(c)
  BY <1>5 DEF ChangeAccess, Atomic!ChangeAccess
<1>6. ASSUME NEW c \in Companies, DeleteCompany(c)
      PROVE  Atomic!DeleteCompany(c)
  <2>1. /\ employee' = [e \in Employees |-> IF employee[e] # None /\ employee[e].company = c
                                              THEN None ELSE employee[e]]
        /\ project' = [q \in Projects |-> IF project[q] # None /\ project[q].company = c
                                            THEN None ELSE project[q]]
        /\ assigned' = {a \in assigned : a[1] # c}
    BY <1>6 DEF DeleteCompany, EmployeeOf, ProjectOf, Without
  <2>. QED BY <1>6, <2>1 DEF DeleteCompany, Atomic!DeleteCompany
<1>7. UNCHANGED vars => UNCHANGED <<tables, req, reply>>
  BY DEF vars
<1>. QED
  BY <1>1, <1>2, <1>3, <1>4, <1>5, <1>6, <1>7 DEF Next, Atomic!Next

\* Transactions of interleaved statements behave as if each request that is
\* answered with 201, 200 or "address taken" were one step, allowed and true at
\* its moment, and every other one had never been made.
THEOREM Implements == Spec => ImplementsAtomic
<1>1. Init => Atomic!Init
  BY DEF Init, Atomic!Init
<1>. QED
  BY <1>1, StepIsAtomic, Invariant, PTL DEF Spec, ImplementsAtomic, Atomic!Spec

\* Nothing that a client is served with changes the status of a project that is
\* over, or assigns somebody to it.
LEMMA EffectSparesFinished ==
    ASSUME IInv, NEW r \in Requests, Effect(r) \/ Atomic!Assign(r),
           NEW q \in Projects, project[q] # None, project[q].status \notin Assignable
    PROVE  /\ project'[q] # None => project'[q].status = project[q].status
           /\ \A a \in assigned' : a[2] = q => a \in assigned
<1>1. CASE Atomic!UpdateProject(r)
  <2>. DEFINE s == r.project  status == Either(r.patch, project[s].status)
  <2>1. /\ Transition(project[s].status, status)
        /\ project' = [project EXCEPT ![s] =
                          [company |-> r.company, version |-> r.version + 1, status |-> status]]
        /\ UNCHANGED assigned
    BY <1>1, SameVocabulary DEF Atomic!UpdateProject
  <2>2. CASE s = q
    <3>1. status = project[q].status
      BY <2>1, <2>2 DEF Transition, Assignable
    <3>. HIDE DEF status
    <3>. QED BY <2>1, <2>2, <3>1 DEF IInv, TablesOK
  <2>3. CASE s # q
    BY <2>1, <2>3 DEF IInv, TablesOK
  <2>. QED BY <2>2, <2>3
<1>2. CASE Atomic!Assign(r)
  BY <1>2, SameVocabulary DEF Atomic!Assign, Atomic!Row
<1>3. CASE Atomic!CreateProject(r)
  BY <1>3 DEF Atomic!CreateProject, IInv, TablesOK
<1>4. CASE Atomic!DeleteProject(r)
  BY <1>4 DEF Atomic!DeleteProject, IInv, TablesOK
<1>5. CASE Atomic!CreateEmployee(r) \/ Atomic!UpdateEmployee(r) \/ Atomic!DeleteEmployee(r)
           \/ Atomic!Unassign(r)
  BY <1>5 DEF Atomic!CreateEmployee, Atomic!UpdateEmployee, Atomic!DeleteEmployee, Atomic!Unassign
<1>. QED BY <1>1, <1>2, <1>3, <1>4, <1>5 DEF Effect

\* A project that is over stays over, and takes nobody on.
THEOREM Finished == Spec => FinishedStaysFinished
<1>1. ASSUME IInv, [Next]_vars, NEW q \in Projects,
             project[q] # None, project[q].status \notin Assignable
      PROVE  /\ project'[q] # None => project'[q].status = project[q].status
             /\ \A a \in assigned' : a[2] = q => a \in assigned
  <2>1. CASE UNCHANGED tables
    BY <2>1 DEF tables
  <2>2. ASSUME NEW p \in Procs, Commit(p)
        PROVE  \/ UNCHANGED tables
               \/ Effect(req[p]) \/ Atomic!Assign(req[p])
    BY <1>1, <2>2, CommitServes DEF Served, Refuse, Reject
  <2>3. ASSUME NEW p \in Procs, Commit(p)
        PROVE  req[p] \in Requests
    BY <2>3, CommitServes, AtCommit, <1>1
  <2>4. ASSUME NEW p \in Procs, Begin(p) \/ Step(p) \/ Abort(p), ~ Commit(p)
        PROVE  UNCHANGED tables
    BY <2>4 DEF Begin, Step, Abort, Find, LockCompany, Authorize, LockProject, LockEmployee,
       Existing, Refuse, Reject
  <2>5. ASSUME NEW c \in Companies, ChangeAccess(c) \/ DeleteCompany(c)
        PROVE  (project'[q] = None \/ project'[q] = project[q]) /\ assigned' \subseteq assigned
    BY <2>5 DEF ChangeAccess, DeleteCompany, Without
  <2>6. UNCHANGED vars => UNCHANGED tables
    BY DEF vars
  <2>. QED
    BY <1>1, <2>1, <2>2, <2>3, <2>4, <2>5, <2>6, EffectSparesFinished DEF Next
<1>2. IInv /\ [Next]_vars =>
        [\A q \in Projects : project[q] # None /\ project[q].status \notin Assignable =>
            /\ project'[q] # None => project'[q].status = project[q].status
            /\ \A a \in assigned' : a[2] = q => a \in assigned]_vars
  BY <1>1
<1>. QED BY <1>2, Invariant, PTL DEF Spec, FinishedStaysFinished

=============================================================================
