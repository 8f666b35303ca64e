--------------------------- MODULE CompanyAccess ----------------------------
(***************************************************************************)
(* Companies, their access rows and the activity of accounts, as changed   *)
(* by app/companies/services.py and by set_account_status of               *)
(* app/auth/accounts.py.  Every request is one database transaction run    *)
(* statement by statement at PostgreSQL's READ COMMITTED level, so that    *)
(* the statements of concurrent requests interleave: a statement sees what *)
(* is committed when it starts, and SELECT ... FOR UPDATE waits for the    *)
(* row and then returns its newest version.                                *)
(*                                                                         *)
(* A transaction's own writes are invisible to the others before COMMIT,   *)
(* so the writing statements and the COMMIT are one action.                *)
(***************************************************************************)
EXTENDS CompanyRequests, RowLocks, FiniteSets

CONSTANT Procs                  \* concurrent units of work: API requests, scripts

ASSUME CompaniesAreOrdered == Companies \subseteq Nat
ASSUME MaxVersionIsPositive == MaxVersion \in Nat \ {0}
ASSUME NoneIsNoProc == None \notin Procs
ASSUME ProcsAreFinite == IsFiniteSet(Procs)
ASSUME NoneIsNoRequest == None \notin Requests

VARIABLES
    live,           \* companies: the ids that have a row
    version,        \* companies.version of the last row an id had, 0 before any
    role,           \* company_access.role by company and user, "none": no row
    active,         \* users with is_active
    companyLock, accessLock, userLock,  \* holders of the row locks
    req,            \* the request a process works on, None between requests
    step,           \* the statement a process runs next
    reply,          \* how its last request ended
    seen,           \* Company.version loaded by the locking statement
    todo            \* owned companies set_account_status has still to lock

tables == <<live, version, role, active>>
locks == <<companyLock, accessLock, userLock>>
local == <<req, step, reply, seen, todo>>
vars == <<tables, locks, local>>

-----------------------------------------------------------------------------
(* Data.                                                                   *)

Access == Companies \X Users                    \* company_access's primary key

\* The first statement of each use case, and the one after authorization.
FirstStep(op) ==
    CASE op \in {"create", "activate"} -> "lockUser"
      [] op = "deactivate" -> "findOwned"
      [] OTHER -> "find"

AfterAuthorize(op) ==
    CASE op \in {"update", "delete"} -> "commit"
      [] op = "grant" -> "lockUser"
      [] op = "transfer" -> "lockPrevious"
      [] OTHER -> "lockTarget"

\* The account whose row the use case locks.
Subject(r) == IF r.op = "create" THEN r.actor ELSE r.target

\* uq_company_owner: the partial unique index on the owner row of a company.
ManyOwners(roles, c) ==
    \E u, v \in Users : u # v /\ roles[c][u] = "owner" /\ roles[c][v] = "owner"

TypeOK ==
    /\ live \subseteq Companies
    /\ version \in [Companies -> 0..MaxVersion]
    /\ role \in [Companies -> [Users -> Roles \cup {"none"}]]
    /\ active \subseteq Users
    /\ companyLock \in [Companies -> Procs \cup {None}]
    /\ accessLock \in [Access -> Procs \cup {None}]
    /\ userLock \in [Users -> Procs \cup {None}]
    /\ req \in [Procs -> Requests \cup {None}]
    /\ step \in [Procs -> {"idle", "find", "lockCompany", "authorize",
                           "lockPrevious", "lockTarget", "findOwned",
                           "lockOwned", "lockUser", "check", "commit"}]
    /\ reply \in [Procs -> {"none", "ok", "error", "conflict"}]
    /\ seen \in [Procs -> 0..MaxVersion]
    /\ todo \in [Procs -> SUBSET Companies]

Init ==
    /\ live = {}
    /\ version = [c \in Companies |-> 0]
    /\ role = [c \in Companies |-> [u \in Users |-> "none"]]
    /\ active = Users
    /\ companyLock = [c \in Companies |-> None]
    /\ accessLock = [a \in Access |-> None]
    /\ userLock = [u \in Users |-> None]
    /\ req = [p \in Procs |-> None]
    /\ step = [p \in Procs |-> "idle"]
    /\ reply = [p \in Procs |-> "none"]
    /\ seen = [p \in Procs |-> 0]
    /\ todo = [p \in Procs |-> {}]

-----------------------------------------------------------------------------
(* Beginning and ending a unit of work.                                    *)

Goto(p, s) == step' = [step EXCEPT ![p] = s]

\* The session is looked up and its account must be active; the lookup's own
\* transaction is rolled back before the use case starts.  Account scripts
\* authenticate nobody.
Begin(p) ==
    \E r \in Requests :
        /\ step[p] = "idle"
        /\ r.op \notin ScriptOps => r.actor \in active
        /\ req' = [req EXCEPT ![p] = r]
        /\ reply' = [reply EXCEPT ![p] = "none"]
        /\ Goto(p, FirstStep(r.op))
        /\ UNCHANGED <<tables, locks, seen, todo>>

\* The transaction ends, its row locks are freed and the caller is answered.
Finish(p, answer) ==
    /\ Goto(p, "idle")
    /\ reply' = [reply EXCEPT ![p] = answer]
    /\ req' = [req EXCEPT ![p] = None]
    /\ seen' = [seen EXCEPT ![p] = 0]
    /\ todo' = [todo EXCEPT ![p] = {}]
    /\ companyLock' = Release(companyLock, p)
    /\ accessLock' = Release(accessLock, p)
    /\ userLock' = Release(userLock, p)

\* An AppError leaves the use case: __aexit__ rolls everything back.
Refuse(p) == Finish(p, "error") /\ UNCHANGED tables

\* lock_timeout, statement_timeout, a lost connection, a killed process: at
\* any statement the transaction may be rolled back instead.
Abort(p) == step[p] # "idle" /\ Refuse(p)

-----------------------------------------------------------------------------
(* The statements, in the order of the use cases.                          *)

\* accessible(): the snapshot of SELECT companies ... EXISTS (access) FOR
\* UPDATE.  The EXISTS is not evaluated again when the row lock is waited for.
Find(p) ==
    LET r == req[p] IN
    /\ step[p] = "find"
    /\ IF r.company \in live /\ role[r.company][r.actor] # "none"
          THEN Goto(p, "lockCompany") /\ UNCHANGED <<tables, locks, req, reply, seen, todo>>
          ELSE Refuse(p)

\* Mutant: the SELECT without FOR UPDATE.
LockCompanyWithoutLock(p) ==
    /\ step[p] = "lockCompany"
    /\ IF req[p].company \in live
          THEN /\ seen' = [seen EXCEPT ![p] = version[req[p].company]]
               /\ Goto(p, "authorize")
               /\ UNCHANGED <<tables, locks, req, reply, todo>>
          ELSE Refuse(p)

\* The same statement gets the row lock and returns the newest row, if any.
LockCompany(p) ==
    LET c == req[p].company IN
    /\ step[p] = "lockCompany"
    /\ Granted(companyLock, c, p)
    /\ IF c \in live
          THEN /\ companyLock' = Take(companyLock, c, p)
               /\ seen' = [seen EXCEPT ![p] = version[c]]
               /\ Goto(p, "authorize")
               /\ UNCHANGED <<tables, accessLock, userLock, req, reply, todo>>
          ELSE Refuse(p)

\* Mutant: membership is enough, require_role is forgotten.
AuthorizeMembers(p) ==
    LET r == req[p] IN
    /\ step[p] = "authorize"
    /\ IF /\ role[r.company][r.actor] # "none"
          /\ r.op \in {"update", "delete"} => seen[p] = r.version
          THEN Goto(p, AfterAuthorize(r.op)) /\ UNCHANGED <<tables, locks, req, reply, seen, todo>>
          ELSE Refuse(p)

\* session.get(CompanyAccess, populate_existing): the actor's role is read
\* again under the company lock; then require_role and ensure_version.
Authorize(p) ==
    LET r == req[p] IN
    /\ step[p] = "authorize"
    /\ IF /\ role[r.company][r.actor] \in Allowed(r.op)
          /\ r.op \in {"update", "delete"} => seen[p] = r.version
          THEN Goto(p, AfterAuthorize(r.op)) /\ UNCHANGED <<tables, locks, req, reply, seen, todo>>
          ELSE Refuse(p)

\* member(principal, lock=True): the access row of the owner who steps down.
LockPrevious(p) ==
    LET a == <<req[p].company, req[p].actor>> IN
    /\ step[p] = "lockPrevious"
    /\ Granted(accessLock, a, p)
    /\ accessLock' = Take(accessLock, a, p)
    /\ Goto(p, "lockTarget")
    /\ UNCHANGED <<tables, companyLock, userLock, req, reply, seen, todo>>

\* Mutant: change_access without the test for the owner's row.
LockTargetAnyRole(p) ==
    LET a == <<req[p].company, req[p].target>> IN
    /\ step[p] = "lockTarget"
    /\ Granted(accessLock, a, p)
    /\ IF role[req[p].company][req[p].target] # "none"
          THEN /\ accessLock' = Take(accessLock, a, p)
               /\ Goto(p, IF req[p].op = "transfer" THEN "lockUser" ELSE "commit")
               /\ UNCHANGED <<tables, companyLock, userLock, req, reply, seen, todo>>
          ELSE Refuse(p)

\* member(target, lock=True): the row must exist and not be the owner's.
LockTarget(p) ==
    LET a == <<req[p].company, req[p].target>> IN
    /\ step[p] = "lockTarget"
    /\ Granted(accessLock, a, p)
    /\ IF role[req[p].company][req[p].target] \in GrantedRoles
          THEN /\ accessLock' = Take(accessLock, a, p)
               /\ Goto(p, IF req[p].op = "transfer" THEN "lockUser" ELSE "commit")
               /\ UNCHANGED <<tables, companyLock, userLock, req, reply, seen, todo>>
          ELSE Refuse(p)

\* set_account_status(False): the snapshot of the companies the account owns.
FindOwned(p) ==
    LET owned == {c \in live : role[c][req[p].target] = "owner"} IN
    /\ step[p] = "findOwned"
    /\ todo' = [todo EXCEPT ![p] = owned]
    /\ Goto(p, IF owned = {} THEN "lockUser" ELSE "lockOwned")
    /\ UNCHANGED <<tables, locks, req, reply, seen>>

\* Mutant: without ORDER BY.
NextOwnedUnordered(p) == todo[p]

\* ORDER BY companies.id: the companies the statement may lock next.
NextOwned(p) == {c \in todo[p] : \A d \in todo[p] : c <= d}

\* ... FOR UPDATE: one row lock after the other; a deleted row is skipped.
LockOwned(p) ==
    \E c \in NextOwned(p) :
        /\ step[p] = "lockOwned"
        /\ Granted(companyLock, c, p)
        /\ companyLock' = IF c \in live THEN Take(companyLock, c, p) ELSE companyLock
        /\ todo' = [todo EXCEPT ![p] = @ \ {c}]
        /\ Goto(p, IF todo[p] = {c} THEN "lockUser" ELSE "lockOwned")
        /\ UNCHANGED <<tables, accessLock, userLock, req, reply, seen>>

\* Mutant: the SELECT without FOR UPDATE.
LockUserWithoutLock(p) ==
    LET r == req[p] IN
    /\ step[p] = "lockUser"
    /\ IF Subject(r) \in active \/ r.op \in ScriptOps
          THEN /\ Goto(p, IF r.op \in {"grant", "deactivate"} THEN "check" ELSE "commit")
               /\ UNCHANGED <<tables, locks, req, reply, seen, todo>>
          ELSE Refuse(p)

\* users.lock(): all but the account scripts want the account to be active.
LockUser(p) ==
    LET r == req[p]  u == Subject(r) IN
    /\ step[p] = "lockUser"
    /\ Granted(userLock, u, p)
    /\ IF u \in active \/ r.op \in ScriptOps
          THEN /\ userLock' = Take(userLock, u, p)
               /\ Goto(p, IF r.op \in {"grant", "deactivate"} THEN "check" ELSE "commit")
               /\ UNCHANGED <<tables, companyLock, accessLock, req, reply, seen, todo>>
          ELSE Refuse(p)

\* grant_access: a member has access already.  set_account_status(False):
\* an owner, of any company, must transfer ownership first.
Check(p) ==
    LET r == req[p] IN
    /\ step[p] = "check"
    /\ IF \/ r.op = "grant" /\ role[r.company][r.target] = "none"
          \/ r.op = "deactivate" /\ \A c \in live : role[c][r.target] # "owner"
          THEN Goto(p, "commit") /\ UNCHANGED <<tables, locks, req, reply, seen, todo>>
          ELSE Refuse(p)

-----------------------------------------------------------------------------
(* The writes of each use case and its COMMIT.  "conflict" is the answer   *)
(* when the database refuses a write: a primary key, a foreign key or      *)
(* uq_company_owner is violated, or the row the ORM flushes is gone.       *)

\* A new company gets an id that no company ever had.  (Bound: Companies; a
\* request that finds all of them used up fails.)
CommitCreate(p) ==
    LET unused == {c \in Companies : version[c] = 0} IN
    /\ step[p] = "commit" /\ req[p].op = "create"
    /\ IF unused = {}
          THEN Refuse(p)
          ELSE \E c \in unused :
                /\ live' = live \cup {c}
                /\ version' = [version EXCEPT ![c] = 1]
                /\ role' = [role EXCEPT ![c][req[p].actor] = "owner"]
                /\ Finish(p, "ok")
                /\ UNCHANGED active

\* Mutant: a version column of unlimited width.
CommitUpdateUnlimited(p) ==
    /\ step[p] = "commit" /\ req[p].op = "update"
    /\ version' = [version EXCEPT ![req[p].company] = @ + 1]
    /\ Finish(p, "ok")
    /\ UNCHANGED <<live, role, active>>

\* UPDATE ... WHERE id AND version: the row count is not looked at, but the
\* row is read back.  Past MaxVersion the integer column overflows.
CommitUpdate(p) ==
    LET r == req[p]  c == r.company IN
    /\ step[p] = "commit" /\ r.op = "update"
    /\ IF r.version = MaxVersion \/ c \notin live
          THEN Refuse(p)
          ELSE /\ version' = IF version[c] = r.version
                               THEN [version EXCEPT ![c] = r.version + 1] ELSE version
               /\ Finish(p, "ok")
               /\ UNCHANGED <<live, role, active>>

\* DELETE ... WHERE id AND version; the access rows go with the company.
CommitDelete(p) ==
    LET r == req[p]
        hit == {c \in live : c = r.company /\ version[c] = r.version}
    IN
    /\ step[p] = "commit" /\ r.op = "delete"
    /\ live' = live \ hit
    /\ role' = [c \in Companies |->
                  IF c \in hit THEN [u \in Users |-> "none"] ELSE role[c]]
    /\ Finish(p, "ok")
    /\ UNCHANGED <<version, active>>

\* A flush that leaves the access rows as "roles" unless the database refuses.
Write(p, roles, refused) ==
    /\ role' = IF refused THEN role ELSE roles
    /\ Finish(p, IF refused THEN "conflict" ELSE "ok")
    /\ UNCHANGED <<live, version, active>>

CommitGrant(p) ==
    LET r == req[p]  c == r.company IN
    /\ step[p] = "commit" /\ r.op = "grant"
    /\ Write(p, [role EXCEPT ![c][r.target] = r.role],
             c \notin live \/ role[c][r.target] # "none")

CommitChange(p) ==
    LET r == req[p]  c == r.company IN
    /\ step[p] = "commit" /\ r.op \in {"change", "revoke"}
    /\ Write(p, [role EXCEPT ![c][r.target] = IF r.op = "revoke" THEN "none" ELSE r.role],
             role[c][r.target] = "none")

\* Two flushes: the old owner steps down before the new one is made, and the
\* owner index is checked after each.
CommitTransfer(p) ==
    LET r == req[p]  c == r.company
        demoted == [role EXCEPT ![c][r.actor] = r.role]
        promoted == [demoted EXCEPT ![c][r.target] = "owner"]
    IN
    /\ step[p] = "commit" /\ r.op = "transfer"
    /\ Write(p, promoted, \/ "none" \in {role[c][r.actor], role[c][r.target]}
                         \/ ManyOwners(demoted, c) \/ ManyOwners(promoted, c))

CommitStatus(p) ==
    LET r == req[p] IN
    /\ step[p] = "commit" /\ r.op \in ScriptOps
    /\ active' = IF r.op = "activate" THEN active \cup {r.target} ELSE active \ {r.target}
    /\ Finish(p, "ok")
    /\ UNCHANGED <<live, version, role>>

Commit(p) ==
    \/ CommitCreate(p) \/ CommitUpdate(p) \/ CommitDelete(p)
    \/ CommitGrant(p) \/ CommitChange(p) \/ CommitTransfer(p) \/ CommitStatus(p)

-----------------------------------------------------------------------------
(* Waiting, the next-state relation and fairness.                          *)

\* Who holds the row lock that p's next statement wants.
Blockers(p) ==
    LET r == req[p] IN
    CASE step[p] = "lockCompany" -> {companyLock[r.company]}
      [] step[p] = "lockPrevious" -> {accessLock[<<r.company, r.actor>>]}
      [] step[p] = "lockTarget" -> {accessLock[<<r.company, r.target>>]}
      [] step[p] = "lockOwned" -> {companyLock[c] : c \in NextOwned(p)}
      [] step[p] = "lockUser" -> {userLock[Subject(r)]}
      [] OTHER -> {}

Waiting(p) == Blockers(p) \ {None, p} # {}

\* A row lock is not waited for longer than lock_timeout: the statement fails.
LockTimeout(p) == Waiting(p) /\ Refuse(p)

Step(p) ==
    \/ Find(p) \/ LockCompany(p) \/ Authorize(p) \/ LockPrevious(p)
    \/ LockTarget(p) \/ FindOwned(p) \/ LockOwned(p) \/ LockUser(p)
    \/ Check(p) \/ Commit(p)

Next == \E p \in Procs : Begin(p) \/ Step(p) \/ LockTimeout(p) \/ Abort(p)

Spec == Init /\ [][Next]_vars

-----------------------------------------------------------------------------
(* Properties.                                                             *)

\* Every company has one owner, whatever mix of creations, transfers, access
\* changes and deactivations runs concurrently (uq_company_owner only
\* promises that there are not two).
ExactlyOneOwner ==
    \A c \in live : \E u \in Users : \A v \in Users : role[c][v] = "owner" <=> v = u

\* Nobody owns a company with a deactivated account: set_account_status and
\* the use cases that make owners meet on the row lock of the account.
OwnerIsActive ==
    \A c \in live, u \in Users : role[c][u] = "owner" => u \in active

\* What the use cases check under their row locks makes every write succeed:
\* no request is ever answered with the constraint violation behind it.
BackstopSilent == \A p \in Procs : reply[p] # "conflict"

\* Check-then-act: what the checks of a use case found is still true when its
\* writes are made, several statements later, with others committing between.
StillTrueAtCommit ==
    \A p \in Procs : step[p] = "commit" =>
        LET r == req[p] IN
        /\ r.op \in CompanyOps => r.company \in live /\ role[r.company][r.actor] \in Allowed(r.op)
        /\ r.op \in {"update", "delete"} => version[r.company] = r.version
        /\ r.op = "grant" => role[r.company][r.target] = "none"
        /\ r.op \in {"change", "revoke", "transfer"} => role[r.company][r.target] \in GrantedRoles
        /\ r.op \in {"create", "grant", "transfer"} => Subject(r) \in active
        /\ r.op = "deactivate" => \A c \in live : role[c][r.target] # "owner"

\* p is answered with success only if the version it named is replaced.
AppliedIfOk(p) ==
    step[p] = "commit" /\ step'[p] = "idle" /\ reply'[p] = "ok" =>
        LET r == req[p]  c == r.company IN
        /\ r.op = "update" => version[c] = r.version /\ version'[c] = r.version + 1
        /\ r.op = "delete" => version[c] = r.version /\ c \in live \ live'

\* Optimistic locking: an update or a delete that is answered with success
\* was applied to the very version its If-Match header named, although the
\* row counts of the two statements are never read.
AnsweredMeansApplied == [][\A p \in Procs : AppliedIfOk(p)]_vars

\* Row locks are taken in one order (companies by id, access rows, accounts):
\* no set of requests ever waits in a circle, for PostgreSQL to break.
NoWaitCycle ==
    \A S \in SUBSET Procs :
        S # {} => \E p \in S : Blockers(p) \cap (S \ {p}) = {}

\* Each use case that is answered with success took effect at one instant and
\* was authorized then, and every other one left no trace: see
\* CompanyAccessAtomic.
Atomic == INSTANCE CompanyAccessAtomic

ImplementsAtomic == Atomic!Spec

\* Every request is answered, also under a stream of requests for the same
\* rows: a wait for a lock ends by lock_timeout at the latest.
EveryRequestAnswered == \A p \in Procs : step[p] # "idle" ~> step[p] = "idle"

=============================================================================
