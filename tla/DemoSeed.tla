----------------------------- MODULE DemoSeed -------------------------------
(***************************************************************************)
(* scripts/seed_demo.py beside the API and the account scripts, on a       *)
(* development database that is in use: one transaction that upserts the   *)
(* demo accounts, then the demo companies, and replaces the access rows    *)
(* that tie them together.  It locks accounts before companies, which is   *)
(* the opposite of what everybody else does.  Before the first seed its    *)
(* accounts are not there, and others may be provisioned with their logins *)
(* under ids of their own.                                                 *)
(***************************************************************************)
EXTENDS CompanyAccess, Sequences

CONSTANTS
    Seeder,         \* the process that runs the script
    DemoUsers,      \* its accounts, in the order of the upserts
    DemoCompanies,  \* its companies, likewise
    DemoRole        \* the access it grants: [demo company -> [demo account -> role]]

ASSUME SeederIsApart == Seeder \notin Procs \cup {None}
ASSUME DemoRowsAreListed ==
    DemoUsers \in Seq(Users) \ {<<>>} /\ DemoCompanies \in Seq(Companies) \ {<<>>}

VARIABLES
    phase,          \* what the seed does next
    at,             \* which account or company it upserts next
    outcome,        \* how the last seed ended
    login           \* who has the login of a demo account: nobody ("free"), the
                    \* demo account ("own"), another account ("others"), or one
                    \* whose INSERT has not committed yet ("claimed")

seedVars == <<phase, at, outcome, login>>
allVars == <<vars, seedVars>>

DemoUser == {DemoUsers[i] : i \in DOMAIN DemoUsers}
DemoCompany == {DemoCompanies[i] : i \in DOMAIN DemoCompanies}
DemoAccess == {a \in Access : a[1] \in DemoCompany /\ a[2] \in DemoUser}

\* The demo accounts that have no row.
Absent == {u \in DemoUser : login[u] # "own"}

\* seed_access names one owner for each demo company.
ASSUME DemoRolesHaveOwners ==
    \A c \in DemoCompany :
        /\ DemoRole[c] \in [DemoUser -> Roles \cup {"none"}]
        /\ \E u \in DemoUser : \A v \in DemoUser : DemoRole[c][v] = "owner" <=> v = u

\* The access rows that the seed is to leave.
SeededRole(c, u) ==
    IF <<c, u>> \in DemoAccess THEN DemoRole[c][u] ELSE role[c][u]

SeedTypeOK ==
    /\ phase \in {"idle", "users", "companies", "access", "commit"}
    /\ at \in Nat
    /\ outcome \in {"none", "ok", "error", "conflict"}
    /\ login \in [DemoUser -> {"free", "own", "claimed", "others"}]

\* Seeded before, with the demo companies still there or deleted since, or not
\* seeded yet.  The ids of the companies are fixed: no creation ever draws one
\* of them (it only takes version 0).
SeedInit ==
    /\ login \in {[u \in DemoUser |-> who] : who \in {"own", "free"}}
    /\ \/ /\ live = DemoCompany /\ Absent = {}
          /\ role = [c \in Companies |-> [u \in Users |->
                IF <<c, u>> \in DemoAccess THEN DemoRole[c][u] ELSE "none"]]
       \/ live = {} /\ role = [c \in Companies |-> [u \in Users |-> "none"]]
    /\ version = [c \in Companies |-> IF c \in DemoCompany THEN 1 ELSE 0]
    /\ active = Users \ Absent
    /\ companyLock = [c \in Companies |-> None]
    /\ accessLock = [a \in Access |-> None]
    /\ userLock = [u \in Users |-> None]
    /\ req = [p \in Procs |-> None]
    /\ step = [p \in Procs |-> "idle"]
    /\ reply = [p \in Procs |-> "none"]
    /\ seen = [p \in Procs |-> 0]
    /\ todo = [p \in Procs |-> {}]
    /\ phase = "idle" /\ at = 1 /\ outcome = "none"

-----------------------------------------------------------------------------
(* The statements of the seed.                                             *)

SeedBegin ==
    /\ phase = "idle"
    /\ phase' = "users" /\ at' = 1 /\ outcome' = "none"
    /\ UNCHANGED <<vars, login>>

\* The next statement upserts the next row, or begins with what follows.
Continue(rows, following) ==
    /\ at' = IF at = Len(rows) THEN 1 ELSE at + 1
    /\ phase' = IF at = Len(rows) THEN following ELSE phase
    /\ UNCHANGED <<outcome, login>>

SeedFinish(answer) ==
    /\ phase' = "idle" /\ at' = 1 /\ outcome' = answer
    /\ companyLock' = Release(companyLock, Seeder)
    /\ accessLock' = Release(accessLock, Seeder)
    /\ userLock' = Release(userLock, Seeder)
    /\ UNCHANGED local

\* INSERT ... ON CONFLICT (id) DO UPDATE waits for the row and locks it; or it
\* inserts the row, which keeps others from the login.
SeedUser ==
    LET u == DemoUsers[at] IN
    /\ phase = "users"
    /\ login[u] \in {"own", "free"}
    /\ Granted(userLock, u, Seeder)
    /\ userLock' = Take(userLock, u, Seeder)
    /\ Continue(DemoUsers, "companies")
    /\ UNCHANGED <<tables, companyLock, accessLock, local>>

\* ON CONFLICT names only the id: where an account with another id has the
\* login, uq_users_login_normalized refuses the row.
SeedUserRefused ==
    /\ phase = "users" /\ login[DemoUsers[at]] = "others"
    /\ SeedFinish("conflict")
    /\ UNCHANGED <<tables, login>>

\* Mutant: ON CONFLICT DO NOTHING.
SeedCompanyUnlocked ==
    phase = "companies" /\ Continue(DemoCompanies, "access") /\ UNCHANGED vars

\* The same for a company; one that is gone is inserted, and nobody sees it.
SeedCompany ==
    LET c == DemoCompanies[at] IN
    /\ phase = "companies"
    /\ Granted(companyLock, c, Seeder)
    /\ companyLock' = Take(companyLock, c, Seeder)
    /\ Continue(DemoCompanies, "access")
    /\ UNCHANGED <<tables, accessLock, userLock, local>>

\* Mutant: rows that somebody changed are kept.
DeletedAccessUnchanged ==
    {a \in DemoAccess : role[a[1]][a[2]] = DemoRole[a[1]][a[2]] /\ role[a[1]][a[2]] # "none"}

\* DELETE of the access rows of demo accounts in demo companies.
DeletedAccess == {a \in DemoAccess : role[a[1]][a[2]] # "none"}

SeedAccess ==
    /\ phase = "access"
    /\ \A a \in DeletedAccess : Granted(accessLock, a, Seeder)
    /\ accessLock' = [a \in Access |-> IF a \in DeletedAccess THEN Seeder ELSE accessLock[a]]
    /\ phase' = "commit"
    /\ UNCHANGED <<tables, companyLock, userLock, local, at, outcome, login>>

\* The inserted rows meet one that the DELETE has not seen, or an owner who is
\* no demo account: uq_company_owner.
SeedConflicts ==
    \/ \E a \in DemoAccess : role[a[1]][a[2]] # "none" /\ accessLock[a] # Seeder
    \/ \E c \in DemoCompany : \E u \in Users \ DemoUser : role[c][u] = "owner"

\* The writes and the COMMIT.
SeedCommit ==
    /\ phase = "commit"
    /\ IF SeedConflicts
          THEN SeedFinish("conflict") /\ UNCHANGED <<tables, login>>
          ELSE /\ live' = live \cup DemoCompany
               /\ version' = [c \in Companies |-> IF c \in DemoCompany THEN 1 ELSE version[c]]
               /\ role' = [c \in Companies |-> [u \in Users |-> SeededRole(c, u)]]
               /\ active' = active \cup DemoUser
               /\ login' = [u \in DemoUser |-> "own"]
               /\ SeedFinish("ok")

SeedWaiting ==
    \/ /\ phase = "users"
       /\ ~ Granted(userLock, DemoUsers[at], Seeder) \/ login[DemoUsers[at]] = "claimed"
    \/ phase = "companies" /\ ~ Granted(companyLock, DemoCompanies[at], Seeder)
    \/ phase = "access" /\ \E a \in DeletedAccess : ~ Granted(accessLock, a, Seeder)

\* Mutant: lock_timeout is not set.
SeedWaitsForever == FALSE

SeedTimeout == SeedWaiting /\ SeedFinish("error") /\ UNCHANGED <<tables, login>>

\* The script is interrupted, or loses its connection.
SeedAbort == phase # "idle" /\ SeedFinish("error") /\ UNCHANGED <<tables, login>>

SeedStep == SeedUser \/ SeedUserRefused \/ SeedCompany \/ SeedAccess \/ SeedCommit

-----------------------------------------------------------------------------
(* The others.                                                             *)

\* create_user inserts an account of its own id with the login of u; it waits
\* while a seed has inserted that, and fails where somebody has it.
Claim(u) ==
    /\ login[u] = "free" /\ userLock[u] # Seeder
    /\ login' = [login EXCEPT ![u] = "claimed"]
    /\ UNCHANGED <<vars, phase, at, outcome>>

\* Its COMMIT, or ROLLBACK.
Settle(u) ==
    /\ login[u] = "claimed"
    /\ \E who \in {"others", "free"} : login' = [login EXCEPT ![u] = who]
    /\ UNCHANGED <<vars, phase, at, outcome>>

\* users.lock() of an account that has no row, or none that is committed, finds
\* nothing and does not wait: the use case is refused.
Serve(p) ==
    IF step[p] = "lockUser" /\ Subject(req[p]) \in Absent
       THEN Refuse(p)
       ELSE Step(p) \/ LockTimeout(p)

SeedNext ==
    \/ SeedBegin \/ SeedStep \/ SeedTimeout \/ SeedAbort
    \/ \E u \in DemoUser : Claim(u) \/ Settle(u)
    \/ (\E p \in Procs : Begin(p) \/ Serve(p) \/ Abort(p)) /\ UNCHANGED seedVars

SeedSpec == SeedInit /\ [][SeedNext]_allVars

\* A unit of work that can run runs, and one that waits is timed out; nothing
\* says that clients send requests, or that a lock is granted in the end.
SeedFairSpec ==
    /\ SeedSpec
    /\ \A p \in Procs : WF_allVars(Serve(p) /\ UNCHANGED seedVars)
    /\ WF_allVars(SeedStep \/ SeedTimeout)

-----------------------------------------------------------------------------
(* Properties.                                                             *)

\* The seed also leaves every company one owner, and an active one, whatever
\* transfers, deletions and deactivations run while it collects its locks; and
\* no use case that has checked its version, its role and its target is overtaken
\* by the seed, which sets versions back and replaces roles.  Nor does the seed
\* write a login that another account has come to have since its upsert.
RulesSurviveSeeding ==
    /\ ExactlyOneOwner /\ OwnerIsActive /\ StillTrueAtCommit
    /\ phase = "commit" => \A u \in DemoUser : login[u] \in {"own", "free"}

\* The seed is refused only where its data cannot be put in place: a demo
\* company belongs to an account from outside by now, or an account with another
\* id has a demo login.  Whatever else runs at the same time only delays it: a
\* grant, a deletion or a demotion never makes its inserts fail, nor does a
\* provisioning that has not committed.
RefusedOnlyOverOthers ==
    [][outcome' = "conflict" /\ outcome # "conflict" =>
         \/ \E c \in DemoCompany, u \in Users \ DemoUser : role[c][u] = "owner"
         \/ \E u \in DemoUser : login[u] = "others"]_allVars

\* The seed and a grant can wait for each other in a circle (accounts first
\* against companies first), and still every one of them comes to an end.
SeedAndRequestsEnd ==
    /\ phase # "idle" ~> phase = "idle"
    /\ EveryRequestAnswered

=============================================================================
