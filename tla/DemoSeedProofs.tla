--------------------------- MODULE DemoSeedProofs ---------------------------
(***************************************************************************)
(* Proofs about DemoSeed, for any demo data, companies, accounts and       *)
(* processes.  The seed is one more holder of row locks: what              *)
(* CompanyAccessProofs shows of a step of a request, that it spares what   *)
(* others have locked, is shown here of the seed's steps, and the same     *)
(* invariant stands.                                                       *)
(***************************************************************************)
EXTENDS DemoSeed, CompanyAccessProofs

-----------------------------------------------------------------------------
(* The invariant.                                                          *)

\* Where the seed is, and that the rows before that are locked.
Collected ==
    /\ phase \in {"idle", "users", "companies", "access", "commit"} /\ at \in Nat
    /\ phase = "users" =>
        /\ at \in DOMAIN DemoUsers
        /\ \A i \in DOMAIN DemoUsers : i < at => userLock[DemoUsers[i]] = Seeder
    /\ phase \in {"companies", "access", "commit"} =>
        \A u \in DemoUser : userLock[u] = Seeder
    /\ phase = "companies" =>
        /\ at \in DOMAIN DemoCompanies
        /\ \A i \in DOMAIN DemoCompanies : i < at => companyLock[DemoCompanies[i]] = Seeder
    /\ phase \in {"access", "commit"} =>
        \A c \in DemoCompany : companyLock[c] = Seeder

\* The DELETE has seen, and locked, every access row it is to replace.
NoneMissed ==
    phase = "commit" =>
        \A a \in DemoAccess : role[a[1]][a[2]] # "none" => accessLock[a] = Seeder

\* A creation cannot draw the id of a demo company.
Taken == \A c \in DemoCompany : version[c] # 0

\* The accounts that the seed has upserted, whose logins nobody can take.
Passed(u) ==
    \/ phase \in {"companies", "access", "commit"}
    \/ phase = "users" /\ \E i \in DOMAIN DemoUsers : i < at /\ DemoUsers[i] = u

Reserved ==
    /\ LockTable(DemoUser, login)
    /\ \A u \in DemoUser : Passed(u) => login[u] \in {"own", "free"}

SeedInv == IInv /\ Collected /\ NoneMissed /\ Taken /\ Reserved

-----------------------------------------------------------------------------
(* The demo data.                                                          *)

LEMMA DemoRows ==
    /\ DemoUser \subseteq Users /\ DemoCompany \subseteq Companies
    /\ Len(DemoUsers) \in Nat \ {0} /\ DOMAIN DemoUsers = 1 .. Len(DemoUsers)
    /\ Len(DemoCompanies) \in Nat \ {0} /\ DOMAIN DemoCompanies = 1 .. Len(DemoCompanies)
    /\ DemoAccess = DemoCompany \X DemoUser
<1>1. DemoUser \subseteq Users /\ DemoCompany \subseteq Companies
  BY DemoRowsAreListed DEF DemoUser, DemoCompany
<1>2. /\ Len(DemoUsers) \in Nat \ {0} /\ DOMAIN DemoUsers = 1 .. Len(DemoUsers)
      /\ Len(DemoCompanies) \in Nat \ {0} /\ DOMAIN DemoCompanies = 1 .. Len(DemoCompanies)
  BY DemoRowsAreListed
<1>3. DemoAccess = DemoCompany \X DemoUser
  BY <1>1 DEF DemoAccess, Access
<1>. QED BY <1>1, <1>2, <1>3

LEMMA Outside == Seeder \notin Procs /\ Seeder # None
BY SeederIsApart

-----------------------------------------------------------------------------
(* The seed's steps.                                                       *)

\* What a statement outside the API must see to for the invariant of the API.
LEMMA OutsideStep ==
    ASSUME IInv, Keeps(Seeder), Spares(Seeder), UNCHANGED local, Typed',
           ExactlyOneOwner', OwnerIsActive', NoOrphans'
    PROVE  IInv'
<1>1. \A q \in Procs : Held(q)'
  BY OthersHold, Outside
<1>2. Path' /\ BackstopSilent'
  BY DEF IInv, Path, BackstopSilent, local
<1>. QED BY <1>1, <1>2 DEF IInv

\* The same for one that writes nothing.
LEMMA OutsideRead ==
    ASSUME IInv, Keeps(Seeder), UNCHANGED <<tables, local>>,
           LockTable(Companies, companyLock'), LockTable(Access, accessLock'),
           LockTable(Users, userLock')
    PROVE  IInv'
<1>1. Spares(Seeder)
  BY DEF Spares, tables
<1>2. Typed'
  BY DEF IInv, Typed, tables, local
<1>3. ExactlyOneOwner' /\ OwnerIsActive' /\ NoOrphans'
  BY DEF IInv, ExactlyOneOwner, OwnerIsActive, NoOrphans, tables
<1>. QED BY <1>1, <1>2, <1>3, OutsideStep

LEMMA SeedBeginKeeps ==
    ASSUME SeedInv, SeedBegin
    PROVE  SeedInv'
<1>1. /\ phase' = "users" /\ at' = 1 /\ phase = "idle" /\ UNCHANGED <<vars, login>>
  BY DEF SeedBegin
<1>2. IInv'
  BY <1>1, Inductive DEF SeedInv
<1>3. \A i \in DOMAIN DemoUsers : ~ (i < 1)
  BY DemoRows
<1>4. Collected'
  BY <1>1, <1>3, DemoRows DEF Collected
<1>5. Reserved'
  BY <1>1, <1>3 DEF SeedInv, Reserved, Passed
<1>. QED BY <1>1, <1>2, <1>4, <1>5 DEF SeedInv, NoneMissed, Taken, vars, tables

\* The statement after the last row of a list begins with what follows, and
\* then the whole list is locked.
LEMMA ListLocked ==
    ASSUME NEW rows, NEW n \in Nat \ {0}, DOMAIN rows = 1 .. n, Len(rows) = n, at \in 1 .. n,
           NEW lock, NEW now,
           \A i \in DOMAIN rows : i < at => lock[rows[i]] = Seeder,
           now[rows[at]] = Seeder,
           \A i \in DOMAIN rows : lock[rows[i]] = Seeder => now[rows[i]] = Seeder
    PROVE  /\ at = Len(rows) => \A i \in DOMAIN rows : now[rows[i]] = Seeder
           /\ at # Len(rows) => at + 1 \in DOMAIN rows
                                /\ \A i \in DOMAIN rows : i < at + 1 => now[rows[i]] = Seeder
<1>1. \A i \in DOMAIN rows : i < at + 1 => i < at \/ i = at
  OBVIOUS
<1>2. \A i \in DOMAIN rows : i < at + 1 => now[rows[i]] = Seeder
  BY <1>1
<1>3. at = n => \A i \in DOMAIN rows : i < at + 1
  OBVIOUS
<1>. QED BY <1>2, <1>3

LEMMA SeedUserKeeps ==
    ASSUME SeedInv, SeedUser
    PROVE  SeedInv'
<1>. DEFINE u == DemoUsers[at]
<1>1. /\ phase = "users" /\ Granted(userLock, u, Seeder) /\ userLock' = Take(userLock, u, Seeder)
      /\ at' = IF at = Len(DemoUsers) THEN 1 ELSE at + 1
      /\ phase' = IF at = Len(DemoUsers) THEN "companies" ELSE phase
      /\ login[u] \in {"own", "free"}
      /\ UNCHANGED <<tables, companyLock, accessLock, local, login>>
  BY DEF SeedUser, Continue
<1>2. /\ at \in DOMAIN DemoUsers /\ u \in Users
      /\ \A i \in DOMAIN DemoUsers : i < at => userLock[DemoUsers[i]] = Seeder
  BY <1>1, DemoRows DEF SeedInv, Collected, DemoUser
<1>3. Typed
  BY DEF SeedInv, IInv
<1>4. /\ LockTable(Users, userLock') /\ userLock'[u] = Seeder
      /\ \A v \in Users : userLock[v] \notin {None, Seeder} => userLock'[v] = userLock[v]
      /\ \A v \in Users : userLock[v] = Seeder => userLock'[v] = Seeder
  BY <1>1, <1>2, <1>3, LockTables DEF Typed
<1>. HIDE DEF u
<1>5. Keeps(Seeder)
  BY <1>1, <1>4 DEF Keeps, local
<1>6. IInv'
  BY <1>1, <1>3, <1>4, <1>5, OutsideRead DEF SeedInv, Typed
<1>7. \A i \in DOMAIN DemoUsers : userLock[DemoUsers[i]] = Seeder => userLock'[DemoUsers[i]] = Seeder
  BY <1>4, DemoRows DEF DemoUser
<1>8. /\ at = Len(DemoUsers) => \A i \in DOMAIN DemoUsers : userLock'[DemoUsers[i]] = Seeder
      /\ at # Len(DemoUsers) => at + 1 \in DOMAIN DemoUsers
            /\ \A i \in DOMAIN DemoUsers : i < at + 1 => userLock'[DemoUsers[i]] = Seeder
  <2>1. userLock'[DemoUsers[at]] = Seeder
    BY <1>4 DEF u
  <2>2. Len(DemoUsers) \in Nat \ {0} /\ DOMAIN DemoUsers = 1 .. Len(DemoUsers)
        /\ at \in 1 .. Len(DemoUsers)
    BY <1>2, DemoRows
  <2>. QED BY <1>2, <1>7, <2>1, <2>2, ListLocked
<1>9. Collected'
  <2>1. CASE at = Len(DemoUsers)
    <3>1. \A i \in DOMAIN DemoCompanies : ~ (i < 1)
      BY DemoRows
    <3>2. 1 \in DOMAIN DemoCompanies
      BY DemoRows
    <3>. QED BY <1>1, <1>8, <2>1, <3>1, <3>2 DEF Collected, DemoUser
  <2>2. CASE at # Len(DemoUsers)
    <3>1. at + 1 \in Nat
      BY <1>2, DemoRows
    <3>. QED BY <1>1, <1>8, <2>2, <3>1 DEF Collected
  <2>. QED BY <2>1, <2>2
<1>10. Reserved'
  <2>. SUFFICES ASSUME NEW v \in DemoUser, Passed(v)'
                PROVE  login[v] \in {"own", "free"}
    BY <1>1 DEF SeedInv, Reserved
  <2>1. PICK i \in DOMAIN DemoUsers : DemoUsers[i] = v /\ (i < at \/ i = at)
    <3>1. PICK i \in DOMAIN DemoUsers : DemoUsers[i] = v
      BY DEF DemoUser
    <3>2. CASE at = Len(DemoUsers)
      <4>1. i < at \/ i = at
        BY <3>2, DemoRows
      <4>. QED BY <3>1, <4>1
    <3>3. CASE at # Len(DemoUsers)
      <4>1. PICK j \in DOMAIN DemoUsers : j < at + 1 /\ DemoUsers[j] = v
        BY <1>1, <3>3 DEF Passed
      <4>2. j < at \/ j = at
        BY <1>2, <4>1, DemoRows
      <4>. QED BY <4>1, <4>2
    <3>. QED BY <3>2, <3>3
  <2>2. CASE i = at
    BY <1>1, <2>1, <2>2 DEF u
  <2>3. CASE i < at
    BY <1>1, <2>1, <2>3 DEF SeedInv, Reserved, Passed
  <2>. QED BY <2>1, <2>2, <2>3
<1>. QED BY <1>1, <1>6, <1>9, <1>10 DEF SeedInv, NoneMissed, Taken, tables

LEMMA SeedCompanyKeeps ==
    ASSUME SeedInv, SeedCompany
    PROVE  SeedInv'
<1>. DEFINE c == DemoCompanies[at]
<1>1. /\ phase = "companies"
      /\ Granted(companyLock, c, Seeder) /\ companyLock' = Take(companyLock, c, Seeder)
      /\ at' = IF at = Len(DemoCompanies) THEN 1 ELSE at + 1
      /\ phase' = IF at = Len(DemoCompanies) THEN "access" ELSE phase
      /\ UNCHANGED <<tables, accessLock, userLock, local, login>>
  BY DEF SeedCompany, Continue
<1>2. /\ at \in DOMAIN DemoCompanies /\ c \in Companies
      /\ \A i \in DOMAIN DemoCompanies : i < at => companyLock[DemoCompanies[i]] = Seeder
  BY <1>1, DemoRows DEF SeedInv, Collected, DemoCompany
<1>3. Typed
  BY DEF SeedInv, IInv
<1>4. /\ LockTable(Companies, companyLock') /\ companyLock'[c] = Seeder
      /\ \A d \in Companies : companyLock[d] \notin {None, Seeder} => companyLock'[d] = companyLock[d]
      /\ \A d \in Companies : companyLock[d] = Seeder => companyLock'[d] = Seeder
  BY <1>1, <1>2, <1>3, LockTables DEF Typed
<1>. HIDE DEF c
<1>5. Keeps(Seeder)
  BY <1>1, <1>4 DEF Keeps, local
<1>6. IInv'
  BY <1>1, <1>3, <1>4, <1>5, OutsideRead DEF SeedInv, Typed
<1>7. \A i \in DOMAIN DemoCompanies :
        companyLock[DemoCompanies[i]] = Seeder => companyLock'[DemoCompanies[i]] = Seeder
  BY <1>4, DemoRows DEF DemoCompany
<1>8. /\ at = Len(DemoCompanies) =>
            \A i \in DOMAIN DemoCompanies : companyLock'[DemoCompanies[i]] = Seeder
      /\ at # Len(DemoCompanies) => at + 1 \in DOMAIN DemoCompanies
            /\ \A i \in DOMAIN DemoCompanies : i < at + 1 => companyLock'[DemoCompanies[i]] = Seeder
  <2>1. companyLock'[DemoCompanies[at]] = Seeder
    BY <1>4 DEF c
  <2>2. Len(DemoCompanies) \in Nat \ {0} /\ DOMAIN DemoCompanies = 1 .. Len(DemoCompanies)
        /\ at \in 1 .. Len(DemoCompanies)
    BY <1>2, DemoRows
  <2>. QED BY <1>2, <1>7, <2>1, <2>2, ListLocked
<1>9. Collected'
  <2>1. \A u \in DemoUser : userLock'[u] = Seeder
    BY <1>1 DEF SeedInv, Collected
  <2>2. CASE at = Len(DemoCompanies)
    BY <1>1, <1>8, <2>1, <2>2 DEF Collected, DemoCompany
  <2>3. CASE at # Len(DemoCompanies)
    <3>1. at + 1 \in Nat
      BY <1>2, DemoRows
    <3>. QED BY <1>1, <1>8, <2>1, <2>3, <3>1 DEF Collected
  <2>. QED BY <2>2, <2>3
<1>10. Reserved'
  BY <1>1 DEF SeedInv, Reserved, Passed
<1>. QED BY <1>1, <1>6, <1>9, <1>10 DEF SeedInv, NoneMissed, Taken, tables

LEMMA SeedAccessKeeps ==
    ASSUME SeedInv, SeedAccess
    PROVE  SeedInv'
<1>1. /\ phase = "access" /\ phase' = "commit" /\ at' = at
      /\ \A a \in DeletedAccess : Granted(accessLock, a, Seeder)
      /\ accessLock' = [a \in Access |-> IF a \in DeletedAccess THEN Seeder ELSE accessLock[a]]
      /\ UNCHANGED <<tables, companyLock, userLock, local, login>>
  BY DEF SeedAccess
<1>2. LockTable(Access, accessLock')
  BY <1>1 DEF LockTable
<1>3. Keeps(Seeder)
  BY <1>1 DEF Keeps, local, Granted
<1>4. IInv'
  BY <1>1, <1>2, <1>3, OutsideRead DEF SeedInv, IInv, Typed
<1>5. Collected'
  BY <1>1 DEF SeedInv, Collected
<1>6. NoneMissed'
  <2>1. \A a \in DemoAccess : a \in Access /\ (role[a[1]][a[2]] # "none" => a \in DeletedAccess)
    BY DEF DeletedAccess, DemoAccess
  <2>. QED BY <1>1, <2>1 DEF NoneMissed, tables
<1>7. Reserved'
  BY <1>1 DEF SeedInv, Reserved, Passed
<1>. QED BY <1>1, <1>4, <1>5, <1>6, <1>7 DEF SeedInv, Taken, tables

\* The end of the seed's transaction.
LEMMA SeedFinishKeeps ==
    ASSUME Typed, NEW answer, SeedFinish(answer)
    PROVE  /\ Keeps(Seeder) /\ phase' = "idle" /\ at' = 1 /\ UNCHANGED local
           /\ LockTable(Companies, companyLock') /\ LockTable(Access, accessLock')
           /\ LockTable(Users, userLock')
<1>1. /\ companyLock' = Release(companyLock, Seeder) /\ accessLock' = Release(accessLock, Seeder)
      /\ userLock' = Release(userLock, Seeder)
      /\ phase' = "idle" /\ at' = 1 /\ UNCHANGED local
  BY DEF SeedFinish
<1>2. /\ LockTable(Companies, companyLock')
      /\ \A c \in Companies : companyLock[c] \notin {None, Seeder} => companyLock'[c] = companyLock[c]
  BY <1>1, Releases DEF Typed
<1>3. /\ LockTable(Access, accessLock')
      /\ \A a \in Access : accessLock[a] \notin {None, Seeder} => accessLock'[a] = accessLock[a]
  BY <1>1, Releases DEF Typed
<1>4. /\ LockTable(Users, userLock')
      /\ \A u \in Users : userLock[u] \notin {None, Seeder} => userLock'[u] = userLock[u]
  BY <1>1, Releases DEF Typed
<1>5. Keeps(Seeder)
  BY <1>1, <1>2, <1>3, <1>4 DEF Keeps, local
<1>. QED BY <1>1, <1>2, <1>3, <1>4, <1>5

\* A seed that is rolled back has done nothing.
LEMMA SeedRollbackKeeps ==
    ASSUME SeedInv, NEW answer, SeedFinish(answer), UNCHANGED <<tables, login>>
    PROVE  SeedInv'
<1>1. Typed
  BY DEF SeedInv, IInv
<1>2. /\ Keeps(Seeder) /\ phase' = "idle" /\ at' = 1 /\ UNCHANGED local
      /\ LockTable(Companies, companyLock') /\ LockTable(Access, accessLock')
      /\ LockTable(Users, userLock')
  BY <1>1, SeedFinishKeeps
<1>3. IInv'
  BY <1>2, OutsideRead DEF SeedInv
<1>4. Collected' /\ NoneMissed' /\ Reserved'
  BY <1>2 DEF SeedInv, Collected, NoneMissed, Reserved, Passed
<1>. QED BY <1>3, <1>4 DEF SeedInv, Taken, tables

\* The writes of the seed: every row they touch is locked, except accounts'
\* roles in its own companies, which nobody can hold without the company.
LEMMA SeedWritesKeep ==
    ASSUME SeedInv, SeedCommit, ~ SeedConflicts
    PROVE  SeedInv'
<1>1. /\ phase = "commit" /\ SeedFinish("ok")
      /\ live' = live \cup DemoCompany
      /\ version' = [c \in Companies |-> IF c \in DemoCompany THEN 1 ELSE version[c]]
      /\ role' = [c \in Companies |-> [u \in Users |-> SeededRole(c, u)]]
      /\ active' = active \cup DemoUser
  BY DEF SeedCommit
<1>2. IInv /\ Typed /\ Path /\ ExactlyOneOwner /\ OwnerIsActive /\ NoOrphans
  BY DEF SeedInv, IInv
<1>3. /\ Keeps(Seeder) /\ phase' = "idle" /\ at' = 1 /\ UNCHANGED local
      /\ LockTable(Companies, companyLock') /\ LockTable(Access, accessLock')
      /\ LockTable(Users, userLock')
  BY <1>1, <1>2, SeedFinishKeeps
<1>4. /\ \A c \in DemoCompany : companyLock[c] = Seeder
      /\ \A u \in DemoUser : userLock[u] = Seeder
  BY <1>1 DEF SeedInv, Collected
<1>5. \A c \in DemoCompany, u \in Users \ DemoUser : role[c][u] # "owner"
  BY DEF SeedConflicts
<1>6. \A c \in Companies, u \in Users :
        role'[c][u] = IF c \in DemoCompany /\ u \in DemoUser THEN DemoRole[c][u] ELSE role[c][u]
  BY <1>1, DemoRows DEF SeededRole
<1>7. \A c \in Companies \ DemoCompany : role'[c] = role[c] /\ version'[c] = version[c]
  <2>1. ASSUME NEW c \in Companies \ DemoCompany
        PROVE  role'[c] = role[c]
    <3>1. role[c] \in [Users -> Roles \cup {"none"}]
      BY <1>2 DEF Typed
    <3>2. role'[c] = [u \in Users |-> role[c][u]]
      BY <1>1, DemoRows DEF SeededRole
    <3>. QED BY <3>1, <3>2
  <2>. QED BY <1>1, <2>1
<1>8. Typed'
  <2>1. live' \subseteq Companies /\ active' \subseteq Users
    BY <1>1, <1>2, DemoRows DEF Typed
  <2>2. version' \in [Companies -> 0..MaxVersion]
    BY <1>1, <1>2, MaxVersionIsPositive DEF Typed
  <2>3. \A c \in Companies, u \in Users : SeededRole(c, u) \in Roles \cup {"none"}
    BY <1>2, DemoRows, DemoRolesHaveOwners DEF SeededRole, Typed
  <2>4. role' \in [Companies -> [Users -> Roles \cup {"none"}]]
    BY <1>1, <2>3
  <2>. QED BY <1>2, <1>3, <2>1, <2>2, <2>4 DEF Typed, local
<1>9. Spares(Seeder)
  <2>1. ASSUME NEW c \in Companies, companyLock[c] \notin {None, Seeder}
        PROVE  version'[c] = version[c] /\ role'[c] = role[c] /\ (c \in live' <=> c \in live)
    BY <1>1, <1>4, <1>7, <2>1
  <2>2. ASSUME NEW u \in Users, userLock[u] \notin {None, Seeder}
        PROVE  /\ u \in active' <=> u \in active
               /\ \A c \in live' : role'[c][u] = "owner" => c \in live /\ role[c][u] = "owner"
    <3>1. u \notin DemoUser
      BY <1>4, <2>2
    <3>2. \A c \in live' : c \in Companies /\ role'[c][u] = role[c][u]
      BY <1>6, <1>8, <3>1 DEF Typed
    <3>3. \A c \in Companies : role[c][u] = "owner" => c \in live
      BY <1>2 DEF NoOrphans
    <3>. QED BY <1>1, <3>1, <3>2, <3>3
  <2>. QED BY <2>1, <2>2 DEF Spares
<1>10. \A c \in DemoCompany : \E u \in DemoUser :
         \A v \in Users : role'[c][v] = "owner" <=> v = u
  <2>. SUFFICES ASSUME NEW c \in DemoCompany
                PROVE  \E u \in DemoUser : \A v \in Users : role'[c][v] = "owner" <=> v = u
    OBVIOUS
  <2>1. PICK u \in DemoUser : \A v \in DemoUser : DemoRole[c][v] = "owner" <=> v = u
    BY DemoRolesHaveOwners
  <2>2. \A v \in Users : role'[c][v] = IF v \in DemoUser THEN DemoRole[c][v] ELSE role[c][v]
    BY <1>6, DemoRows
  <2>. QED BY <1>5, <2>1, <2>2
<1>11. ExactlyOneOwner'
  <2>1. ASSUME NEW c \in live'
        PROVE  \E u \in Users : \A v \in Users : role'[c][v] = "owner" <=> v = u
    <3>1. CASE c \in DemoCompany
      BY <1>10, <3>1, DemoRows
    <3>2. CASE c \notin DemoCompany
      BY <1>1, <1>2, <1>7, <3>2 DEF ExactlyOneOwner, Typed
    <3>. QED BY <3>1, <3>2
  <2>. QED BY <2>1 DEF ExactlyOneOwner
<1>12. OwnerIsActive'
  <2>1. ASSUME NEW c \in live', NEW u \in Users, role'[c][u] = "owner"
        PROVE  u \in active'
    <3>1. CASE c \in DemoCompany
      BY <1>1, <1>10, <2>1, <3>1
    <3>2. CASE c \notin DemoCompany
      BY <1>1, <1>2, <1>7, <2>1, <3>2 DEF OwnerIsActive, Typed
    <3>. QED BY <3>1, <3>2
  <2>. QED BY <2>1 DEF OwnerIsActive
<1>13. NoOrphans'
  <2>1. ASSUME NEW c \in Companies, c \notin DemoCompany
        PROVE  /\ version'[c] = 0 => c \notin live'
               /\ c \notin live' => \A u \in Users : role'[c][u] = "none"
    BY <1>1, <1>2, <1>7, <2>1 DEF NoOrphans
  <2>2. ASSUME NEW c \in DemoCompany
        PROVE  version'[c] # 0 /\ c \in live'
    BY <1>1, <2>2, DemoRows
  <2>. QED BY <2>1, <2>2 DEF NoOrphans
<1>14. IInv'
  BY <1>2, <1>3, <1>8, <1>9, <1>11, <1>12, <1>13, OutsideStep
<1>15. Collected' /\ NoneMissed' /\ Reserved'
  <2>1. LockTable(DemoUser, login')
    BY DEF SeedCommit, LockTable
  <2>. QED BY <1>3, <2>1 DEF Collected, NoneMissed, Reserved, Passed
<1>16. Taken'
  BY <1>1, DemoRows DEF Taken
<1>. QED BY <1>14, <1>15, <1>16 DEF SeedInv

LEMMA SeedCommitKeeps ==
    ASSUME SeedInv, SeedCommit
    PROVE  SeedInv'
<1>1. CASE SeedConflicts
  <2>1. SeedFinish("conflict") /\ UNCHANGED <<tables, login>>
    BY <1>1 DEF SeedCommit
  <2>. QED BY <2>1, SeedRollbackKeeps
<1>. QED BY <1>1, SeedWritesKeep

-----------------------------------------------------------------------------
(* The others' steps.                                                      *)

\* No use case takes back that an id has been used.
LEMMA IdsStayUsed ==
    ASSUME IInv, NEW p \in Procs, Begin(p) \/ Step(p) \/ LockTimeout(p) \/ Abort(p),
           NEW c \in Companies, version[c] # 0
    PROVE  version'[c] # 0
<1>1. CASE version' = version
  BY <1>1
<1>2. CASE CommitCreate(p)
  BY <1>2 DEF CommitCreate, Refuse, tables, IInv, Typed
<1>3. CASE CommitUpdate(p)
  <2>1. req[p] \in Requests /\ req[p].op = "update"
    BY <1>3 DEF CommitUpdate, IInv, Path
  <2>2. req[p].version \in Nat
    BY <2>1, RequestFields, MaxVersionIsPositive
  <2>3. req[p].version + 1 # 0
    BY <2>2
  <2>. QED BY <1>3, <2>3 DEF CommitUpdate, Refuse, tables, IInv, Typed
<1>. QED
  BY <1>1, <1>2, <1>3 DEF Begin, Step, LockTimeout, Abort, Refuse, tables, Find, LockCompany,
     Authorize, LockPrevious, LockTarget, FindOwned, LockOwned, LockUser, Check, Commit,
     CommitDelete, CommitGrant, CommitChange, CommitTransfer, CommitStatus, Write

\* What the seed has locked, and the roles in its companies, wait for it.
LEMMA ProcessKeeps ==
    ASSUME SeedInv, NEW p \in Procs, Begin(p) \/ Serve(p) \/ Abort(p),
           UNCHANGED seedVars
    PROVE  SeedInv'
<1>0. Begin(p) \/ Step(p) \/ LockTimeout(p) \/ Abort(p)
  BY DEF Serve, Abort
<1>1. IInv' /\ Keeps(p) /\ Spares(p)
  BY <1>0, ProcessStep DEF SeedInv, Harmless
<1>2. /\ \A c \in Companies : companyLock[c] = Seeder => companyLock'[c] = Seeder
      /\ \A a \in Access : accessLock[a] = Seeder => accessLock'[a] = Seeder
      /\ \A u \in Users : userLock[u] = Seeder => userLock'[u] = Seeder
  BY <1>1, Outside DEF Keeps
<1>3. phase' = phase /\ at' = at /\ login' = login
  BY DEF seedVars
<1>4. Collected'
  <2>1. /\ \A i \in DOMAIN DemoUsers : DemoUsers[i] \in Users
        /\ \A i \in DOMAIN DemoCompanies : DemoCompanies[i] \in Companies
    BY DemoRows DEF DemoUser, DemoCompany
  <2>. QED BY <1>2, <1>3, <2>1, DemoRows DEF SeedInv, Collected
<1>5. NoneMissed'
  <2>. SUFFICES ASSUME phase = "commit", NEW a \in DemoAccess, role'[a[1]][a[2]] # "none"
                PROVE  accessLock'[a] = Seeder
    BY <1>3 DEF NoneMissed
  <2>1. a \in Access /\ a[1] \in DemoCompany /\ a[1] \in Companies
    BY DemoRows DEF DemoAccess
  <2>2. companyLock[a[1]] \notin {None, p} /\ version[a[1]] # 0
    BY <2>1, Outside DEF SeedInv, Collected, Taken
  <2>3. role'[a[1]] = role[a[1]]
    BY <1>1, <2>1, <2>2 DEF Spares
  <2>4. accessLock[a] = Seeder
    BY <2>3 DEF SeedInv, NoneMissed
  <2>. QED BY <1>2, <2>1, <2>4
<1>6. Taken'
  BY <1>0, IdsStayUsed, DemoRows DEF SeedInv, Taken
<1>7. Reserved'
  BY <1>3 DEF SeedInv, Reserved, Passed
<1>. QED BY <1>1, <1>4, <1>5, <1>6, <1>7 DEF SeedInv

\* What is upserted is locked.
LEMMA PassedIsLocked ==
    ASSUME Collected, NEW u \in DemoUser, Passed(u)
    PROVE  userLock[u] = Seeder
BY DEF Collected, Passed

\* Others can have the logins that the seed has not come to yet.
LEMMA ProvisioningKeeps ==
    ASSUME SeedInv, NEW u \in DemoUser, Claim(u) \/ Settle(u)
    PROVE  SeedInv'
<1>1. /\ UNCHANGED <<vars, phase, at>> /\ LockTable(DemoUser, login')
      /\ \A v \in DemoUser : v # u => login'[v] = login[v]
  BY DEF Claim, Settle, SeedInv, Reserved, LockTable
<1>2. ~ Passed(u)
  BY PassedIsLocked DEF SeedInv, Reserved, Claim, Settle
<1>3. Reserved'
  BY <1>1, <1>2 DEF SeedInv, Reserved, Passed
<1>4. IInv'
  BY <1>1, Inductive DEF SeedInv
<1>. QED
  BY <1>1, <1>3, <1>4 DEF SeedInv, Collected, NoneMissed, Taken, vars, tables, locks

-----------------------------------------------------------------------------
(* The theorems.                                                           *)

LEMMA SeedInductive == SeedInv /\ [SeedNext]_allVars => SeedInv'
<1>. SUFFICES ASSUME SeedInv, [SeedNext]_allVars
              PROVE  SeedInv'
  OBVIOUS
<1>1. CASE UNCHANGED allVars
  <2>1. UNCHANGED vars /\ UNCHANGED seedVars
    BY <1>1 DEF allVars
  <2>2. IInv'
    BY <2>1, Inductive DEF SeedInv
  <2>. QED BY <2>1, <2>2
          DEF SeedInv, Collected, NoneMissed, Taken, Reserved, Passed, vars, tables, locks, seedVars
<1>2. CASE SeedTimeout \/ SeedAbort
  BY <1>2, SeedRollbackKeeps DEF SeedTimeout, SeedAbort
<1>3. CASE SeedBegin \/ SeedStep
  <2>1. CASE SeedUserRefused
    BY <2>1, SeedRollbackKeeps DEF SeedUserRefused
  <2>. QED
    BY <1>3, <2>1, SeedBeginKeeps, SeedUserKeeps, SeedCompanyKeeps, SeedAccessKeeps, SeedCommitKeeps
    DEF SeedStep
<1>4. CASE (\E p \in Procs : Begin(p) \/ Serve(p) \/ Abort(p)) /\ UNCHANGED seedVars
  BY <1>4, ProcessKeeps
<1>5. CASE \E u \in DemoUser : Claim(u) \/ Settle(u)
  BY <1>5, ProvisioningKeeps
<1>. QED BY <1>1, <1>2, <1>3, <1>4, <1>5 DEF SeedNext

LEMMA SeedStarts == SeedInit => SeedInv
<1>. SUFFICES ASSUME SeedInit
              PROVE  SeedInv
  OBVIOUS
<1>1. /\ live = {} \/ live = DemoCompany
      /\ role \in [Companies -> [Users -> Roles \cup {"none"}]]
      /\ \A c \in Companies, u \in Users : role[c][u] =
            IF c \in live /\ u \in DemoUser THEN DemoRole[c][u] ELSE "none"
  <2>1. CASE live = {} /\ role = [c \in Companies |-> [u \in Users |-> "none"]]
    BY <2>1
  <2>2. CASE /\ live = DemoCompany
             /\ role = [c \in Companies |-> [u \in Users |->
                  IF <<c, u>> \in DemoAccess THEN DemoRole[c][u] ELSE "none"]]
    <3>1. \A c, u : <<c, u>> \in DemoAccess <=> c \in DemoCompany /\ u \in DemoUser
      BY DemoRows
    <3>2. \A c \in DemoCompany, u \in DemoUser : DemoRole[c][u] \in Roles \cup {"none"}
      BY DemoRolesHaveOwners
    <3>3. \A c \in Companies, u \in Users : role[c][u] =
            IF c \in DemoCompany /\ u \in DemoUser THEN DemoRole[c][u] ELSE "none"
      BY <2>2, <3>1
    <3>4. role = [c \in Companies |-> [u \in Users |-> role[c][u]]]
      BY <2>2
    <3>5. \A c \in Companies, u \in Users : role[c][u] \in Roles \cup {"none"}
      BY <3>2, <3>3
    <3>6. role \in [Companies -> [Users -> Roles \cup {"none"}]]
      BY <3>4, <3>5
    <3>. QED BY <2>2, <3>3, <3>6
  <2>. QED BY <2>1, <2>2 DEF SeedInit
<1>2. /\ version = [c \in Companies |-> IF c \in DemoCompany THEN 1 ELSE 0]
      /\ active = Users \ Absent
      /\ companyLock = [c \in Companies |-> None]
      /\ accessLock = [a \in Access |-> None]
      /\ userLock = [u \in Users |-> None]
      /\ req = [p \in Procs |-> None]
      /\ step = [p \in Procs |-> "idle"]
      /\ reply = [p \in Procs |-> "none"]
      /\ seen = [p \in Procs |-> 0]
      /\ todo = [p \in Procs |-> {}]
      /\ phase = "idle" /\ at = 1
  BY DEF SeedInit
<1>3. Typed
  <2>1. version \in [Companies -> 0..MaxVersion] /\ seen \in [Procs -> 0..MaxVersion]
    BY <1>2, MaxVersionIsPositive
  <2>2. live \subseteq Companies
    BY <1>1, DemoRows
  <2>. QED BY <1>1, <1>2, <2>1, <2>2 DEF Typed, LockTable
<1>4. ExactlyOneOwner
  <2>. SUFFICES ASSUME NEW c \in live
                PROVE  \E u \in Users : \A v \in Users : role[c][v] = "owner" <=> v = u
    BY DEF ExactlyOneOwner
  <2>1. c \in DemoCompany /\ c \in Companies
    BY <1>1, DemoRows
  <2>2. PICK u \in DemoUser : \A v \in DemoUser : DemoRole[c][v] = "owner" <=> v = u
    BY <2>1, DemoRolesHaveOwners
  <2>. QED BY <1>1, <2>1, <2>2, DemoRows
<1>5. OwnerIsActive /\ BackstopSilent
  <2>1. live # {} => Absent = {}
    BY DEF SeedInit
  <2>2. \A c \in live, u \in Users : u \in active
    BY <1>2, <2>1
  <2>. QED BY <1>2, <2>2 DEF OwnerIsActive, BackstopSilent
<1>6. NoOrphans
  <2>1. \A c \in Companies : version[c] = 0 => c \notin live
    BY <1>1, <1>2
  <2>. QED BY <1>1, <2>1 DEF NoOrphans
<1>7. Path /\ \A p \in Procs : Held(p)
  BY <1>2 DEF Path, Held, InCompany, InAccount
<1>8. Collected /\ NoneMissed /\ Reserved
  <2>1. LockTable(DemoUser, login)
    BY DEF SeedInit, LockTable
  <2>. QED BY <1>2, <2>1 DEF Collected, NoneMissed, Reserved, Passed
<1>9. Taken
  <2>1. ASSUME NEW c \in DemoCompany
        PROVE  version[c] = 1
    <3>1. c \in Companies
      BY DemoRows
    <3>. QED BY <1>2, <3>1
  <2>. QED BY <2>1 DEF Taken
<1>. QED BY <1>3, <1>4, <1>5, <1>6, <1>7, <1>8, <1>9 DEF SeedInv, IInv

LEMMA SeedInvariant == SeedSpec => []SeedInv
BY SeedStarts, SeedInductive, PTL DEF SeedSpec

\* The demo seed, which sets versions back, replaces roles and locks accounts
\* before companies, leaves every company one active owner and overtakes no
\* use case between its checks and its writes; and it takes no login that others
\* have come to have since its upserts.
THEOREM SeedingIsSafe == SeedSpec => []RulesSurviveSeeding
<1>1. SeedInv => RulesSurviveSeeding
  BY ChecksAreHeld DEF SeedInv, IInv, RulesSurviveSeeding, Reserved, Passed
<1>. QED BY <1>1, SeedInvariant, PTL

\* Its statements fail only on an owner from outside the demo data and on a
\* demo login that another account has: no concurrent grant can slip a row
\* between its DELETE and its INSERT, and a provisioning is waited for.
THEOREM RefusedForOthersOnly == SeedSpec => RefusedOnlyOverOthers
<1>1. SeedInv /\ [SeedNext]_allVars =>
        (outcome' = "conflict" /\ outcome # "conflict" =>
           \/ \E c \in DemoCompany, u \in Users \ DemoUser : role[c][u] = "owner"
           \/ \E u \in DemoUser : login[u] = "others")
  <2>. SUFFICES ASSUME SeedInv, [SeedNext]_allVars, outcome' = "conflict", outcome # "conflict"
                PROVE  \/ \E c \in DemoCompany, u \in Users \ DemoUser : role[c][u] = "owner"
                       \/ \E u \in DemoUser : login[u] = "others"
    OBVIOUS
  <2>1. SeedCommit \/ SeedUserRefused
    BY DEF SeedNext, allVars, seedVars, SeedBegin, SeedStep, SeedUser, SeedCompany, SeedAccess,
       Continue, SeedTimeout, SeedAbort, SeedFinish, Claim, Settle
  <2>2. CASE SeedCommit
    <3>1. SeedConflicts /\ phase = "commit"
      BY <2>2 DEF SeedCommit, SeedFinish
    <3>2. \A a \in DemoAccess : role[a[1]][a[2]] # "none" => accessLock[a] = Seeder
      BY <3>1 DEF SeedInv, NoneMissed
    <3>. QED BY <3>1, <3>2 DEF SeedConflicts
  <2>3. CASE SeedUserRefused
    <3>1. phase = "users" /\ login[DemoUsers[at]] = "others"
      BY <2>3 DEF SeedUserRefused
    <3>2. DemoUsers[at] \in DemoUser
      BY <3>1 DEF SeedInv, Collected, DemoUser
    <3>. QED BY <3>1, <3>2
  <2>. QED BY <2>1, <2>2, <2>3
<1>. QED BY <1>1, SeedInvariant, PTL DEF SeedSpec, RefusedOnlyOverOthers

\* The seed's variables keep their types.
THEOREM SeedTypes == SeedSpec => []SeedTypeOK
<1>1. SeedInit => SeedTypeOK
  BY DEF SeedInit, SeedTypeOK
<1>2. SeedInv /\ SeedTypeOK /\ [SeedNext]_allVars => SeedTypeOK'
  <2>. SUFFICES ASSUME SeedInv, SeedTypeOK, [SeedNext]_allVars
                PROVE  SeedTypeOK'
    OBVIOUS
  <2>1. phase' \in {"idle", "users", "companies", "access", "commit"} /\ at' \in Nat
    BY SeedInductive DEF SeedInv, Collected
  <2>2. /\ outcome' \in {"none", "ok", "error", "conflict"}
        /\ login' \in [DemoUser -> {"free", "own", "claimed", "others"}]
    BY DEF SeedTypeOK, SeedNext, allVars, seedVars, SeedBegin, SeedStep, SeedUser, SeedUserRefused,
       SeedCompany, SeedAccess, SeedCommit, Continue, SeedTimeout, SeedAbort, SeedFinish, Claim, Settle
  <2>. QED BY <2>1, <2>2 DEF SeedTypeOK
<1>. QED BY <1>1, <1>2, SeedInvariant, PTL DEF SeedSpec

=============================================================================
