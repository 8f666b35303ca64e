------------------------------ MODULE LoadData ------------------------------
(***************************************************************************)
(* scripts/generate_load_data.py: a generator checks that the database is  *)
(* fresh and then copies table after table, in batches that it commits one *)
(* by one.  It can be interrupted between two of them, and another one may *)
(* be at work on the same database.  What the rows are is computed from    *)
(* the counts of a profile by scripts/load_dataset.py: nothing looks it up *)
(* in the database, whose keys and foreign keys either accept it or not.   *)
(***************************************************************************)
EXTENDS Integers, FiniteSets, Sequences

CONSTANTS
    Generators,     \* processes that run the script
    Profiles,       \* PROFILES: records of counts
    BatchSize,      \* 5000
    None

COLUMNS == <<"users", "companies", "company_access", "employees", "projects",
             "project_employees", "auth_sessions">>

Tables == {COLUMNS[i] : i \in DOMAIN COLUMNS}

\* How many rows of a table there are to be.
Count(table, counts) ==
    CASE table = "company_access" -> counts.access
      [] table = "project_employees" -> counts.assignments
      [] table = "auth_sessions" -> counts.sessions
      [] table = "users" -> counts.users
      [] table = "companies" -> counts.companies
      [] table = "employees" -> counts.employees
      [] table = "projects" -> counts.projects

CountNames == {"users", "companies", "access", "employees", "projects", "assignments", "sessions"}

\* The employees that are not terminated: nine of ten.
Eligible(counts) == (counts.employees * 9) \div 10

\* How often each of them is assigned.
Rounds(counts) == (counts.assignments + Eligible(counts) - 1) \div Eligible(counts)

\* What the formulas below silently need of the counts.
Fits(counts) ==
    /\ counts.companies >= 10 /\ counts.employees >= 2
    /\ counts.access >= 5 * counts.companies
    /\ (counts.access - 1) \div counts.companies < counts.users
    /\ counts.sessions <= counts.users
    /\ counts.companies * Rounds(counts) <= counts.projects

\* The profiles that can be chosen.
PROFILES ==
    {[users |-> 1000, companies |-> 100, access |-> 5000, employees |-> 10000,
      projects |-> 2500, assignments |-> 30000, sessions |-> 1000],
     [users |-> 100000, companies |-> 10000, access |-> 500000, employees |-> 1000000,
      projects |-> 250000, assignments |-> 3000000, sessions |-> 100000],
     [users |-> 10000000, companies |-> 2000000, access |-> 15000000, employees |-> 50000000,
      projects |-> 10000000, assignments |-> 150000000, sessions |-> 1000000]}

ASSUME RealProfilesFit == \A counts \in PROFILES : Fits(counts)
ASSUME ProfilesFit ==
    \A counts \in Profiles : counts \in [CountNames -> Nat] /\ Fits(counts)
ASSUME SomeProfile == Profiles # {}
ASSUME BatchSizeIsPositive == BatchSize \in Nat \ {0}

-----------------------------------------------------------------------------
(* The rows: of each what keys, foreign keys and rules look at.            *)

\* Mutant: one company too many for the last fifth of the employees.
EmployeeCompanyBeyond(index, counts) ==
    LET hot == counts.employees \div 10
        hotCompanies == counts.companies \div 5
        most == (counts.employees * 4) \div 5
    IN  IF index < hot THEN 0
        ELSE IF index < most THEN 1 + ((index - hot) % (hotCompanies - 1))
        ELSE hotCompanies + ((index - most) % (counts.companies - hotCompanies + 1))

\* A tenth of the employees are in the first company, most in a fifth of them.
EmployeeCompany(index, counts) ==
    LET hot == counts.employees \div 10
        hotCompanies == counts.companies \div 5
        most == (counts.employees * 4) \div 5
    IN  IF index < hot THEN 0
        ELSE IF index < most THEN 1 + ((index - hot) % (hotCompanies - 1))
        ELSE hotCompanies + ((index - most) % (counts.companies - hotCompanies))

\* Mutant: also the tenth of each ten employees is assigned.
AssigneeAny(i, counts) == i % Eligible(counts)

\* The employee of an assignment: the tenth of each ten is left out.
Assignee(i, counts) ==
    LET offset == i % Eligible(counts) IN
    (offset \div 9) * 10 + (offset % 9)

AccessRow(i, counts) ==
    LET company == i % counts.companies
        slot == i \div counts.companies
    IN  <<company, (company * 5 + slot) % counts.users, IF slot = 0 THEN "owner" ELSE "admin">>

Status(i) ==
    CASE i % 10 = 9 -> "terminated" [] i % 10 = 8 -> "leave" [] OTHER -> "active"

\* Every seventeenth project is over.
ProjectStatus(i) == IF i % 17 = 0 THEN "completed" ELSE "active"

AssignmentRow(i, counts) ==
    LET company == EmployeeCompany(Assignee(i, counts), counts) IN
    <<company, company + (i \div Eligible(counts)) * counts.companies, Assignee(i, counts),
      (company * 5) % counts.users>>

\* dataset_rows.
Row(table, i, counts) ==
    CASE table \in {"users", "companies"} -> <<i>>
      [] table = "company_access" -> AccessRow(i, counts)
      [] table = "employees" -> <<i, EmployeeCompany(i, counts), Status(i)>>
      [] table = "projects" -> <<i, i % counts.companies, ProjectStatus(i)>>
      [] table = "project_employees" -> AssignmentRow(i, counts)
      [] table = "auth_sessions" -> <<i, i>>

Rows(table, counts) == {Row(table, i, counts) : i \in 0 .. Count(table, counts) - 1}

\* Mutant: four sessions to a company.
SessionPoolByFour(counts) ==
    {[user |-> i, session |-> i, company |-> i \div 4] :
        i \in {j \in 0 .. counts.sessions - 1 : j < 5000 /\ j < counts.companies * 5}}

\* What the load tests are told: a user's session, and a company to work on.
SessionPool(counts) ==
    {[user |-> i, session |-> i, company |-> i \div 5] :
        i \in {j \in 0 .. counts.sessions - 1 : j < 5000 /\ j < counts.companies * 5}}

-----------------------------------------------------------------------------
(* The database's keys.                                                    *)

\* The entries of a row in unique indexes; -1 stands for uq_company_owner.
Keys(table, r) ==
    CASE table = "company_access" ->
            {<<r[1], r[2]>>} \cup (IF r[3] = "owner" THEN {<<r[1], -1>>} ELSE {})
      [] table = "project_employees" -> {<<r[1], r[2], r[3]>>}
      [] OTHER -> {r[1]}

KeysOf(table, rows) == UNION {Keys(table, r) : r \in rows}

VARIABLES
    db,             \* the committed rows of each table
    phase,          \* what a generator does next, or how it ended
    counts,         \* its profile
    at, first,      \* the table it copies, and how many rows of it are stored
    open            \* the rows of its open transaction

vars == <<db, phase, counts, at, first, open>>

Stored(table, parent) == parent \in db[table]

\* The row's foreign keys.
HasParents(table, r) ==
    CASE table = "company_access" -> Stored("companies", <<r[1]>>) /\ Stored("users", <<r[2]>>)
      [] table \in {"employees", "projects"} -> Stored("companies", <<r[2]>>)
      [] table = "project_employees" ->
            /\ \E p \in db["projects"] : p[1] = r[2] /\ p[2] = r[1]
            /\ \E e \in db["employees"] : e[1] = r[3] /\ e[2] = r[1]
            /\ Stored("users", <<r[4]>>)
      [] table = "auth_sessions" -> Stored("users", <<r[2]>>)
      [] OTHER -> TRUE

TypeOK ==
    /\ DOMAIN db = Tables
    /\ phase \in [Generators -> {"idle", "check", "copy", "commit",
                                 "done", "refused", "rejected", "interrupted"}]
    /\ counts \in [Generators -> Profiles \cup {None}]
    /\ at \in [Generators -> DOMAIN COLUMNS]
    /\ \A g \in Generators :
        /\ counts[g] # None => first[g] \in 0 .. Count(COLUMNS[at[g]], counts[g])
        /\ open[g] # {} => phase[g] = "commit"

Init ==
    /\ db = [table \in Tables |-> {}]
    /\ phase = [g \in Generators |-> "idle"]
    /\ counts = [g \in Generators |-> None]
    /\ at = [g \in Generators |-> 1] /\ first = [g \in Generators |-> 0]
    /\ open = [g \in Generators |-> {}]

-----------------------------------------------------------------------------
(* The script.                                                             *)

Running(g) == phase[g] \in {"check", "copy", "commit"}

Goto(g, p) == phase' = [phase EXCEPT ![g] = p]

Begin(g) ==
    \E p \in Profiles :
        /\ ~ Running(g)
        /\ Goto(g, "check")
        /\ counts' = [counts EXCEPT ![g] = p]
        /\ at' = [at EXCEPT ![g] = 1] /\ first' = [first EXCEPT ![g] = 0]
        /\ UNCHANGED <<db, open>>

\* The first user that a generator stores tells whether there was one before.
Check(g) ==
    /\ phase[g] = "check"
    /\ Goto(g, IF Stored("users", <<0>>) THEN "refused" ELSE "copy")
    /\ UNCHANGED <<db, counts, at, first, open>>

Table(g) == COLUMNS[at[g]]

\* The next rows of dataset_rows, by number.
Batch(g) ==
    LET last == first[g] + BatchSize - 1
        end == Count(Table(g), counts[g]) - 1
    IN  first[g] .. (IF last < end THEN last ELSE end)

BatchRows(g) == {Row(Table(g), i, counts[g]) : i \in Batch(g)}

\* Somebody has the same keys in a transaction that is still open: COPY waits.
Waits(g) ==
    \E h \in Generators \ {g} :
        /\ open[h] # {} /\ at[h] = at[g]
        /\ KeysOf(Table(g), BatchRows(g)) \cap KeysOf(Table(g), open[h]) # {}

\* The keys are new, no two rows of the batch have the same, and the foreign
\* keys are there.
Accepted(g) ==
    LET table == Table(g) IN
    /\ KeysOf(table, BatchRows(g)) \cap KeysOf(table, db[table]) = {}
    /\ \A i, j \in Batch(g) : i < j =>
        Keys(table, Row(table, i, counts[g])) \cap Keys(table, Row(table, j, counts[g])) = {}
    /\ \A r \in BatchRows(g) : HasParents(table, r)

\* Mutant: ON CONFLICT DO NOTHING.
CopySkipping(g) ==
    /\ phase[g] = "copy" /\ Batch(g) # {} /\ ~ Waits(g)
    /\ LET table == Table(g) IN
        open' = [open EXCEPT ![g] = {r \in BatchRows(g) :
                    /\ Keys(table, r) \cap KeysOf(table, db[table]) = {}
                    /\ HasParents(table, r)}]
    /\ Goto(g, "commit")
    /\ UNCHANGED <<db, counts, at, first>>

\* COPY of a batch, all or nothing.
Copy(g) ==
    /\ phase[g] = "copy" /\ Batch(g) # {} /\ ~ Waits(g)
    /\ IF Accepted(g)
          THEN open' = [open EXCEPT ![g] = BatchRows(g)] /\ Goto(g, "commit")
          ELSE UNCHANGED open /\ Goto(g, "rejected")
    /\ UNCHANGED <<db, counts, at, first>>

Commit(g) ==
    /\ phase[g] = "commit"
    /\ db' = [db EXCEPT ![Table(g)] = @ \cup open[g]]
    /\ open' = [open EXCEPT ![g] = {}]
    /\ first' = [first EXCEPT ![g] = @ + Cardinality(Batch(g))]
    /\ Goto(g, "copy")
    /\ UNCHANGED <<counts, at>>

\* Mutant: a batch that is not full is the end of the table.
NextTableAfterShortBatch(g) ==
    /\ phase[g] = "copy" /\ Cardinality(Batch(g)) < BatchSize
    /\ IF at[g] = Len(COLUMNS)
          THEN Goto(g, "done") /\ UNCHANGED <<at, first>>
          ELSE /\ at' = [at EXCEPT ![g] = @ + 1] /\ first' = [first EXCEPT ![g] = 0]
               /\ UNCHANGED phase
    /\ UNCHANGED <<db, counts, open>>

\* The rows are used up: the next table, or the files for the load tests.
NextTable(g) ==
    /\ phase[g] = "copy" /\ Batch(g) = {}
    /\ IF at[g] = Len(COLUMNS)
          THEN Goto(g, "done") /\ UNCHANGED <<at, first>>
          ELSE /\ at' = [at EXCEPT ![g] = @ + 1] /\ first' = [first EXCEPT ![g] = 0]
               /\ UNCHANGED phase
    /\ UNCHANGED <<db, counts, open>>

\* The script is stopped, loses its connection or runs into the statement
\* timeout: the open transaction is gone, what was committed stays.
Interrupt(g) ==
    /\ Running(g)
    /\ open' = [open EXCEPT ![g] = {}]
    /\ Goto(g, "interrupted")
    /\ UNCHANGED <<db, counts, at, first>>

Next ==
    \E g \in Generators :
        Begin(g) \/ Check(g) \/ Copy(g) \/ Commit(g) \/ NextTable(g) \/ Interrupt(g)

Spec == Init /\ [][Next]_vars

-----------------------------------------------------------------------------
(* Properties.                                                             *)

\* All rows are of one profile: two generators, or one after another that was
\* interrupted, never mix theirs.
LoadedByOne ==
    \E p \in Profiles : \A table \in Tables : db[table] \subseteq Rows(table, p)

\* The formulas agree with the database's keys and with the order of the tables: in
\* a database that only generators write to, a row is rejected only in the very
\* first batch, by another generator that passed the check at the same time and
\* stored its own first.
RejectedOnlyByAnother ==
    [][\A g \in Generators : phase'[g] = "rejected" /\ phase[g] # "rejected" =>
         /\ at[g] = 1 /\ first[g] = 0
         /\ Stored("users", <<0>>)]_vars

\* A generator that reports success has stored every row of its profile, also
\* after interruptions and beside others.
SuccessIsComplete ==
    \A g \in Generators : phase[g] = "done" =>
        \A table \in Tables : db[table] = Rows(table, counts[g])

\* The rule of stored assignments that no key enforces holds of these as well:
\* nobody whose employment has ended has one.  The account that made one is an
\* owner of the company.  It does not say that the API would make them now: people
\* on leave and completed projects have theirs, which ensure_assignment refuses
\* to make, but which stay when somebody goes on leave or a project ends.
AssignmentsAreSound ==
    \A r \in db["project_employees"] :
        /\ \E e \in db["employees"] :
            e[1] = r[3] /\ e[2] = r[1] /\ e[3] \in {"active", "leave"}
        /\ \E p \in db["projects"] :
            p[1] = r[2] /\ p[2] = r[1] /\ p[3] \in {"active", "completed"}
        /\ <<r[1], r[4], "owner">> \in db["company_access"]

\* Every session that the load tests are given belongs to a user with access to
\* the company it comes with.
PoolIsUsable ==
    \A g \in Generators : phase[g] = "done" =>
        \A entry \in SessionPool(counts[g]) :
            /\ <<entry.session, entry.user>> \in db["auth_sessions"]
            /\ \E r \in db["company_access"] : r[1] = entry.company /\ r[2] = entry.user

=============================================================================
