--------------------------- MODULE LoadDataProofs ---------------------------
(***************************************************************************)
(* Proofs about LoadData, for any number of generators, any profiles that  *)
(* the formulas are made for and any size of a batch.  The inductive       *)
(* invariant says how far the tables are filled, by whom, and that nobody  *)
(* else can add a row; what the rows are is arithmetic, which has lemmas   *)
(* of its own.                                                             *)
(***************************************************************************)
EXTENDS LoadData, FiniteSetTheorems, TLAPS

(***************************************************************************)
(* The invariant.                                                          *)
(***************************************************************************)

\* The first n rows of a table.
Part(table, p, n) == {Row(table, k, p) : k \in 0 .. n - 1}

\* The tables before the a-th are complete, those after it empty.
FilledUpTo(p, a, n) ==
    \A i \in DOMAIN COLUMNS :
        db[COLUMNS[i]] = IF i < a THEN Rows(COLUMNS[i], p)
                         ELSE IF i = a THEN Part(COLUMNS[i], p, n) ELSE {}

\* The generator has stored something: the others are refused or rejected.
Ahead(g) == phase[g] \in {"copy", "commit"} /\ ~ (at[g] = 1 /\ first[g] = 0)

Started(g) == Running(g) \/ phase[g] = "done"

\* What a generator knows, whatever the others do.
Local(g) ==
    /\ Started(g) => counts[g] \in Profiles
    /\ counts[g] \in Profiles => first[g] \in 0 .. Count(COLUMNS[at[g]], counts[g])
    /\ phase[g] = "check" => at[g] = 1 /\ first[g] = 0
    /\ phase[g] = "commit" => Batch(g) # {} /\ open[g] = BatchRows(g)
    /\ phase[g] # "commit" => open[g] = {}

Types ==
    /\ DOMAIN db = Tables
    /\ phase \in [Generators -> {"idle", "check", "copy", "commit",
                                 "done", "refused", "rejected", "interrupted"}]
    /\ counts \in [Generators -> Profiles \cup {None}]
    /\ at \in [Generators -> DOMAIN COLUMNS]
    /\ first \in [Generators -> Nat]
    /\ DOMAIN open = Generators
    /\ \A g \in Generators : Local(g)

\* Nobody has committed a row, and at most one generator is about to.
Fresh ==
    /\ \A table \in Tables : db[table] = {}
    /\ \A g \in Generators : phase[g] # "done" /\ ~ Ahead(g)
    /\ \A g, h \in Generators : phase[g] = "commit" /\ phase[h] = "commit" => g = h

\* One generator got ahead with profile p, and the tables are where it is, or
\* was when it ended.
UnderWay(p, a, n) ==
    /\ FilledUpTo(p, a, n)
    /\ <<0>> \in db["users"]
    /\ \A g \in Generators :
        /\ Ahead(g) => counts[g] = p /\ at[g] = a /\ first[g] = n
        /\ phase[g] = "commit" => Ahead(g)
        /\ phase[g] = "done" =>
            counts[g] = p /\ a = Len(COLUMNS) /\ n = Count(COLUMNS[a], p)
    /\ \A g, h \in Generators : Ahead(g) /\ Ahead(h) => g = h

OneAtATime ==
    \/ Fresh
    \/ \E p \in Profiles, a \in DOMAIN COLUMNS : \E n \in 0 .. Count(COLUMNS[a], p) :
        UnderWay(p, a, n)

IInv == Types /\ OneAtATime

(***************************************************************************)
(* Arithmetic.                                                             *)
(***************************************************************************)

LEMMA Divided ==
    ASSUME NEW x \in Nat, NEW d \in Nat \ {0}
    PROVE  /\ x % d \in 0 .. d - 1
           /\ x % d \in Nat /\ x \div d \in Nat
           /\ x = d * (x \div d) + (x % d)
OBVIOUS

LEMMA DividedOnce ==
    ASSUME NEW q \in Nat, NEW d \in Nat \ {0}, NEW r \in 0 .. d - 1
    PROVE  (q * d + r) % d = r /\ (q * d + r) \div d = q
OBVIOUS

LEMMA Multiples == \A a, b, d \in Nat : a < b => a * d + d <= b * d
OBVIOUS

LEMMA QuotientsGrow ==
    ASSUME NEW x \in Nat, NEW y \in Nat, NEW d \in Nat \ {0}, x <= y
    PROVE  x \div d <= y \div d
OBVIOUS

\* Nobody gets into a company twice on one way round the users.
LEMMA OnceAround ==
    ASSUME NEW b \in Nat, NEW s \in Nat, NEW t \in Nat, NEW d \in Nat \ {0}, s < t, t < d
    PROVE  (b + s) % d # (b + t) % d
<1>. DEFINE q == (b + s) \div d
<1>. DEFINE r == (b + t) \div d
<1>1. SUFFICES ASSUME (b + s) % d = (b + t) % d PROVE FALSE
  OBVIOUS
<1>2. b + s \in Nat /\ b + t \in Nat
  OBVIOUS
<1>3. /\ q \in Nat /\ b + s = d * q + ((b + s) % d)
      /\ r \in Nat /\ b + t = d * r + ((b + t) % d)
  BY <1>2, Divided
<1>4. t - s = d * r - d * q
  BY <1>1, <1>3
<1>. HIDE DEF q, r
<1>5. CASE r <= q
  <2>1. r = q \/ d * r + d <= d * q
    BY <1>3, <1>5, Multiples
  <2>. QED BY <2>1, <1>3, <1>4
<1>6. CASE q < r
  <2>1. d * q + d <= d * r
    BY <1>3, <1>6, Multiples
  <2>. QED BY <2>1, <1>3, <1>4
<1>. QED BY <1>3, <1>5, <1>6

\* As many rounds are enough as it takes to hand out everything.
LEMMA EnoughRounds ==
    ASSUME NEW i \in Nat, NEW n \in Nat, NEW d \in Nat \ {0}, i < n
    PROVE  (i \div d) + 1 <= (n + d - 1) \div d
OBVIOUS

LEMMA NineOfTen ==
    \A o, n \in Nat : o < (n * 9) \div 10 =>
        LET e == (o \div 9) * 10 + (o % 9) IN e \in Nat /\ e < n /\ e % 10 # 9
OBVIOUS

LEMMA NineOfTenOnce ==
    \A o, u \in Nat : (o \div 9) * 10 + (o % 9) = (u \div 9) * 10 + (u % 9) => o = u
OBVIOUS

(***************************************************************************)
(* The formulas.                                                           *)
(***************************************************************************)

LEMMA Columns ==
    /\ DOMAIN COLUMNS = 1 .. 7 /\ Len(COLUMNS) = 7
    /\ COLUMNS[1] = "users" /\ COLUMNS[2] = "companies" /\ COLUMNS[3] = "company_access"
    /\ COLUMNS[4] = "employees" /\ COLUMNS[5] = "projects"
    /\ COLUMNS[6] = "project_employees" /\ COLUMNS[7] = "auth_sessions"
    /\ Tables = {"users", "companies", "company_access", "employees", "projects",
                 "project_employees", "auth_sessions"}
<1>1. /\ DOMAIN COLUMNS = 1 .. 7 /\ Len(COLUMNS) = 7
      /\ COLUMNS[1] = "users" /\ COLUMNS[2] = "companies" /\ COLUMNS[3] = "company_access"
      /\ COLUMNS[4] = "employees" /\ COLUMNS[5] = "projects"
      /\ COLUMNS[6] = "project_employees" /\ COLUMNS[7] = "auth_sessions"
  BY DEF COLUMNS
<1>. HIDE DEF COLUMNS
<1>2. Tables = {COLUMNS[i] : i \in 1 .. 7}
  BY <1>1 DEF Tables
<1>3. \A i \in 1 .. 7 : i = 1 \/ i = 2 \/ i = 3 \/ i = 4 \/ i = 5 \/ i = 6 \/ i = 7
  OBVIOUS
<1>. QED BY <1>1, <1>2, <1>3

\* Every table has one place in the order of copying.
LEMMA Places ==
    /\ \A i \in DOMAIN COLUMNS : COLUMNS[i] \in Tables
    /\ \A table \in Tables : \E i \in DOMAIN COLUMNS : table = COLUMNS[i]
    /\ \A i, j \in DOMAIN COLUMNS : COLUMNS[i] = COLUMNS[j] => i = j
<1>1. \A i \in 1 .. 7 : i = 1 \/ i = 2 \/ i = 3 \/ i = 4 \/ i = 5 \/ i = 6 \/ i = 7
  OBVIOUS
<1>2. \A i, j \in DOMAIN COLUMNS : COLUMNS[i] = COLUMNS[j] => i = j
  BY Columns, <1>1
<1>. QED BY <1>2 DEF Tables

\* What a profile's counts are, and that the divisors are not zero.
LEMMA Counts ==
    ASSUME NEW p \in Profiles
    PROVE  /\ p.users \in Nat \ {0} /\ p.companies \in Nat \ {0} /\ p.access \in Nat \ {0}
           /\ p.employees \in Nat \ {0} /\ p.projects \in Nat
           /\ p.assignments \in Nat /\ p.sessions \in Nat
           /\ Eligible(p) \in Nat \ {0}
           /\ \A table \in Tables : Count(table, p) \in Nat
<1>1. p \in [CountNames -> Nat] /\ Fits(p)
  BY ProfilesFit
<1>2. /\ p.users \in Nat /\ p.companies \in Nat /\ p.access \in Nat /\ p.employees \in Nat
      /\ p.projects \in Nat /\ p.assignments \in Nat /\ p.sessions \in Nat
  BY <1>1 DEF CountNames
<1>3. p.companies >= 10 /\ p.employees >= 2 /\ p.access >= 50
  BY <1>1, <1>2 DEF Fits
<1>4. p.users > 0
  <2>1. p.access - 1 \in Nat /\ p.companies \in Nat \ {0}
    BY <1>2, <1>3
  <2>2. (p.access - 1) \div p.companies \in Nat
    BY <2>1, Divided
  <2>. QED BY <1>1, <1>2, <2>2 DEF Fits
<1>5. Eligible(p) \in Nat \ {0}
  BY <1>2, <1>3 DEF Eligible
<1>6. \A table \in Tables : Count(table, p) \in Nat
  BY <1>2, Columns DEF Count
<1>. QED BY <1>2, <1>3, <1>4, <1>5, <1>6

\* Every employee has a company.
LEMMA EmployeesHaveCompanies ==
    ASSUME NEW p \in Profiles, NEW i \in Nat
    PROVE  EmployeeCompany(i, p) \in 0 .. p.companies - 1
<1>1. p.companies \in Nat /\ p.companies >= 10 /\ p.employees \in Nat
  BY Counts, ProfilesFit DEF Fits
<1>. DEFINE hot == p.employees \div 10
<1>. DEFINE few == p.companies \div 5
<1>. DEFINE most == (p.employees * 4) \div 5
<1>2. few \in Nat /\ few >= 2 /\ few < p.companies /\ hot \in Nat /\ most \in Nat
  BY <1>1
<1>. HIDE DEF hot, few, most
<1>3. CASE i < hot
  BY <1>1, <1>3 DEF EmployeeCompany, hot
<1>4. CASE ~ (i < hot) /\ i < most
  <2>1. i - hot \in Nat /\ few - 1 \in Nat \ {0}
    BY <1>2, <1>4
  <2>2. (i - hot) % (few - 1) \in 0 .. (few - 1) - 1
    BY <2>1, Divided
  <2>3. EmployeeCompany(i, p) = 1 + ((i - hot) % (few - 1))
    BY <1>4 DEF EmployeeCompany, hot, few, most
  <2>. QED BY <1>1, <1>2, <2>2, <2>3
<1>5. CASE ~ (i < hot) /\ ~ (i < most)
  <2>1. i - most \in Nat /\ p.companies - few \in Nat \ {0}
    BY <1>1, <1>2, <1>5
  <2>2. (i - most) % (p.companies - few) \in 0 .. (p.companies - few) - 1
    BY <2>1, Divided
  <2>3. EmployeeCompany(i, p) = few + ((i - most) % (p.companies - few))
    BY <1>5 DEF EmployeeCompany, hot, few, most
  <2>. QED BY <1>1, <1>2, <2>2, <2>3
<1>. QED BY <1>3, <1>4, <1>5

\* Only employees that are there and have not left are assigned.
LEMMA AssigneesArePresent ==
    ASSUME NEW p \in Profiles, NEW i \in Nat
    PROVE  /\ Assignee(i, p) \in 0 .. p.employees - 1
           /\ Status(Assignee(i, p)) # "terminated"
<1>. DEFINE o == i % Eligible(p)
<1>1. Eligible(p) \in Nat \ {0} /\ p.employees \in Nat
  BY Counts
<1>2. o \in Nat /\ o < Eligible(p)
  BY <1>1, Divided
<1>3. Assignee(i, p) = (o \div 9) * 10 + (o % 9)
  BY DEF Assignee
<1>. HIDE DEF o
<1>4. Assignee(i, p) \in Nat /\ Assignee(i, p) < p.employees /\ Assignee(i, p) % 10 # 9
  BY <1>1, <1>2, <1>3, NineOfTen DEF Eligible
<1>. QED BY <1>1, <1>4 DEF Status

\* A row of access is of a company and a user that are there.
LEMMA AccessesHaveBoth ==
    ASSUME NEW p \in Profiles, NEW i \in Nat
    PROVE  /\ AccessRow(i, p)[1] = i % p.companies
           /\ i % p.companies \in 0 .. p.companies - 1
           /\ AccessRow(i, p)[2] = ((i % p.companies) * 5 + (i \div p.companies)) % p.users
           /\ AccessRow(i, p)[2] \in 0 .. p.users - 1
           /\ AccessRow(i, p)[3] = IF i \div p.companies = 0 THEN "owner" ELSE "admin"
<1>. DEFINE c == i % p.companies
<1>. DEFINE s == i \div p.companies
<1>1. p.companies \in Nat \ {0} /\ p.users \in Nat \ {0}
  BY Counts
<1>2. c \in 0 .. p.companies - 1 /\ s \in Nat
  BY <1>1, Divided
<1>3. AccessRow(i, p) = <<c, (c * 5 + s) % p.users, IF s = 0 THEN "owner" ELSE "admin">>
  BY DEF AccessRow
<1>. HIDE DEF c, s
<1>4. c * 5 + s \in Nat
  BY <1>1, <1>2
<1>5. (c * 5 + s) % p.users \in 0 .. p.users - 1
  BY <1>1, <1>4, Divided
<1>6. /\ AccessRow(i, p)[1] = c /\ AccessRow(i, p)[2] = (c * 5 + s) % p.users
      /\ AccessRow(i, p)[3] = IF s = 0 THEN "owner" ELSE "admin"
  BY <1>3
<1>7. c = i % p.companies /\ s = i \div p.companies
  BY DEF c, s
<1>. QED BY <1>2, <1>5, <1>6, <1>7

LEMMA AccessesAreUnique ==
    ASSUME NEW p \in Profiles,
           NEW i \in 0 .. p.access - 1, NEW j \in 0 .. p.access - 1, i < j
    PROVE  Keys("company_access", AccessRow(i, p)) \cap Keys("company_access", AccessRow(j, p)) = {}
<1>. DEFINE c(k) == k % p.companies
<1>. DEFINE s(k) == k \div p.companies
<1>. DEFINE r(k) == AccessRow(k, p)
<1>1. /\ p.companies \in Nat \ {0} /\ p.users \in Nat \ {0} /\ p.access \in Nat \ {0}
      /\ i \in Nat /\ j \in Nat /\ p.access - 1 \in Nat /\ j <= p.access - 1
  BY Counts
<1>2. /\ c(i) \in Nat /\ s(i) \in Nat /\ i = p.companies * s(i) + c(i)
      /\ c(j) \in Nat /\ s(j) \in Nat /\ j = p.companies * s(j) + c(j)
  <2>1. c(i) \in Nat /\ s(i) \in Nat /\ i = p.companies * s(i) + c(i)
    BY <1>1, Divided
  <2>2. c(j) \in Nat /\ s(j) \in Nat /\ j = p.companies * s(j) + c(j)
    BY <1>1, Divided
  <2>. QED BY <2>1, <2>2
<1>3. s(j) < p.users
  <2>1. s(j) <= (p.access - 1) \div p.companies
    BY <1>1, QuotientsGrow
  <2>2. (p.access - 1) \div p.companies \in Nat
    BY <1>1, Divided
  <2>3. (p.access - 1) \div p.companies < p.users
    BY ProfilesFit DEF Fits
  <2>. QED BY <1>1, <1>2, <2>1, <2>2, <2>3
<1>4. s(i) <= s(j)
  BY <1>1, QuotientsGrow
<1>5. /\ r(i)[1] = c(i) /\ r(i)[2] = (c(i) * 5 + s(i)) % p.users /\ r(i)[2] \in Nat
      /\ r(i)[3] = IF s(i) = 0 THEN "owner" ELSE "admin"
      /\ r(j)[1] = c(j) /\ r(j)[2] = (c(j) * 5 + s(j)) % p.users /\ r(j)[2] \in Nat
      /\ r(j)[3] = IF s(j) = 0 THEN "owner" ELSE "admin"
  BY <1>1, AccessesHaveBoth
<1>. HIDE DEF c, s, r
<1>6. c(i) = c(j) => s(i) < s(j)
  BY <1>1, <1>2, <1>4
<1>7. c(i) = c(j) => r(i)[2] # r(j)[2]
  <2>1. SUFFICES ASSUME c(i) = c(j) PROVE r(i)[2] # r(j)[2]
    OBVIOUS
  <2>2. c(i) * 5 \in Nat /\ s(i) < s(j)
    BY <1>2, <1>6, <2>1
  <2>3. (c(i) * 5 + s(i)) % p.users # (c(i) * 5 + s(j)) % p.users
    BY <1>1, <1>2, <1>3, <2>2, OnceAround
  <2>. QED BY <1>5, <2>1, <2>3
<1>8. <<r(i)[1], r(i)[2]>> # <<r(j)[1], r(j)[2]>>
  BY <1>5, <1>7
<1>9. <<r(i)[1], r(i)[2]>> # <<r(j)[1], -1>> /\ <<r(i)[1], -1>> # <<r(j)[1], r(j)[2]>>
  BY <1>5
<1>10. r(i)[3] = "owner" /\ r(j)[3] = "owner" => <<r(i)[1], -1>> # <<r(j)[1], -1>>
  BY <1>2, <1>5, <1>6
<1>11. Keys("company_access", r(i)) \cap Keys("company_access", r(j)) = {}
  BY <1>8, <1>9, <1>10 DEF Keys
<1>. QED BY <1>11 DEF r

LEMMA AssignmentsAreUnique ==
    ASSUME NEW p \in Profiles, NEW i \in Nat, NEW j \in Nat, i < j
    PROVE  AssignmentRow(i, p)[2] # AssignmentRow(j, p)[2]
           \/ AssignmentRow(i, p)[3] # AssignmentRow(j, p)[3]
<1>. DEFINE o(k) == k % Eligible(p)
<1>. DEFINE q(k) == k \div Eligible(p)
<1>. DEFINE company(k) == EmployeeCompany(Assignee(k, p), p)
<1>1. Eligible(p) \in Nat \ {0} /\ p.companies \in Nat \ {0} /\ p.employees \in Nat
  BY Counts
<1>2. /\ o(i) \in Nat /\ q(i) \in Nat /\ i = Eligible(p) * q(i) + o(i)
      /\ o(j) \in Nat /\ q(j) \in Nat /\ j = Eligible(p) * q(j) + o(j)
  <2>1. o(i) \in Nat /\ q(i) \in Nat /\ i = Eligible(p) * q(i) + o(i)
    BY <1>1, Divided
  <2>2. o(j) \in Nat /\ q(j) \in Nat /\ j = Eligible(p) * q(j) + o(j)
    BY <1>1, Divided
  <2>. QED BY <2>1, <2>2
<1>3. q(i) <= q(j)
  BY <1>1, QuotientsGrow
<1>4. /\ AssignmentRow(i, p)[2] = company(i) + q(i) * p.companies
      /\ AssignmentRow(i, p)[3] = Assignee(i, p)
      /\ AssignmentRow(j, p)[2] = company(j) + q(j) * p.companies
      /\ AssignmentRow(j, p)[3] = Assignee(j, p)
  BY DEF AssignmentRow
<1>5. /\ Assignee(i, p) = (o(i) \div 9) * 10 + (o(i) % 9)
      /\ Assignee(j, p) = (o(j) \div 9) * 10 + (o(j) % 9)
  BY DEF Assignee
<1>6. Assignee(i, p) \in Nat /\ Assignee(j, p) \in Nat
  BY <1>1, AssigneesArePresent
<1>7. company(i) \in Nat /\ company(j) \in Nat
  BY <1>1, <1>6, EmployeesHaveCompanies
<1>8. SUFFICES ASSUME Assignee(i, p) = Assignee(j, p)
               PROVE  company(i) + q(i) * p.companies # company(j) + q(j) * p.companies
  BY <1>4
<1>9. company(i) = company(j)
  BY <1>8
<1>. HIDE DEF o, q, company
<1>10. o(i) = o(j)
  BY <1>2, <1>5, <1>8, NineOfTenOnce
<1>11. q(i) < q(j)
  BY <1>1, <1>2, <1>3, <1>10
<1>12. q(i) * p.companies + p.companies <= q(j) * p.companies
  BY <1>1, <1>2, <1>11, Multiples
<1>13. q(i) * p.companies \in Nat /\ q(j) * p.companies \in Nat
  BY <1>1, <1>2
<1>14. q(i) * p.companies < q(j) * p.companies
  BY <1>1, <1>12, <1>13
<1>. DEFINE before == q(i) * p.companies
<1>. DEFINE after == q(j) * p.companies
<1>15. before \in Nat /\ after \in Nat /\ before < after
  BY <1>13, <1>14
<1>. HIDE DEF before, after
<1>16. company(i) + before # company(j) + after
  BY <1>7, <1>9, <1>15
<1>. QED BY <1>16 DEF before, after

\* No two rows of a table have the same entry in a unique index.
LEMMA RowsAreUnique ==
    ASSUME NEW p \in Profiles, NEW table \in Tables,
           NEW i \in 0 .. Count(table, p) - 1, NEW j \in 0 .. Count(table, p) - 1, i # j
    PROVE  Keys(table, Row(table, i, p)) \cap Keys(table, Row(table, j, p)) = {}
<1>1. Count(table, p) \in Nat /\ i \in Nat /\ j \in Nat
  BY Counts
<1>2. CASE table = "company_access"
  <2>1. Row(table, i, p) = AccessRow(i, p) /\ Row(table, j, p) = AccessRow(j, p)
    BY <1>2 DEF Row
  <2>2. i \in 0 .. p.access - 1 /\ j \in 0 .. p.access - 1
    BY <1>2 DEF Count
  <2>3. CASE i < j
    BY <1>2, <2>1, <2>2, <2>3, AccessesAreUnique
  <2>4. CASE j < i
    BY <1>2, <2>1, <2>2, <2>4, AccessesAreUnique
  <2>. QED BY <1>1, <2>3, <2>4
<1>3. CASE table = "project_employees"
  <2>1. Row(table, i, p) = AssignmentRow(i, p) /\ Row(table, j, p) = AssignmentRow(j, p)
    BY <1>3 DEF Row
  <2>2. /\ Keys(table, Row(table, i, p)) = {<<AssignmentRow(i, p)[1], AssignmentRow(i, p)[2],
                                              AssignmentRow(i, p)[3]>>}
        /\ Keys(table, Row(table, j, p)) = {<<AssignmentRow(j, p)[1], AssignmentRow(j, p)[2],
                                              AssignmentRow(j, p)[3]>>}
    BY <1>3, <2>1 DEF Keys
  <2>3. \/ AssignmentRow(i, p)[2] # AssignmentRow(j, p)[2]
        \/ AssignmentRow(i, p)[3] # AssignmentRow(j, p)[3]
    <3>1. CASE i < j
      BY <1>1, <3>1, AssignmentsAreUnique
    <3>2. CASE j < i
      BY <1>1, <3>2, AssignmentsAreUnique
    <3>. QED BY <1>1, <3>1, <3>2
  <2>. QED BY <2>2, <2>3
<1>4. CASE table \notin {"company_access", "project_employees"}
  <2>1. Row(table, i, p)[1] = i /\ Row(table, j, p)[1] = j
    BY <1>4, Columns DEF Row
  <2>2. /\ Keys(table, Row(table, i, p)) = {Row(table, i, p)[1]}
        /\ Keys(table, Row(table, j, p)) = {Row(table, j, p)[1]}
    BY <1>4 DEF Keys
  <2>. QED BY <2>1, <2>2
<1>. QED BY <1>2, <1>3, <1>4

\* Every assignment's project is one of its company.
LEMMA ProjectsAreThere ==
    ASSUME NEW p \in Profiles, NEW i \in 0 .. p.assignments - 1
    PROVE  /\ AssignmentRow(i, p)[2] \in 0 .. p.projects - 1
           /\ AssignmentRow(i, p)[2] % p.companies = AssignmentRow(i, p)[1]
<1>. DEFINE q == i \div Eligible(p)
<1>. DEFINE company == EmployeeCompany(Assignee(i, p), p)
<1>1. /\ Eligible(p) \in Nat \ {0} /\ p.companies \in Nat \ {0} /\ p.projects \in Nat
      /\ p.employees \in Nat /\ p.assignments \in Nat /\ i \in Nat /\ i < p.assignments
  BY Counts
<1>2. AssignmentRow(i, p)[1] = company /\ AssignmentRow(i, p)[2] = company + q * p.companies
  BY DEF AssignmentRow
<1>3. Assignee(i, p) \in Nat
  BY <1>1, AssigneesArePresent
<1>4. company \in 0 .. p.companies - 1
  BY <1>3, EmployeesHaveCompanies
<1>5. q \in Nat
  BY <1>1, Divided
<1>6. q + 1 <= Rounds(p)
  <2>1. (i \div Eligible(p)) + 1 <= (p.assignments + Eligible(p) - 1) \div Eligible(p)
    BY <1>1, EnoughRounds
  <2>. QED BY <2>1 DEF Rounds
<1>7. Rounds(p) \in Nat
  <2>1. p.assignments + Eligible(p) - 1 \in Nat
    BY <1>1
  <2>2. (p.assignments + Eligible(p) - 1) \div Eligible(p) \in Nat
    BY <1>1, <2>1, Divided
  <2>. QED BY <2>2 DEF Rounds
<1>8. p.companies * Rounds(p) <= p.projects
  BY ProfilesFit DEF Fits
<1>. HIDE DEF q, company
<1>9. q * p.companies + p.companies <= Rounds(p) * p.companies
  BY <1>1, <1>5, <1>6, <1>7, Multiples
<1>10. Rounds(p) * p.companies = p.companies * Rounds(p)
  BY <1>1, <1>7
<1>. DEFINE before == q * p.companies
<1>. DEFINE all == p.companies * Rounds(p)
<1>11. before \in Nat /\ all \in Nat /\ before + p.companies <= all /\ all <= p.projects
  BY <1>1, <1>5, <1>7, <1>8, <1>9, <1>10
<1>12. (q * p.companies + company) % p.companies = company
  BY <1>1, <1>4, <1>5, DividedOnce
<1>13. (before + company) % p.companies = company
  BY <1>12
<1>. HIDE DEF before, all
<1>14. company + before \in 0 .. p.projects - 1 /\ company + before = before + company
  BY <1>1, <1>4, <1>11
<1>. QED BY <1>2, <1>13, <1>14 DEF before

\* Among the rows of projects is the one of an assignment.
LEMMA ProjectOfAssignment ==
    ASSUME NEW p \in Profiles, NEW i \in 0 .. p.assignments - 1
    PROVE  \E q \in Rows("projects", p) :
                /\ q[1] = AssignmentRow(i, p)[2] /\ q[2] = AssignmentRow(i, p)[1]
                /\ q[3] \in {"active", "completed"}
<1>. DEFINE k == AssignmentRow(i, p)[2]
<1>1. k \in 0 .. p.projects - 1 /\ k % p.companies = AssignmentRow(i, p)[1]
  BY ProjectsAreThere
<1>2. Rows("projects", p) = {<<j, j % p.companies, ProjectStatus(j)>> : j \in 0 .. p.projects - 1}
  BY DEF Rows, Row, Count
<1>3. ProjectStatus(k) \in {"active", "completed"}
  BY DEF ProjectStatus
<1>. HIDE DEF k
<1>4. <<k, k % p.companies, ProjectStatus(k)>> \in Rows("projects", p)
  BY <1>1, <1>2
<1>. QED BY <1>1, <1>3, <1>4 DEF k

\* With the tables before complete, the foreign keys of every row are there.
LEMMA ParentsAreThere ==
    ASSUME NEW p \in Profiles, NEW a \in DOMAIN COLUMNS, NEW n \in Nat, FilledUpTo(p, a, n),
           NEW i \in 0 .. Count(COLUMNS[a], p) - 1
    PROVE  HasParents(COLUMNS[a], Row(COLUMNS[a], i, p))
<1>1. /\ p.users \in Nat \ {0} /\ p.companies \in Nat \ {0} /\ p.access \in Nat \ {0}
      /\ p.employees \in Nat \ {0} /\ p.projects \in Nat
      /\ p.assignments \in Nat /\ p.sessions \in Nat /\ i \in Nat
      /\ Count(COLUMNS[a], p) \in Nat
  BY Counts, Places
<1>2. \A j \in DOMAIN COLUMNS : j < a => db[COLUMNS[j]] = Rows(COLUMNS[j], p)
  BY DEF FilledUpTo
<1>3. a > 1 => \A k \in 0 .. p.users - 1 : Stored("users", <<k>>)
  <2>1. Rows("users", p) = {<<k>> : k \in 0 .. p.users - 1}
    BY DEF Rows, Row, Count
  <2>. QED BY <1>2, <2>1, Columns DEF Stored
<1>4. a > 2 => \A k \in 0 .. p.companies - 1 : Stored("companies", <<k>>)
  <2>1. Rows("companies", p) = {<<k>> : k \in 0 .. p.companies - 1}
    BY DEF Rows, Row, Count
  <2>. QED BY <1>2, <2>1, Columns DEF Stored
<1>5. CASE a = 1 \/ a = 2
  BY <1>5, Columns DEF HasParents
<1>6. CASE a = 3
  <2>1. COLUMNS[a] = "company_access"
    BY <1>6, Columns
  <2>2. /\ AccessRow(i, p)[1] \in 0 .. p.companies - 1
        /\ AccessRow(i, p)[2] \in 0 .. p.users - 1
    BY <1>1, AccessesHaveBoth
  <2>3. Row(COLUMNS[a], i, p) = AccessRow(i, p)
    BY <2>1 DEF Row
  <2>. QED BY <1>3, <1>4, <1>6, <2>1, <2>2, <2>3 DEF HasParents
<1>7. CASE a = 4
  <2>1. COLUMNS[a] = "employees"
    BY <1>7, Columns
  <2>2. Row(COLUMNS[a], i, p)[2] = EmployeeCompany(i, p)
    BY <2>1 DEF Row
  <2>. QED BY <1>1, <1>4, <1>7, <2>1, <2>2, EmployeesHaveCompanies DEF HasParents
<1>8. CASE a = 5
  <2>1. COLUMNS[a] = "projects"
    BY <1>8, Columns
  <2>2. Row(COLUMNS[a], i, p) = <<i, i % p.companies, ProjectStatus(i)>>
    BY <2>1 DEF Row
  <2>3. i % p.companies \in 0 .. p.companies - 1
    BY <1>1, Divided
  <2>. QED BY <1>4, <1>8, <2>1, <2>2, <2>3 DEF HasParents
<1>9. CASE a = 6
  <2>. DEFINE r == AssignmentRow(i, p)
  <2>1. COLUMNS[a] = "project_employees" /\ i \in 0 .. p.assignments - 1
    BY <1>9, Columns DEF Count
  <2>2. Row(COLUMNS[a], i, p) = r
    BY <2>1 DEF Row
  <2>3. \E q \in db["projects"] : q[1] = r[2] /\ q[2] = r[1]
    <3>1. db["projects"] = Rows("projects", p)
      BY <1>2, <1>9, Columns
    <3>. QED BY <2>1, <3>1, ProjectOfAssignment
  <2>4. \E e \in db["employees"] : e[1] = r[3] /\ e[2] = r[1]
    <3>. DEFINE e == Row("employees", Assignee(i, p), p)
    <3>1. Assignee(i, p) \in 0 .. p.employees - 1
      BY <1>1, AssigneesArePresent
    <3>2. e \in Rows("employees", p)
      BY <3>1 DEF Rows, Count
    <3>3. e[1] = Assignee(i, p) /\ e[2] = EmployeeCompany(Assignee(i, p), p)
      BY DEF Row
    <3>4. db["employees"] = Rows("employees", p)
      BY <1>2, <1>9, Columns
    <3>5. r[3] = Assignee(i, p) /\ r[1] = EmployeeCompany(Assignee(i, p), p)
      BY DEF AssignmentRow
    <3>. QED BY <3>2, <3>3, <3>4, <3>5
  <2>5. Stored("users", <<r[4]>>)
    <3>1. Assignee(i, p) \in Nat
      BY <1>1, AssigneesArePresent
    <3>2. EmployeeCompany(Assignee(i, p), p) \in Nat
      BY <1>1, <3>1, EmployeesHaveCompanies
    <3>3. EmployeeCompany(Assignee(i, p), p) * 5 \in Nat
      BY <3>2
    <3>4. r[4] = (EmployeeCompany(Assignee(i, p), p) * 5) % p.users
      BY DEF AssignmentRow
    <3>5. r[4] \in 0 .. p.users - 1
      BY <1>1, <3>3, <3>4, Divided
    <3>. QED BY <1>3, <1>9, <3>5
  <2>. HIDE DEF r
  <2>. QED BY <2>1, <2>2, <2>3, <2>4, <2>5 DEF HasParents
<1>10. CASE a = 7
  <2>1. COLUMNS[a] = "auth_sessions" /\ i \in 0 .. p.sessions - 1
    BY <1>10, Columns DEF Count
  <2>2. Row(COLUMNS[a], i, p)[2] = i
    BY <2>1 DEF Row
  <2>3. p.sessions <= p.users
    BY ProfilesFit DEF Fits
  <2>4. i \in 0 .. p.users - 1
    BY <1>1, <2>1, <2>3
  <2>. QED BY <1>3, <1>10, <2>1, <2>2, <2>4 DEF HasParents
<1>. QED BY <1>5, <1>6, <1>7, <1>8, <1>9, <1>10, Columns

(***************************************************************************)
(* Batches.                                                                *)
(***************************************************************************)

\* A batch begins where the last one ended, and is empty only after the last row.
LEMMA Batches ==
    ASSUME NEW g \in Generators, counts[g] \in Profiles, at[g] \in DOMAIN COLUMNS,
           first[g] \in 0 .. Count(Table(g), counts[g])
    PROVE  \E stop \in first[g] .. Count(Table(g), counts[g]) :
            /\ Batch(g) = first[g] .. stop - 1
            /\ Cardinality(Batch(g)) = stop - first[g]
            /\ first[g] < Count(Table(g), counts[g]) => first[g] < stop
<1>. DEFINE all == Count(Table(g), counts[g])
<1>. DEFINE stop == IF first[g] + BatchSize - 1 < all - 1 THEN first[g] + BatchSize ELSE all
<1>1. all \in Nat
  BY Counts, Places DEF Table
<1>2. first[g] \in Nat /\ first[g] <= all /\ BatchSize \in Nat \ {0}
  BY <1>1, BatchSizeIsPositive
<1>3. Batch(g) = first[g] .. (IF first[g] + BatchSize - 1 < all - 1
                              THEN first[g] + BatchSize - 1 ELSE all - 1)
  BY DEF Batch
<1>. HIDE DEF all
<1>4. /\ stop \in Nat /\ first[g] <= stop /\ stop <= all
      /\ first[g] < all => first[g] < stop
  BY <1>1, <1>2
<1>5. Batch(g) = first[g] .. stop - 1
  BY <1>1, <1>2, <1>3
<1>. HIDE DEF stop
<1>6. Cardinality(first[g] .. stop - 1) = stop - first[g]
  <2>1. first[g] \in Int /\ stop - 1 \in Int
    BY <1>2, <1>4
  <2>2. Cardinality(first[g] .. stop - 1) =
            IF first[g] > stop - 1 THEN 0 ELSE (stop - 1) - first[g] + 1
    BY <2>1, FS_Interval
  <2>. QED BY <1>2, <1>4, <2>2
<1>7. stop \in first[g] .. all
  BY <1>1, <1>2, <1>4
<1>. QED BY <1>4, <1>5, <1>6, <1>7 DEF all

\* The rows of a batch follow those that are stored.
LEMMA BatchContinues ==
    ASSUME NEW g \in Generators, counts[g] \in Profiles, at[g] \in DOMAIN COLUMNS,
           first[g] \in 0 .. Count(Table(g), counts[g])
    PROVE  LET n == first[g] + Cardinality(Batch(g)) IN
            /\ n \in 0 .. Count(Table(g), counts[g])
            /\ Batch(g) # {} => n > 0
            /\ Part(Table(g), counts[g], first[g]) \cup BatchRows(g)
                    = Part(Table(g), counts[g], n)
<1>1. Count(Table(g), counts[g]) \in Nat
  BY Counts, Places DEF Table
<1>2. PICK stop \in first[g] .. Count(Table(g), counts[g]) :
            /\ Batch(g) = first[g] .. stop - 1
            /\ Cardinality(Batch(g)) = stop - first[g]
  BY Batches
<1>3. first[g] + Cardinality(Batch(g)) = stop
  BY <1>1, <1>2
<1>4. stop \in 0 .. Count(Table(g), counts[g]) /\ (Batch(g) # {} => stop > 0)
  BY <1>1, <1>2
<1>5. 0 .. stop - 1 = (0 .. first[g] - 1) \cup Batch(g)
  BY <1>1, <1>2
<1>6. Part(Table(g), counts[g], first[g]) \cup BatchRows(g) = Part(Table(g), counts[g], stop)
  BY <1>5 DEF Part, BatchRows
<1>. QED BY <1>3, <1>4, <1>6

\* A generator whose rows are all there has nothing more to store.
LEMMA NothingLeft ==
    ASSUME NEW g \in Generators, counts[g] \in Profiles, at[g] \in DOMAIN COLUMNS,
           first[g] \in 0 .. Count(Table(g), counts[g])
    PROVE  Batch(g) = {} <=> first[g] = Count(Table(g), counts[g])
<1>1. Count(Table(g), counts[g]) \in Nat
  BY Counts, Places DEF Table
<1>2. PICK stop \in first[g] .. Count(Table(g), counts[g]) :
            /\ Batch(g) = first[g] .. stop - 1
            /\ first[g] < Count(Table(g), counts[g]) => first[g] < stop
  BY Batches
<1>. QED BY <1>1, <1>2

\* The first batch of users is never empty, and begins with the same key.
LEMMA FirstBatch ==
    ASSUME NEW g \in Generators, counts[g] \in Profiles, at[g] = 1, first[g] = 0
    PROVE  Batch(g) # {} /\ 0 \in Batch(g) /\ <<0>> \in BatchRows(g)
           /\ 0 \in KeysOf(Table(g), BatchRows(g))
<1>1. Table(g) = "users" /\ Count("users", counts[g]) \in Nat \ {0}
  BY Columns, Counts DEF Table, Count
<1>2. PICK stop \in 0 .. Count("users", counts[g]) :
            /\ Batch(g) = 0 .. stop - 1
            /\ 0 < Count("users", counts[g]) => 0 < stop
  BY <1>1, Columns, Batches
<1>3. 0 \in Batch(g)
  BY <1>1, <1>2
<1>4. Row(Table(g), 0, counts[g]) = <<0>>
  BY <1>1 DEF Row
<1>5. <<0>> \in BatchRows(g)
  BY <1>3, <1>4 DEF BatchRows
<1>6. 0 \in Keys(Table(g), <<0>>)
  BY <1>1 DEF Keys
<1>. QED BY <1>3, <1>5, <1>6 DEF KeysOf

\* Where the tables are as far as the generator is, its batch is accepted.
LEMMA FollowingBatchAccepted ==
    ASSUME NEW g \in Generators, counts[g] \in Profiles, at[g] \in DOMAIN COLUMNS,
           first[g] \in 0 .. Count(Table(g), counts[g]),
           FilledUpTo(counts[g], at[g], first[g])
    PROVE  Accepted(g)
<1>. DEFINE table == Table(g)
<1>. DEFINE p == counts[g]
<1>1. Count(table, p) \in Nat /\ table \in Tables
  BY Counts, Places DEF Table
<1>2. PICK stop \in first[g] .. Count(table, p) : Batch(g) = first[g] .. stop - 1
  BY Batches
<1>3. first[g] \in Nat /\ stop \in Nat /\ stop <= Count(table, p)
  BY <1>1, <1>2
<1>4. \A i \in Batch(g) : i \in 0 .. Count(table, p) - 1
  BY <1>1, <1>2, <1>3
<1>5. \A k \in 0 .. first[g] - 1, i \in Batch(g) :
            k \in 0 .. Count(table, p) - 1 /\ k # i
  BY <1>1, <1>2, <1>3
<1>6. db[table] = Part(table, p, first[g])
  <2>1. ~ (at[g] < at[g])
    BY Columns
  <2>. QED BY <2>1 DEF FilledUpTo, Table
<1>. HIDE DEF table
<1>. HIDE DEF p
<1>7. \A i, j \in 0 .. Count(table, p) - 1 : i # j =>
            Keys(table, Row(table, i, p)) \cap Keys(table, Row(table, j, p)) = {}
  BY <1>1, RowsAreUnique DEF p
<1>8. KeysOf(table, BatchRows(g)) \cap KeysOf(table, db[table]) = {}
  <2>1. SUFFICES ASSUME NEW key \in KeysOf(table, BatchRows(g)),
                        key \in KeysOf(table, db[table])
                 PROVE  FALSE
    OBVIOUS
  <2>2. PICK i \in Batch(g) : key \in Keys(table, Row(table, i, p))
    BY DEF KeysOf, BatchRows, table, p
  <2>3. PICK k \in 0 .. first[g] - 1 : key \in Keys(table, Row(table, k, p))
    BY <1>6, <2>1 DEF KeysOf, Part
  <2>. QED BY <1>4, <1>5, <1>7, <2>2, <2>3
<1>9. \A i, j \in Batch(g) : i < j =>
            Keys(table, Row(table, i, p)) \cap Keys(table, Row(table, j, p)) = {}
  <2>1. SUFFICES ASSUME NEW i \in Batch(g), NEW j \in Batch(g), i < j
                 PROVE  Keys(table, Row(table, i, p)) \cap Keys(table, Row(table, j, p)) = {}
    OBVIOUS
  <2>2. i # j
    BY <1>2, <1>3, <2>1
  <2>. QED BY <1>4, <1>7, <2>2
<1>10. \A r \in BatchRows(g) : HasParents(table, r)
  <2>1. SUFFICES ASSUME NEW i \in Batch(g) PROVE HasParents(table, Row(table, i, p))
    BY DEF BatchRows, table, p
  <2>2. i \in 0 .. Count(COLUMNS[at[g]], counts[g]) - 1
    BY <1>4 DEF table, p, Table
  <2>3. HasParents(COLUMNS[at[g]], Row(COLUMNS[at[g]], i, counts[g]))
    BY <1>3, <2>2, ParentsAreThere
  <2>. QED BY <2>3 DEF table, p, Table
<1>. QED BY <1>8, <1>9, <1>10 DEF Accepted, table, p

(***************************************************************************)
(* The invariant holds.                                                    *)
(***************************************************************************)

LEMMA InitInvariant == Init => IInv
<1>. SUFFICES ASSUME Init PROVE IInv
  OBVIOUS
<1>1. \A g \in Generators : phase[g] = "idle" /\ open[g] = {} /\ at[g] = 1 /\ first[g] = 0
  BY DEF Init
<1>2. 1 \in DOMAIN COLUMNS /\ COLUMNS[1] \in Tables
  BY Columns
<1>3. \A g \in Generators : Local(g)
  <2>1. SUFFICES ASSUME NEW g \in Generators PROVE Local(g)
    OBVIOUS
  <2>2. counts[g] \in Profiles => 0 \in 0 .. Count(COLUMNS[1], counts[g])
    BY <1>2, Counts
  <2>. QED BY <1>1, <2>2 DEF Local, Started, Running
<1>4. Types
  BY <1>2, <1>3 DEF Types, Init
<1>5. Fresh
  BY <1>1 DEF Fresh, Ahead, Init
<1>. QED BY <1>4, <1>5 DEF IInv, OneAtATime

\* What one generator's own step leaves of the others.
LEMMA OthersStay ==
    ASSUME NEW g \in Generators, \A h \in Generators : Local(h),
           \A h \in Generators \ {g} :
                /\ phase'[h] = phase[h] /\ counts'[h] = counts[h] /\ at'[h] = at[h]
                /\ first'[h] = first[h] /\ open'[h] = open[h]
    PROVE  \A h \in Generators \ {g} :
                /\ Local(h)' /\ (Ahead(h)' <=> Ahead(h))
<1>1. SUFFICES ASSUME NEW h \in Generators \ {g} PROVE Local(h)' /\ (Ahead(h)' <=> Ahead(h))
  OBVIOUS
<1>2. Local(h)
  OBVIOUS
<1>3. Batch(h)' = Batch(h) /\ BatchRows(h)' = BatchRows(h)
  BY DEF BatchRows, Batch, Table
<1>4. Local(h)'
  BY <1>2, <1>3 DEF Local, Started, Running
<1>. QED BY <1>4 DEF Ahead

LEMMA BeginKeeps ==
    ASSUME IInv, NEW g \in Generators, Begin(g)
    PROVE  IInv'
<1>1. Types /\ OneAtATime
  BY DEF IInv
<1>2. PICK p \in Profiles :
        /\ ~ Running(g)
        /\ phase' = [phase EXCEPT ![g] = "check"] /\ counts' = [counts EXCEPT ![g] = p]
        /\ at' = [at EXCEPT ![g] = 1] /\ first' = [first EXCEPT ![g] = 0]
        /\ db' = db /\ open' = open
  BY DEF Begin, Goto
<1>3. \A h \in Generators \ {g} :
        /\ phase'[h] = phase[h] /\ counts'[h] = counts[h] /\ at'[h] = at[h]
        /\ first'[h] = first[h] /\ open'[h] = open[h]
  BY <1>1, <1>2 DEF Types
<1>4. /\ phase'[g] = "check" /\ counts'[g] = p /\ at'[g] = 1 /\ first'[g] = 0
      /\ open'[g] = open[g] /\ phase[g] # "commit"
  BY <1>1, <1>2 DEF Types, Running
<1>5. \A h \in Generators : Local(h)
  BY <1>1 DEF Types
<1>6. \A h \in Generators \ {g} : Local(h)' /\ (Ahead(h)' <=> Ahead(h))
  BY <1>3, <1>5, OthersStay
<1>7. Local(g)'
  <2>1. open[g] = {}
    BY <1>4, <1>5 DEF Local
  <2>2. 0 \in 0 .. Count(COLUMNS[1], p)
    BY Counts, Columns
  <2>. QED BY <1>4, <2>1, <2>2 DEF Local, Started, Running
<1>8. Types'
  <2>1. 1 \in DOMAIN COLUMNS
    BY Columns
  <2>. QED BY <1>1, <1>2, <1>6, <1>7, <2>1 DEF Types
<1>9. ~ Ahead(g)' /\ ~ Ahead(g)
  BY <1>2, <1>4 DEF Ahead, Running
<1>10. CASE Fresh
  <2>1. Fresh'
    BY <1>2, <1>3, <1>4, <1>6, <1>9, <1>10 DEF Fresh
  <2>. QED BY <1>8, <2>1 DEF IInv, OneAtATime
<1>11. ASSUME NEW q \in Profiles, NEW a \in DOMAIN COLUMNS, NEW n \in 0 .. Count(COLUMNS[a], q),
              UnderWay(q, a, n)
       PROVE  IInv'
  <2>1. FilledUpTo(q, a, n)'
    BY <1>2, <1>11 DEF UnderWay, FilledUpTo
  <2>2. UnderWay(q, a, n)'
    BY <1>2, <1>3, <1>4, <1>6, <1>9, <1>11, <2>1 DEF UnderWay
  <2>. QED BY <1>8, <2>2 DEF IInv, OneAtATime
<1>. QED BY <1>1, <1>10, <1>11 DEF OneAtATime

\* A step that only moves a generator's phase, away from "commit" if from there.
LEMMA PhaseKeeps ==
    ASSUME IInv, NEW g \in Generators,
           NEW to \in {"copy", "refused", "rejected", "interrupted"},
           Running(g),
           to = "copy" => phase[g] = "check" /\ << 0 >> \notin db["users"],
           phase' = [phase EXCEPT ![g] = to],
           DOMAIN open' = Generators, open'[g] = {},
           \A h \in Generators \ {g} : open'[h] = open[h],
           UNCHANGED <<db, counts, at, first>>
    PROVE  IInv'
<1>1. Types /\ OneAtATime
  BY DEF IInv
<1>2. \A h \in Generators \ {g} :
        /\ phase'[h] = phase[h] /\ counts'[h] = counts[h] /\ at'[h] = at[h]
        /\ first'[h] = first[h] /\ open'[h] = open[h]
  BY <1>1 DEF Types
<1>3. /\ phase'[g] = to /\ counts'[g] = counts[g] /\ at'[g] = at[g] /\ first'[g] = first[g]
      /\ open'[g] = {}
  BY <1>1 DEF Types
<1>4. \A h \in Generators : Local(h)
  BY <1>1 DEF Types
<1>5. \A h \in Generators \ {g} : Local(h)' /\ (Ahead(h)' <=> Ahead(h))
  BY <1>2, <1>4, OthersStay
<1>6. Local(g)'
  BY <1>3, <1>4 DEF Local, Started, Running
<1>7. Types'
  BY <1>1, <1>5, <1>6 DEF Types
<1>8. ~ Ahead(g)'
  BY <1>3, <1>4 DEF Ahead, Local
<1>9. CASE Fresh
  <2>1. Fresh'
    BY <1>2, <1>3, <1>5, <1>8, <1>9 DEF Fresh
  <2>. QED BY <1>7, <2>1 DEF IInv, OneAtATime
<1>10. ASSUME NEW p \in Profiles, NEW a \in DOMAIN COLUMNS, NEW n \in 0 .. Count(COLUMNS[a], p),
              UnderWay(p, a, n)
       PROVE  IInv'
  <2>1. FilledUpTo(p, a, n)'
    BY <1>10 DEF UnderWay, FilledUpTo
  <2>2. UnderWay(p, a, n)'
    BY <1>2, <1>3, <1>5, <1>8, <1>10, <2>1 DEF UnderWay
  <2>. QED BY <1>7, <2>2 DEF IInv, OneAtATime
<1>. QED BY <1>1, <1>9, <1>10 DEF OneAtATime

LEMMA CheckKeeps ==
    ASSUME IInv, NEW g \in Generators, Check(g)
    PROVE  IInv'
<1>. DEFINE to == IF Stored("users", <<0>>) THEN "refused" ELSE "copy"
<1>1. /\ phase[g] = "check" /\ phase' = [phase EXCEPT ![g] = to]
      /\ UNCHANGED <<db, counts, at, first>> /\ open' = open
  BY DEF Check, Goto
<1>2. open[g] = {} /\ DOMAIN open = Generators
  BY <1>1 DEF IInv, Types, Local
<1>3. DOMAIN open' = Generators /\ open'[g] = {} /\ \A h \in Generators \ {g} : open'[h] = open[h]
  BY <1>1, <1>2
<1>4. to \in {"copy", "refused", "rejected", "interrupted"}
  OBVIOUS
<1>5. to = "copy" => phase[g] = "check" /\ <<0>> \notin db["users"]
  BY <1>1 DEF Stored
<1>6. Running(g)
  BY <1>1 DEF Running
<1>. HIDE DEF to
<1>. QED BY <1>1, <1>3, <1>4, <1>5, <1>6, PhaseKeeps

LEMMA InterruptKeeps ==
    ASSUME IInv, NEW g \in Generators, Interrupt(g)
    PROVE  IInv'
<1>1. /\ Running(g) /\ phase' = [phase EXCEPT ![g] = "interrupted"]
      /\ UNCHANGED <<db, counts, at, first>> /\ open' = [open EXCEPT ![g] = {}]
  BY DEF Interrupt, Goto
<1>2. DOMAIN open' = Generators /\ open'[g] = {} /\ \A h \in Generators \ {g} : open'[h] = open[h]
  BY <1>1 DEF IInv, Types
<1>. QED BY <1>1, <1>2, PhaseKeeps

\* With nothing stored, or with what the generator itself has stored, the
\* tables are as far as it is.
LEMMA FilledForIt ==
    ASSUME IInv, NEW g \in Generators, phase[g] = "copy",
           Fresh \/ Ahead(g)
    PROVE  Accepted(g) /\ FilledUpTo(counts[g], at[g], first[g])
<1>1. /\ counts[g] \in Profiles /\ at[g] \in DOMAIN COLUMNS
      /\ first[g] \in 0 .. Count(Table(g), counts[g])
  BY DEF IInv, Types, Local, Started, Running, Table
<1>2. FilledUpTo(counts[g], at[g], first[g])
  <2>1. CASE Fresh
    <3>1. at[g] = 1 /\ first[g] = 0
      BY <2>1 DEF Fresh, Ahead
    <3>2. \A i \in DOMAIN COLUMNS : db[COLUMNS[i]] = {} /\ ~ (i < 1)
      BY <2>1, Columns, Places DEF Fresh
    <3>3. Part(COLUMNS[1], counts[g], 0) = {}
      BY DEF Part
    <3>. QED BY <3>1, <3>2, <3>3 DEF FilledUpTo
  <2>2. CASE ~ Fresh
    <3>1. Ahead(g)
      BY <2>2
    <3>2. PICK p \in Profiles, a \in DOMAIN COLUMNS : \E n \in 0 .. Count(COLUMNS[a], p) :
            UnderWay(p, a, n)
      BY <2>2 DEF IInv, OneAtATime
    <3>3. PICK n \in 0 .. Count(COLUMNS[a], p) : UnderWay(p, a, n)
      BY <3>2
    <3>4. counts[g] = p /\ at[g] = a /\ first[g] = n /\ FilledUpTo(p, a, n)
      BY <3>1, <3>3 DEF UnderWay
    <3>. QED BY <3>4
  <2>. QED BY <2>1, <2>2
<1>. QED BY <1>1, <1>2, FollowingBatchAccepted

\* Who is at the very first batch beside another that has stored it, is rejected.
LEMMA LateIsRejected ==
    ASSUME IInv, NEW g \in Generators, phase[g] = "copy", ~ Ahead(g), << 0 >> \in db["users"]
    PROVE  ~ Accepted(g)
<1>1. at[g] = 1 /\ first[g] = 0 /\ counts[g] \in Profiles
  BY DEF Ahead, IInv, Types, Local, Started, Running
<1>2. 0 \in KeysOf(Table(g), BatchRows(g))
  BY <1>1, FirstBatch
<1>3. Table(g) = "users"
  BY <1>1, Columns DEF Table
<1>4. 0 \in Keys("users", <<0>>)
  BY DEF Keys
<1>5. 0 \in KeysOf("users", db["users"])
  BY <1>4 DEF KeysOf
<1>. QED BY <1>2, <1>3, <1>5 DEF Accepted

LEMMA CopyKeeps ==
    ASSUME IInv, NEW g \in Generators, Copy(g)
    PROVE  IInv'
<1>1. Types /\ OneAtATime
  BY DEF IInv
<1>2. /\ phase[g] = "copy" /\ Batch(g) # {} /\ ~ Waits(g)
      /\ UNCHANGED <<db, counts, at, first>>
  BY DEF Copy
<1>3. \A h \in Generators : Local(h)
  BY <1>1 DEF Types
<1>4. open[g] = {} /\ counts[g] \in Profiles
  BY <1>2, <1>3 DEF Local, Started, Running
<1>5. CASE ~ Accepted(g)
  <2>1. phase' = [phase EXCEPT ![g] = "rejected"] /\ open' = open
    BY <1>5 DEF Copy, Goto
  <2>2. DOMAIN open' = Generators /\ open'[g] = {} /\ \A h \in Generators \ {g} : open'[h] = open[h]
    BY <1>1, <1>4, <2>1 DEF Types
  <2>3. Running(g)
    BY <1>2 DEF Running
  <2>. QED BY <1>2, <2>1, <2>2, <2>3, PhaseKeeps
<1>6. CASE Accepted(g)
  <2>1. phase' = [phase EXCEPT ![g] = "commit"] /\ open' = [open EXCEPT ![g] = BatchRows(g)]
    BY <1>6 DEF Copy, Goto
  <2>2. \A h \in Generators \ {g} :
        /\ phase'[h] = phase[h] /\ counts'[h] = counts[h] /\ at'[h] = at[h]
        /\ first'[h] = first[h] /\ open'[h] = open[h]
    BY <1>1, <1>2, <2>1 DEF Types
  <2>3. /\ phase'[g] = "commit" /\ counts'[g] = counts[g] /\ at'[g] = at[g]
        /\ first'[g] = first[g] /\ open'[g] = BatchRows(g)
    BY <1>1, <1>2, <2>1 DEF Types
  <2>4. \A h \in Generators \ {g} : Local(h)' /\ (Ahead(h)' <=> Ahead(h))
    BY <1>3, <2>2, OthersStay
  <2>5. Batch(g)' = Batch(g) /\ BatchRows(g)' = BatchRows(g)
    BY <2>3 DEF BatchRows, Batch, Table
  <2>6. Local(g)'
    BY <1>2, <1>3, <1>4, <2>3, <2>5 DEF Local, Started, Running
  <2>7. Types'
    BY <1>1, <1>2, <2>1, <2>4, <2>6 DEF Types
  <2>8. Ahead(g)' <=> Ahead(g)
    BY <1>2, <2>3 DEF Ahead
  <2>9. CASE Fresh
    <3>1. \A h \in Generators \ {g} : phase[h] # "commit"
      <4>1. SUFFICES ASSUME NEW h \in Generators \ {g}, phase[h] = "commit" PROVE FALSE
        OBVIOUS
      <4>2. at[h] = 1 /\ first[h] = 0 /\ at[g] = 1 /\ first[g] = 0
        BY <1>2, <2>9, <4>1 DEF Fresh, Ahead
      <4>3. counts[h] \in Profiles /\ open[h] = BatchRows(h)
        BY <1>3, <4>1 DEF Local, Started, Running
      <4>4. 0 \in KeysOf(Table(h), BatchRows(h)) /\ <<0>> \in BatchRows(h)
        BY <4>2, <4>3, FirstBatch
      <4>5. 0 \in KeysOf(Table(g), BatchRows(g))
        BY <1>4, <4>2, FirstBatch
      <4>6. Table(h) = Table(g)
        BY <4>2 DEF Table
      <4>7. Waits(g)
        BY <4>2, <4>3, <4>4, <4>5, <4>6 DEF Waits
      <4>. QED BY <1>2, <4>7
    <3>2. Fresh'
      BY <1>2, <2>2, <2>3, <2>4, <2>8, <2>9, <3>1 DEF Fresh
    <3>. QED BY <2>7, <3>2 DEF IInv, OneAtATime
  <2>10. ASSUME NEW p \in Profiles, NEW a \in DOMAIN COLUMNS, NEW n \in 0 .. Count(COLUMNS[a], p),
                UnderWay(p, a, n)
         PROVE  IInv'
    <3>1. Ahead(g)
      BY <1>2, <1>6, <2>10, LateIsRejected DEF UnderWay
    <3>2. FilledUpTo(p, a, n)'
      BY <1>2, <2>10 DEF UnderWay, FilledUpTo
    <3>3. UnderWay(p, a, n)'
      BY <1>2, <2>2, <2>3, <2>4, <2>8, <2>10, <3>1, <3>2 DEF UnderWay
    <3>. QED BY <2>7, <3>3 DEF IInv, OneAtATime
  <2>. QED BY <1>1, <2>9, <2>10 DEF OneAtATime
<1>. QED BY <1>5, <1>6

LEMMA CommitKeeps ==
    ASSUME IInv, NEW g \in Generators, Commit(g)
    PROVE  IInv'
<1>. DEFINE p == counts[g]
<1>. DEFINE a == at[g]
<1>. DEFINE n == first[g] + Cardinality(Batch(g))
<1>1. Types /\ OneAtATime
  BY DEF IInv
<1>2. /\ phase[g] = "commit" /\ phase' = [phase EXCEPT ![g] = "copy"]
      /\ db' = [db EXCEPT ![Table(g)] = @ \cup open[g]]
      /\ open' = [open EXCEPT ![g] = {}]
      /\ first' = [first EXCEPT ![g] = n]
      /\ UNCHANGED <<counts, at>>
  BY DEF Commit, Goto
<1>3. \A h \in Generators : Local(h)
  BY <1>1 DEF Types
<1>4. /\ p \in Profiles /\ a \in DOMAIN COLUMNS
      /\ first[g] \in 0 .. Count(Table(g), p) /\ open[g] = BatchRows(g) /\ Batch(g) # {}
  BY <1>1, <1>2, <1>3 DEF Types, Local, Started, Running, Table
<1>5. /\ n \in 0 .. Count(Table(g), p) /\ n > 0
      /\ Part(Table(g), p, first[g]) \cup BatchRows(g) = Part(Table(g), p, n)
  BY <1>4, BatchContinues
<1>6. Table(g) = COLUMNS[a] /\ Table(g) \in Tables /\ Count(Table(g), p) \in Nat
  BY <1>4, Places, Counts DEF Table
<1>7. \A h \in Generators \ {g} :
        /\ phase'[h] = phase[h] /\ counts'[h] = counts[h] /\ at'[h] = at[h]
        /\ first'[h] = first[h] /\ open'[h] = open[h]
  BY <1>1, <1>2 DEF Types
<1>8. /\ phase'[g] = "copy" /\ counts'[g] = p /\ at'[g] = a /\ first'[g] = n /\ open'[g] = {}
  BY <1>1, <1>2 DEF Types
<1>9. \A h \in Generators \ {g} : Local(h)' /\ (Ahead(h)' <=> Ahead(h))
  BY <1>3, <1>7, OthersStay
<1>. HIDE DEF n
<1>10. Local(g)'
  BY <1>4, <1>5, <1>6, <1>8 DEF Local, Started, Running
<1>11. Types'
  <2>1. n \in Nat
    BY <1>5, <1>6
  <2>. QED BY <1>1, <1>2, <1>9, <1>10, <2>1 DEF Types
<1>12. Ahead(g)'
  BY <1>5, <1>6, <1>8 DEF Ahead
<1>13. Fresh \/ Ahead(g)
  BY <1>1, <1>2 DEF OneAtATime, UnderWay
<1>14. /\ \A h \in Generators \ {g} : ~ Ahead(h) /\ phase[h] # "commit"
       /\ FilledUpTo(p, a, first[g])
       /\ \A h \in Generators : phase[h] = "done" =>
            counts[h] = p /\ a = Len(COLUMNS) /\ first[g] = Count(COLUMNS[a], p)
  <2>1. CASE Fresh
    <3>1. a = 1 /\ first[g] = 0
      BY <1>2, <2>1 DEF Fresh, Ahead
    <3>2. \A i \in DOMAIN COLUMNS : db[COLUMNS[i]] = {} /\ ~ (i < 1)
      BY <2>1, Columns, Places DEF Fresh
    <3>3. Part(COLUMNS[1], p, 0) = {}
      BY DEF Part
    <3>4. FilledUpTo(p, a, first[g])
      BY <3>1, <3>2, <3>3 DEF FilledUpTo
    <3>. QED BY <1>2, <2>1, <3>4 DEF Fresh
  <2>2. ASSUME NEW q \in Profiles, NEW b \in DOMAIN COLUMNS, NEW m \in 0 .. Count(COLUMNS[b], q),
               UnderWay(q, b, m)
        PROVE  /\ \A h \in Generators \ {g} : ~ Ahead(h) /\ phase[h] # "commit"
               /\ FilledUpTo(p, a, first[g])
               /\ \A h \in Generators : phase[h] = "done" =>
                    counts[h] = p /\ a = Len(COLUMNS) /\ first[g] = Count(COLUMNS[a], p)
    <3>1. Ahead(g) /\ p = q /\ a = b /\ first[g] = m
      BY <1>2, <2>2 DEF UnderWay
    <3>. QED BY <2>2, <3>1 DEF UnderWay
  <2>. QED BY <1>1, <2>1, <2>2 DEF OneAtATime
<1>15. \A h \in Generators : phase[h] # "done"
  <2>1. first[g] # Count(Table(g), p)
    BY <1>4, NothingLeft
  <2>. QED BY <1>6, <1>14, <2>1
<1>. HIDE DEF p, a
<1>16. PICK q \in Profiles, b \in DOMAIN COLUMNS, m \in Nat : q = p /\ b = a /\ m = n
  BY <1>4, <1>5, <1>6
<1>17. FilledUpTo(q, b, m)'
  <2>1. ~ (a < a) /\ a \in DOMAIN COLUMNS
    BY <1>4, Columns
  <2>2. db[COLUMNS[a]] = Part(COLUMNS[a], p, first[g])
    BY <1>14, <2>1 DEF FilledUpTo
  <2>3. db'[COLUMNS[a]] = Part(COLUMNS[a], p, n)
    BY <1>1, <1>2, <1>4, <1>5, <1>6, <2>2 DEF Types
  <2>4. \A i \in DOMAIN COLUMNS : i # a => db'[COLUMNS[i]] = db[COLUMNS[i]]
    BY <1>1, <1>2, <1>4, <1>6, Places DEF Types
  <2>5. \A i \in DOMAIN COLUMNS :
            db'[COLUMNS[i]] = IF i < a THEN Rows(COLUMNS[i], p)
                              ELSE IF i = a THEN Part(COLUMNS[i], p, n) ELSE {}
    BY <1>14, <2>1, <2>3, <2>4 DEF FilledUpTo
  <2>. QED BY <1>16, <2>5 DEF FilledUpTo
<1>18. <<0>> \in db'["users"]
  <2>1. "users" \in Tables /\ db'["users"] = IF Table(g) = "users" THEN db["users"] \cup open[g]
                                                                   ELSE db["users"]
    BY <1>1, <1>2, Columns DEF Types
  <2>2. CASE <<0>> \in db["users"]
    BY <2>1, <2>2
  <2>3. CASE <<0>> \notin db["users"]
    <3>1. Fresh
      BY <1>1, <2>3 DEF OneAtATime, UnderWay
    <3>2. at[g] = 1 /\ first[g] = 0
      BY <1>2, <3>1 DEF Fresh, Ahead
    <3>3. <<0>> \in open[g] /\ Table(g) = "users"
      BY <1>4, <3>2, FirstBatch, Columns DEF Table, p
    <3>. QED BY <2>1, <3>3
  <2>. QED BY <2>2, <2>3
<1>19. UnderWay(q, b, m)'
  BY <1>7, <1>8, <1>9, <1>12, <1>14, <1>15, <1>16, <1>17, <1>18 DEF UnderWay
<1>20. m \in 0 .. Count(COLUMNS[b], q)
  BY <1>5, <1>6, <1>16
<1>. QED BY <1>11, <1>19, <1>20 DEF IInv, OneAtATime

LEMMA NextTableKeeps ==
    ASSUME IInv, NEW g \in Generators, NextTable(g)
    PROVE  IInv'
<1>1. Types /\ OneAtATime
  BY DEF IInv
<1>2. phase[g] = "copy" /\ Batch(g) = {} /\ UNCHANGED <<db, counts, open>>
  BY DEF NextTable
<1>3. \A h \in Generators : Local(h)
  BY <1>1 DEF Types
<1>4. /\ counts[g] \in Profiles /\ at[g] \in DOMAIN COLUMNS
      /\ first[g] \in 0 .. Count(Table(g), counts[g]) /\ open[g] = {}
  BY <1>1, <1>2, <1>3 DEF Types, Local, Started, Running, Table
<1>5. first[g] = Count(Table(g), counts[g]) /\ Table(g) = COLUMNS[at[g]]
  BY <1>2, <1>4, NothingLeft DEF Table
<1>6. Ahead(g)
  BY <1>2, <1>4, FirstBatch DEF Ahead
<1>7. PICK p \in Profiles, a \in DOMAIN COLUMNS : \E n \in 0 .. Count(COLUMNS[a], p) :
        UnderWay(p, a, n)
  BY <1>1, <1>6 DEF OneAtATime, Fresh
<1>8. PICK n \in 0 .. Count(COLUMNS[a], p) : UnderWay(p, a, n)
  BY <1>7
<1>9. /\ counts[g] = p /\ at[g] = a /\ first[g] = n /\ n = Count(COLUMNS[a], p)
      /\ \A h \in Generators \ {g} : ~ Ahead(h) /\ phase[h] # "commit"
  BY <1>5, <1>6, <1>8 DEF UnderWay
<1>10. Part(COLUMNS[a], p, n) = Rows(COLUMNS[a], p)
  BY <1>9 DEF Part, Rows
<1>11. a \in 1 .. 7 /\ Len(COLUMNS) = 7 /\ DOMAIN COLUMNS = 1 .. 7
  BY Columns
<1>12. CASE a = Len(COLUMNS)
  <2>1. phase' = [phase EXCEPT ![g] = "done"] /\ at' = at /\ first' = first
    BY <1>9, <1>12 DEF NextTable, Goto
  <2>2. \A h \in Generators \ {g} :
        /\ phase'[h] = phase[h] /\ counts'[h] = counts[h] /\ at'[h] = at[h]
        /\ first'[h] = first[h] /\ open'[h] = open[h]
    BY <1>1, <1>2, <2>1 DEF Types
  <2>3. phase'[g] = "done"
    BY <1>1, <2>1 DEF Types
  <2>4. \A h \in Generators \ {g} : Local(h)' /\ (Ahead(h)' <=> Ahead(h))
    BY <1>3, <2>2, OthersStay
  <2>5. Local(g)' /\ ~ Ahead(g)'
    BY <1>2, <1>4, <1>5, <2>1, <2>3 DEF Local, Ahead, Started, Running
  <2>6. Types'
    BY <1>1, <1>2, <2>1, <2>4, <2>5 DEF Types
  <2>7. FilledUpTo(p, a, n)'
    BY <1>2, <1>8 DEF FilledUpTo, UnderWay
  <2>8. UnderWay(p, a, n)'
    BY <1>2, <1>8, <1>9, <1>12, <2>1, <2>2, <2>3, <2>4, <2>5, <2>7 DEF UnderWay
  <2>. QED BY <2>6, <2>8 DEF IInv, OneAtATime
<1>13. CASE a # Len(COLUMNS)
  <2>1. /\ phase' = phase /\ at' = [at EXCEPT ![g] = a + 1] /\ first' = [first EXCEPT ![g] = 0]
    BY <1>9, <1>13 DEF NextTable
  <2>2. \A h \in Generators \ {g} :
        /\ phase'[h] = phase[h] /\ counts'[h] = counts[h] /\ at'[h] = at[h]
        /\ first'[h] = first[h] /\ open'[h] = open[h]
    BY <1>1, <1>2, <2>1 DEF Types
  <2>3. phase'[g] = "copy" /\ counts'[g] = p /\ at'[g] = a + 1 /\ first'[g] = 0 /\ open'[g] = {}
    BY <1>1, <1>2, <1>4, <1>9, <2>1 DEF Types
  <2>4. \A h \in Generators \ {g} : Local(h)' /\ (Ahead(h)' <=> Ahead(h))
    BY <1>3, <2>2, OthersStay
  <2>5. a + 1 \in DOMAIN COLUMNS /\ a + 1 # 1
    BY <1>11, <1>13
  <2>6. 0 \in 0 .. Count(COLUMNS[a + 1], p)
    BY <2>5, Counts, Places
  <2>7. Local(g)' /\ Ahead(g)'
    BY <2>3, <2>5, <2>6 DEF Local, Ahead, Started, Running
  <2>8. Types'
    BY <1>1, <1>2, <2>1, <2>4, <2>5, <2>7 DEF Types
  <2>9. \A h \in Generators : phase[h] # "done"
    BY <1>8, <1>13 DEF UnderWay
  <2>10. FilledUpTo(p, a + 1, 0)'
    <3>1. \A i \in DOMAIN COLUMNS :
            db[COLUMNS[i]] = IF i < a THEN Rows(COLUMNS[i], p)
                             ELSE IF i = a THEN Part(COLUMNS[i], p, n) ELSE {}
      BY <1>8 DEF UnderWay, FilledUpTo
    <3>2. Part(COLUMNS[a + 1], p, 0) = {}
      BY DEF Part
    <3>3. \A i \in DOMAIN COLUMNS : /\ i < a + 1 <=> i < a \/ i = a
                                    /\ i = a + 1 => ~ (i < a) /\ i # a
      BY <1>11
    <3>4. \A i \in DOMAIN COLUMNS :
            db[COLUMNS[i]] = IF i < a + 1 THEN Rows(COLUMNS[i], p)
                             ELSE IF i = a + 1 THEN Part(COLUMNS[i], p, 0) ELSE {}
      <4>1. TAKE i \in DOMAIN COLUMNS
      <4>2. ~ (a < a)
        BY <1>11
      <4>. QED BY <1>10, <3>1, <3>2, <3>3, <4>2
    <3>. QED BY <1>2, <3>4 DEF FilledUpTo
  <2>11. UnderWay(p, a + 1, 0)'
    BY <1>2, <1>8, <1>9, <2>1, <2>2, <2>3, <2>4, <2>7, <2>9, <2>10 DEF UnderWay
  <2>. QED BY <2>5, <2>6, <2>8, <2>11 DEF IInv, OneAtATime
<1>. QED BY <1>12, <1>13

LEMMA NextInvariant == IInv /\ [Next]_vars => IInv'
<1>. SUFFICES ASSUME IInv, [Next]_vars PROVE IInv'
  OBVIOUS
<1>1. CASE UNCHANGED vars
  <2>1. UNCHANGED <<db, phase, counts, at, first, open>>
    BY <1>1 DEF vars
  <2>2. Types'
    BY <2>1 DEF IInv, Types, Local, Started, Running, Batch, BatchRows, Table
  <2>3. Fresh => Fresh'
    BY <2>1 DEF Fresh, Ahead
  <2>4. \A p \in Profiles, a \in DOMAIN COLUMNS : \A n \in 0 .. Count(COLUMNS[a], p) :
            UnderWay(p, a, n) => UnderWay(p, a, n)'
    BY <2>1 DEF UnderWay, FilledUpTo, Ahead
  <2>. QED BY <2>2, <2>3, <2>4 DEF IInv, OneAtATime
<1>2. ASSUME NEW g \in Generators, Begin(g) PROVE IInv'
  BY <1>2, BeginKeeps
<1>3. ASSUME NEW g \in Generators, Check(g) PROVE IInv'
  BY <1>3, CheckKeeps
<1>4. ASSUME NEW g \in Generators, Copy(g) PROVE IInv'
  BY <1>4, CopyKeeps
<1>5. ASSUME NEW g \in Generators, Commit(g) PROVE IInv'
  BY <1>5, CommitKeeps
<1>6. ASSUME NEW g \in Generators, NextTable(g) PROVE IInv'
  BY <1>6, NextTableKeeps
<1>7. ASSUME NEW g \in Generators, Interrupt(g) PROVE IInv'
  BY <1>7, InterruptKeeps
<1>. QED BY <1>1, <1>2, <1>3, <1>4, <1>5, <1>6, <1>7 DEF Next

LEMMA Invariant == Spec => []IInv
<1>. QED BY InitInvariant, NextInvariant, PTL DEF Spec

-----------------------------------------------------------------------------
\* Every variable has its type; only an open transaction has rows.
THEOREM TypeCorrect == Spec => []TypeOK
<1>1. IInv => TypeOK
  <2>1. SUFFICES ASSUME IInv PROVE TypeOK
    OBVIOUS
  <2>2. \A g \in Generators : Local(g) /\ counts[g] \in Profiles \cup {None}
    BY <2>1 DEF IInv, Types
  <2>3. \A g \in Generators :
            /\ counts[g] # None => first[g] \in 0 .. Count(COLUMNS[at[g]], counts[g])
            /\ open[g] # {} => phase[g] = "commit"
    BY <2>2 DEF Local
  <2>. QED BY <2>1, <2>3 DEF IInv, Types, TypeOK
<1>. QED BY <1>1, Invariant, PTL

\* The first rows of a table are rows of it.
LEMMA PartOfRows ==
    ASSUME NEW p \in Profiles, NEW table \in Tables, NEW n \in 0 .. Count(table, p)
    PROVE  Part(table, p, n) \subseteq Rows(table, p)
<1>1. Count(table, p) \in Nat
  BY Counts
<1>2. 0 .. n - 1 \subseteq 0 .. Count(table, p) - 1
  BY <1>1
<1>. QED BY <1>2 DEF Part, Rows

\* dataset_rows: the rows of two profiles never mix, whoever is interrupted and
\* whoever runs at the same time.
THEOREM OneLoadOnly == Spec => []LoadedByOne
<1>1. IInv => LoadedByOne
  <2>1. SUFFICES ASSUME IInv PROVE LoadedByOne
    OBVIOUS
  <2>2. CASE Fresh
    BY <2>2, SomeProfile DEF Fresh, LoadedByOne
  <2>3. ASSUME NEW p \in Profiles, NEW a \in DOMAIN COLUMNS, NEW n \in 0 .. Count(COLUMNS[a], p),
               UnderWay(p, a, n)
        PROVE  LoadedByOne
    <3>1. SUFFICES ASSUME NEW i \in DOMAIN COLUMNS PROVE db[COLUMNS[i]] \subseteq Rows(COLUMNS[i], p)
      BY Places DEF LoadedByOne
    <3>2. Part(COLUMNS[a], p, n) \subseteq Rows(COLUMNS[a], p)
      BY Places, PartOfRows
    <3>. QED BY <2>3, <3>2 DEF UnderWay, FilledUpTo
  <2>. QED BY <2>1, <2>2, <2>3 DEF IInv, OneAtATime
<1>. QED BY <1>1, Invariant, PTL

LEMMA DoneIsComplete ==
    ASSUME IInv, NEW g \in Generators, phase[g] = "done"
    PROVE  /\ counts[g] \in Profiles
           /\ \A table \in Tables : db[table] = Rows(table, counts[g])
<1>1. counts[g] \in Profiles
  BY DEF IInv, Types, Local, Started
<1>2. PICK p \in Profiles, a \in DOMAIN COLUMNS : \E n \in 0 .. Count(COLUMNS[a], p) :
        UnderWay(p, a, n)
  BY DEF IInv, OneAtATime, Fresh
<1>3. PICK n \in 0 .. Count(COLUMNS[a], p) : UnderWay(p, a, n)
  BY <1>2
<1>4. counts[g] = p /\ a = 7 /\ n = Count(COLUMNS[a], p)
  BY <1>3, Columns DEF UnderWay
<1>5. Part(COLUMNS[a], p, n) = Rows(COLUMNS[a], p)
  BY <1>4 DEF Part, Rows
<1>6. \A i \in DOMAIN COLUMNS : i < 7 \/ i = 7
  BY Columns
<1>7. \A i \in DOMAIN COLUMNS : db[COLUMNS[i]] = Rows(COLUMNS[i], p)
  BY <1>3, <1>4, <1>5, <1>6 DEF UnderWay, FilledUpTo
<1>. QED BY <1>1, <1>4, <1>7, Places

\* generate: a generator that reports success has stored every row.
THEOREM SuccessMeansAll == Spec => []SuccessIsComplete
<1>1. IInv => SuccessIsComplete
  BY DoneIsComplete DEF SuccessIsComplete
<1>. QED BY <1>1, Invariant, PTL

\* dataset_rows, project_employees: no terminated employee is assigned, only
\* active ones and those on leave, each to a project of its company that is active
\* or completed; the account that assigns is an owner of the company.
THEOREM SoundAssignments == Spec => []AssignmentsAreSound
<1>1. IInv => AssignmentsAreSound
  <2>1. SUFFICES ASSUME IInv, NEW r \in db["project_employees"]
                 PROVE  /\ \E e \in db["employees"] :
                            e[1] = r[3] /\ e[2] = r[1] /\ e[3] \in {"active", "leave"}
                        /\ \E q \in db["projects"] :
                            q[1] = r[2] /\ q[2] = r[1] /\ q[3] \in {"active", "completed"}
                        /\ <<r[1], r[4], "owner">> \in db["company_access"]
    BY DEF AssignmentsAreSound
  <2>2. PICK p \in Profiles, a \in DOMAIN COLUMNS : \E n \in 0 .. Count(COLUMNS[a], p) :
            UnderWay(p, a, n)
    BY <2>1, Columns DEF IInv, OneAtATime, Fresh
  <2>3. PICK n \in 0 .. Count(COLUMNS[a], p) : UnderWay(p, a, n)
    BY <2>2
  <2>4. \A i \in DOMAIN COLUMNS :
            db[COLUMNS[i]] = IF i < a THEN Rows(COLUMNS[i], p)
                             ELSE IF i = a THEN Part(COLUMNS[i], p, n) ELSE {}
    BY <2>3 DEF UnderWay, FilledUpTo
  <2>5. a \in 1 .. 7 /\ a >= 6
    <3>1. 6 < a \/ 6 = a
      BY <2>1, <2>4, Columns
    <3>. QED BY <3>1, Columns
  <2>6. /\ db["company_access"] = Rows("company_access", p)
        /\ db["employees"] = Rows("employees", p) /\ db["projects"] = Rows("projects", p)
    BY <2>4, <2>5, Columns
  <2>7. PICK i \in 0 .. p.assignments - 1 : r = AssignmentRow(i, p)
    <3>1. db["project_employees"] = Rows("project_employees", p)
          \/ db["project_employees"] = Part("project_employees", p, n)
      BY <2>4, <2>5, Columns
    <3>2. n \in 0 .. Count("project_employees", p) \/ 6 < a
      BY <2>5, Columns
    <3>3. db["project_employees"] \subseteq Rows("project_employees", p)
      BY <2>4, <2>5, <3>1, <3>2, PartOfRows, Columns
    <3>4. Rows("project_employees", p) = {AssignmentRow(i, p) : i \in 0 .. p.assignments - 1}
      BY DEF Rows, Row, Count
    <3>. QED BY <2>1, <3>3, <3>4
  <2>8. /\ i \in Nat /\ p.companies \in Nat \ {0} /\ p.users \in Nat \ {0}
        /\ p.employees \in Nat \ {0} /\ p.access \in Nat \ {0}
    BY Counts
  <2>. DEFINE company == EmployeeCompany(Assignee(i, p), p)
  <2>9. /\ r[1] = company /\ r[3] = Assignee(i, p) /\ r[4] = (company * 5) % p.users
    BY <2>7 DEF AssignmentRow
  <2>10. Assignee(i, p) \in 0 .. p.employees - 1 /\ Status(Assignee(i, p)) \in {"active", "leave"}
    <3>1. Assignee(i, p) \in 0 .. p.employees - 1 /\ Status(Assignee(i, p)) # "terminated"
      BY <2>8, AssigneesArePresent
    <3>2. Status(Assignee(i, p)) \in {"active", "leave", "terminated"}
      BY DEF Status
    <3>. QED BY <3>1, <3>2
  <2>11. \E e \in db["employees"] : e[1] = r[3] /\ e[2] = r[1] /\ e[3] \in {"active", "leave"}
    <3>. DEFINE e == Row("employees", Assignee(i, p), p)
    <3>1. e[1] = Assignee(i, p) /\ e[2] = company /\ e[3] = Status(Assignee(i, p))
      BY DEF Row
    <3>2. e \in Rows("employees", p)
      BY <2>10 DEF Rows, Count
    <3>. HIDE DEF e
    <3>. QED BY <2>6, <2>9, <2>10, <3>1, <3>2
  <2>12. company \in 0 .. p.companies - 1 /\ company \in Nat
    BY <2>8, <2>10, EmployeesHaveCompanies
  <2>13. <<company, (company * 5) % p.users, "owner">> \in Rows("company_access", p)
    <3>. HIDE DEF company
    <3>1. p.access >= 5 * p.companies
      BY ProfilesFit DEF Fits
    <3>2. company \in 0 .. p.access - 1
      BY <2>8, <2>12, <3>1
    <3>3. company % p.companies = company /\ company \div p.companies = 0
      <4>1. (0 * p.companies + company) % p.companies = company
            /\ (0 * p.companies + company) \div p.companies = 0
        BY <2>8, <2>12, DividedOnce
      <4>. QED BY <2>8, <2>12, <4>1
    <3>4. company * 5 + 0 = company * 5
      BY <2>12
    <3>5. AccessRow(company, p) = <<company, (company * 5) % p.users, "owner">>
      BY <3>3, <3>4 DEF AccessRow
    <3>6. Row("company_access", company, p) = AccessRow(company, p)
      BY DEF Row
    <3>. QED BY <3>2, <3>5, <3>6 DEF Rows, Count
  <2>14. \E q \in db["projects"] :
            q[1] = r[2] /\ q[2] = r[1] /\ q[3] \in {"active", "completed"}
    BY <2>6, <2>7, ProjectOfAssignment
  <2>. QED BY <2>6, <2>9, <2>11, <2>13, <2>14
<1>. QED BY <1>1, Invariant, PTL

\* session_pool: the session of every entry is that of its user, who has access
\* to its company.
THEOREM UsablePool == Spec => []PoolIsUsable
<1>1. IInv => PoolIsUsable
  <2>1. SUFFICES ASSUME IInv, NEW g \in Generators, phase[g] = "done",
                        NEW entry \in SessionPool(counts[g])
                 PROVE  /\ <<entry.session, entry.user>> \in db["auth_sessions"]
                        /\ \E r \in db["company_access"] :
                                r[1] = entry.company /\ r[2] = entry.user
    BY DEF PoolIsUsable
  <2>. DEFINE p == counts[g]
  <2>2. /\ p \in Profiles /\ db["auth_sessions"] = Rows("auth_sessions", p)
        /\ db["company_access"] = Rows("company_access", p)
    BY <2>1, DoneIsComplete, Columns
  <2>3. /\ p.users \in Nat \ {0} /\ p.companies \in Nat \ {0} /\ p.access \in Nat \ {0}
        /\ p.sessions \in Nat
    BY <2>2, Counts
  <2>4. p.access >= 5 * p.companies /\ p.sessions <= p.users
    BY <2>2, ProfilesFit DEF Fits
  <2>5. PICK i \in 0 .. p.sessions - 1 :
            /\ i < p.companies * 5
            /\ entry.user = i /\ entry.session = i /\ entry.company = i \div 5
    BY <2>1 DEF SessionPool
  <2>. HIDE DEF p
  <2>6. <<i, i>> \in Rows("auth_sessions", p)
    BY <2>5 DEF Rows, Row, Count
  <2>. DEFINE company == i \div 5
  <2>. DEFINE slot == i % 5
  <2>. DEFINE k == slot * p.companies + company
  <2>7. /\ i \in Nat /\ i < p.users /\ company \in Nat /\ slot \in 0 .. 4 /\ company < p.companies
        /\ i = company * 5 + slot
    BY <2>3, <2>4, <2>5
  <2>. HIDE DEF company, slot
  <2>8. k % p.companies = company /\ k \div p.companies = slot
    <3>1. company \in 0 .. p.companies - 1 /\ slot \in Nat
      BY <2>3, <2>7
    <3>2. /\ (slot * p.companies + company) % p.companies = company
          /\ (slot * p.companies + company) \div p.companies = slot
      BY <2>3, <3>1, DividedOnce
    <3>. QED BY <3>2
  <2>9. k \in 0 .. p.access - 1
    <3>1. slot = 0 \/ slot = 1 \/ slot = 2 \/ slot = 3 \/ slot = 4
      BY <2>7
    <3>2. slot * p.companies \in Nat /\ slot * p.companies + p.companies <= 5 * p.companies
      BY <2>3, <3>1
    <3>. DEFINE before == slot * p.companies
    <3>3. before \in Nat /\ before + p.companies <= 5 * p.companies /\ k = before + company
      BY <3>2
    <3>. HIDE DEF before, k
    <3>. QED BY <2>3, <2>4, <2>7, <3>3
  <2>. HIDE DEF k
  <2>10. (company * 5 + slot) % p.users = i
    <3>1. i \in 0 .. p.users - 1 /\ 0 \in Nat
      BY <2>3, <2>7
    <3>2. (0 * p.users + i) % p.users = i
      BY <2>3, <3>1, DividedOnce
    <3>. QED BY <2>3, <2>7, <3>2
  <2>11. AccessRow(k, p)[1] = company /\ AccessRow(k, p)[2] = i
    BY <2>8, <2>10 DEF AccessRow
  <2>12. AccessRow(k, p) \in Rows("company_access", p)
    BY <2>9 DEF Rows, Row, Count
  <2>. QED BY <2>2, <2>5, <2>6, <2>11, <2>12 DEF company
<1>. QED BY <1>1, Invariant, PTL

\* copy_table: a row is rejected only in the first batch of users, beside a
\* generator that has stored its own; the formulas never collide with a key.
THEOREM RejectedByAnother == Spec => RejectedOnlyByAnother
<1>. DEFINE A == \A g \in Generators : phase'[g] = "rejected" /\ phase[g] # "rejected" =>
                    /\ at[g] = 1 /\ first[g] = 0
                    /\ Stored("users", <<0>>)
<1>1. IInv /\ [Next]_vars => [A]_vars
  <2>1. SUFFICES ASSUME IInv, Next, NEW g \in Generators,
                        phase'[g] = "rejected", phase[g] # "rejected"
                 PROVE  at[g] = 1 /\ first[g] = 0 /\ Stored("users", <<0>>)
    OBVIOUS
  <2>2. PICK h \in Generators : Begin(h) \/ Check(h) \/ Copy(h) \/ Commit(h) \/ NextTable(h)
                                \/ Interrupt(h)
    BY <2>1 DEF Next
  <2>3. phase \in [Generators -> {"idle", "check", "copy", "commit",
                                  "done", "refused", "rejected", "interrupted"}]
    BY <2>1 DEF IInv, Types
  <2>4. h = g /\ Copy(g) /\ phase[g] = "copy" /\ ~ Accepted(g)
    <3>1. CASE Begin(h)
      BY <2>1, <2>3, <3>1 DEF Begin, Goto
    <3>2. CASE Check(h)
      BY <2>1, <2>3, <3>2 DEF Check, Goto
    <3>3. CASE Copy(h)
      BY <2>1, <2>3, <3>3 DEF Copy, Goto
    <3>4. CASE Commit(h)
      BY <2>1, <2>3, <3>4 DEF Commit, Goto
    <3>5. CASE NextTable(h)
      BY <2>1, <2>3, <3>5 DEF NextTable, Goto
    <3>6. CASE Interrupt(h)
      BY <2>1, <2>3, <3>6 DEF Interrupt, Goto
    <3>. QED BY <2>2, <3>1, <3>2, <3>3, <3>4, <3>5, <3>6
  <2>5. ~ Fresh /\ ~ Ahead(g)
    BY <2>1, <2>4, FilledForIt
  <2>6. <<0>> \in db["users"]
    BY <2>1, <2>5 DEF IInv, OneAtATime, UnderWay
  <2>. QED BY <2>4, <2>5, <2>6 DEF Ahead, Stored
<1>. QED BY <1>1, Invariant, PTL DEF Spec, RejectedOnlyByAnother

=============================================================================
