# TLA+ models of the companies, users and projects backend

The repository is a FastAPI service over PostgreSQL (and Redis, for rate
limits). Everything that is worth getting right happens in database
transactions: requests and account scripts run statement by statement beside
each other at the READ COMMITTED level, and the services serialize what must not
interleave with `SELECT ... FOR UPDATE`. The modules here describe those
transactions, say what they promise, check it with TLC on small instances and,
where it is within reach, prove it with TLAPS for instances of any size.

## The parts of the system

| Part | State | Operations | What makes it correct |
|---|---|---|---|
| Companies and access (`app/companies`) | `companies`, `company_access`, versions | create, update, delete, grant, change, revoke, transfer, two listings | each company has exactly one owner, whose account is active; nobody acts with a role that is gone; a versioned write replaces the version its client named |
| Sessions (`app/auth`) | `auth_sessions`, `users.password_hash` | login, logout, authentication | no session of an old password or of an inactive account survives; a rehash never undoes a reset |
| Account scripts (`app/auth/accounts.py`, `scripts/`) | `users` | provision, reset a password, activate, deactivate | owners are not deactivated; what a script revokes stays revoked |
| Session retention (`scripts/cleanup_sessions.py`) | `auth_sessions` | delete dead sessions, batch by batch | it deletes nothing that can be used, and it ends |
| Employees (`app/employees`) | `employees` | create, PATCH, delete | a row is valid after every PATCH; the terminated have no assignments; work emails are unique in a company |
| Projects and assignments (`app/projects`) | `projects`, `project_employees` | create, PATCH, delete, assign, unassign | finished projects stay finished and take nobody on; an assignment names rows of its own company; one of two equal requests answers 201 |
| Listings (`app/utils/pagination.py`, `cursor.py`) | none; a cursor is a signed position | first and next page | a client that follows the cursors sees the rows in order, none twice, and misses none that stays |
| Unit of work, engine, pool (`app/infrastructure`) | the transaction, its locks, pooled connections | commit, rollback, timeouts | errors leave nothing; no wait lasts for ever |
| Passwords (`app/auth/passwords.py`) | threads for argon2 | hash, verify | two at a time, in order |
| Rate limits (`app/infrastructure/rate_limit.py`) | counters in Redis | check | bounded hits, refusals only for one's own use, and nothing is served uncounted |
| Demo seed (`scripts/seed_demo.py`) | the tables above | one transaction of upserts | the rules of the use cases survive it, and it ends |
| Load data (`scripts/generate_load_data.py`, `load_dataset.py`) | the tables above | check, batches, credentials | its formulas fit the keys; success means complete |
| Request pipeline (`app/handlers`) | none | authenticate, CSRF, errors, headers | |
| Other tools (`scripts/`), migrations, deployment | | | |

### How the parts meet

- Every API request first looks its session up. That lookup is a transaction
  of its own, which is rolled back before the use case begins.
- Every write to a company, its access rows, its employees, its projects or
  its assignments begins with `authorize(write=True)`: it locks the company's
  row and then reads the actor's role again. The company's lock is what
  serializes the companies component and the two below it.
- The account row (`users`) is where the companies component, login and the
  account scripts meet: whoever makes an owner, a session or an inactive account
  locks it. It is locked after companies.
- Deletions cascade in the database, from companies to everything and from
  employees and projects to assignments.
- Listings take no lock at all.
- Before its use case a request passes the rate limits, whose counters all
  replicas share in Redis; within a process, requests share the pool's
  connections and the threads that hash passwords.
- The demo seed and the load generator write to the tables directly. The seed
  locks accounts before companies, against the order of everybody else, and
  it has fixed ids but shares the logins with accounts that are provisioned.

### What is hard

Statements that wait for a lock and then go on with what they read before the
wait; checks that are made several statements before the write they are for;
writes whose row counts nobody looks at; a login that gives its transaction up
in the middle; rows that become visible in another order than their timestamps
have; batches beside the transactions that change them; resources that a task
holds while it waits for others; counters that approximate what they promise;
formulas that must agree with each other and with the database's keys; loops and
waits that must end. `PROJECT.json` lists each of these hazards at its line with the
properties that would catch it going wrong.

## The modules

### Vocabulary

`RowLocks` is the row lock of PostgreSQL: a function from rows to holders, with
`Granted`, `Take` and `Release`. `CompanyRequests` and `WorkforceRequests` hold
what clients can ask and the rules on data; a detailed specification and its
abstract one share them.

### One shape for the transactional modules

In `CompanyAccess`, `Sessions` and `Workforce` a set `Procs` of processes serve
requests. `req[p]` is the request, `step[p]` names the statement that comes
next, and each statement is one action: a plain SELECT reads the committed
tables, `FOR UPDATE` waits for its row's lock and then reads the newest
version. Nobody sees what a transaction has written before it commits, and no
statement waits between the first write and the COMMIT, so the writes and the
COMMIT are one action (`Commit...`). `Finish` ends the transaction and frees its
locks; `Refuse` is an error raised by the use case, with the rollback of
`SqlAlchemyUnitOfWork.__aexit__`. `Abort` can roll back at any statement: a
`statement_timeout`, a lost connection, a killed process. Nothing in memory
outlives a request, so a crash of the server is the abort of its requests.

Where a constraint of the database could refuse a write, the `Commit` action
says so with the answer "conflict" (or "email"), and it does so from the tables,
not from what the use case believes. That such answers are never given is
then a property of the code's checks.

### CompanyAccess

| Here | There |
|---|---|
| `live`, `version`, `role` | `companies`, `companies.version`, `company_access.role` |
| `active` | `users.is_active` |
| `Find`, `LockCompany`, `Authorize` | `CompanyRepository.accessible(lock=True)`: the snapshot with its EXISTS, the lock, the access row read again |
| `LockPrevious`, `LockTarget`, `LockUser`, `Check` | the further statements of the use cases |
| `FindOwned`, `LockOwned` | `set_account_status`: owned companies, locked in order of id |
| `CommitCreate` ... `CommitStatus` | the writes of each use case |

`CompanyAccessAtomic` is the promise: each request happens in one step, with
the role its actor has in that step, or not at all. `CompanyAccess` implements
it (`ImplementsAtomic`) with the tables, `req` and `reply` mapped to themselves.

### Sessions

`password[u]` is a hash, a record of the secret and its salt: two hashes of one
password differ, which is what `account.password_hash != user.password_hash`
can see. `LookUp`, `Verify` and `Rehash` are the part of a login outside
transactions, `LockUser` compares the locked row with the snapshot. `LockSession`
is one row of `revoke_user`'s UPDATE, which waits for rows in any order.
`since` is the start of a transaction (`now()` in SQL). `born` and `resets` are
history: how often the password had been reset when a session's password was
verified.

`AccountSessions` is the promise: passwords instead of hashes, sessions that are
good or not instead of rows, and each login, logout and script in one step.
A success has done exactly what was asked for in that step, an error has changed
nothing. `Promise` maps it (`secret` to the password in the hash, `good` to the
rows that `Usable` accepts, `reply` to itself); lookups, rehashes, revocations that
have not committed and the cleanup's batches are stutters.

### Workforce

The same for employees, projects and assignments. What the companies component
does meanwhile is an environment of two atomic actions, `ChangeAccess` and
`DeleteCompany`, that wait until the company's lock is free. This is
justified by the theorem `Implements` (its writes are single steps) and by
`accessible` (it holds the company's lock in all of them). `ChangeAccess` may set
any set of writers, more than the component would. Ids of deleted rows may be
taken again in the model, although UUIDs are not; this only adds behaviours.
`WorkforceAtomic` is the promise, with the answers 200, 201 and 409 true at
the instant a request takes effect; `ImplementsAtomic` says `Workforce` keeps it.

### Listings

One query serves all five listings, so there is one model. A listing is a
tenant (`Groups`: a user, or a company and a resource) and a filter. A row's
`at` is the start of the transaction that inserted it, `CommitInsert` makes it
visible at any later time. `Page` is one SELECT: `Beyond` its WHERE on the
cursor, `Ordered` its ORDER BY, `Upto` its LIMIT of one row more than the page
has; `PageResult` is `page_result`. The client may send its cursor to any
listing; `RefuseCursor` is the 400 of `CursorCodec.decode`. `lasting` is history:
the rows that were in the client's listing from its first page on. The
signature is represented by the fact that a client has only cursors it was
given. Whether the client may list at all is decided by statements that
`CompanyAccess` has; a refused page is one that is not asked for.

### DemoSeed

It extends `CompanyAccess` with one more process. `SeedUser` and `SeedCompany`
are the upserts, one row each, which wait for the row and lock it, or insert it;
`SeedAccess` is the DELETE of the access rows, `SeedCommit` the inserts and the
COMMIT, refused where a key refuses them (`SeedConflicts`). `phase` and `at` say
which statement comes next. The database is one that was seeded before, with the
demo companies still there or deleted since, or one that was not.

`login` says who has the login of each demo account. It matters because the upsert
of an account names only the primary key as its conflict target: an account that
`provision_account` made with that login under an id of its own lets
`uq_users_login_normalized` refuse the seed (`SeedUserRefused`). `Claim` is the INSERT
of such an account, for which the seed waits, `Settle` its COMMIT or ROLLBACK. A demo
account that is not there yet (`Absent`) cannot be locked by anybody: `Serve`
refuses what is asked of it. The properties of `CompanyAccess` are checked again, of
both together.

### Pool

The tasks of one API process. A route is a sequence of what a task does with
shared resources: `query` checks a connection out if the task has none,
`rollback` and `commit` give it back, `limit` waits for Redis, `hash` for a
thread; `send` is the response, before which a read does not return its
connection (the exit of `get_uow` runs after it). `Acquire` is
`ObservedPool._do_get`, `PoolTimeout` the 503 after `pool_timeout`, `GiveUp` the
cancellation of the readiness probe. `NoConnectionAcrossRedisOrHash` therefore says
what a connection is not kept for, and `PoolDrains` assumes that responses get
sent. `End` is `__aexit__`, on every way out.

### RateLimit

Tasks of all replicas; `counter` is what Redis keeps. `Hit` is the script that
decides and counts at once, `Stats` the second call, `RedisFails` the failure of
either. `Slid`, `Weighted`, `Granted` and `Counted` are the sliding window counter
of the library `limits`, in ticks instead of milliseconds. `Normal` is
`normalize_identifier`. `hits` and `paid` are history: what was granted to whom,
whatever key it was counted under, and what a request has passed.

### LoadData

`db` has the committed rows, each reduced to what keys, foreign keys and rules
look at; `open` the batch a generator has copied and not committed. `Row` is
`dataset_rows`. `Accepted` is the database's judgement of a batch, `Waits` its wait
for a transaction with the same keys. `Fits` states what the formulas silently
need of the counts; an assumption, evaluated by TLC, says that the three real
profiles have it. Only generators write to the database, which
`docs/performance.md` asks for; with an account that has one of the load users'
logins the first batch would be rejected as well.

`AssignmentsAreSound` is the rule that holds of stored assignments (nobody whose
employment has ended has one; `docs/performance.md` claims it of this data), not
the one for making them: the generator assigns the employees on leave, one in
ten, and assigns people to completed projects, one in seventeen, and
`ensure_assignment` would refuse both with 409. Such rows come about in the API as
well, when somebody goes on leave or a project ends after the assignment. The
module keeps the status of employees and of projects to say so.

## What TLC checks

| Run | Instance | What it shows |
|---|---|---|
| `members` | 1 company, 2 accounts, versions 1..2, 2 requests | `ExactlyOneOwner`, `OwnerIsActive`, `BackstopSilent`, `StillTrueAtCommit` and the refinement of `CompanyAccessAtomic`: every pair of use cases meets on the same rows |
| `lock_order` | 2 companies, 2 accounts | `NoWaitCycle`: a circle needs two companies, or a company and an account |
| `seed` | 1 company, 3 accounts (one no demo account), 1 request, provisionings and the seed, fairness | `RulesSurviveSeeding`, `RefusedOnlyOverOthers` (an owner from outside, or a login that another account has), and `SeedAndRequestsEnd`: the circle of the seed's locks and a request's is left |
| `accounts` | 1 account, 2 passwords, 2 sessions, 1 reset | `SessionsAreCurrent`, `DeadStaysDead`, `RefusedOnlyForNewHash`, and the refinement of `AccountSessions`: two units of work of all kinds on one account |
| `retention` | 1 session, 4 times, lifetime 2, fairness | `CleanupSparesUsable`, and `EveryRequestAnswered`: every login, logout and script ends, and so does the loop over batches |
| `workforce` | 1 company, 1 employee, 1 project, 2 requests | `AssignmentsAreSound`, `StillTrueAtCommit`, `FinishedStaysFinished`, and the refinement of `WorkforceAtomic` |
| `emails` | 2 employees, 1 address | the refinement where two requests contend for an address |
| `tenants` | 2 companies, 1 request | the refinement where ids of another company are named |
| `pages` | 3 ids, 2 times, 2 writers, 2 filter values, pages of 1 and 2 | `StrictlyDescending`, `NothingSkipped`: a page boundary between and inside groups of equal timestamps, rows that become visible behind the cursor, cursors tried on another filter |
| `pool` | 3 tasks, 1 connection, 1 thread, fairness | `NoConnectionAcrossRedisOrHash`, `NothingLeaks`, `PoolDrains`, `EveryRequestAnswered` |
| `rate_limit` | 2 tasks, 1 address, 1 account with 2 spellings, 1 principal, windows of 2 ticks in 4 | `HitsAreBounded`, `RefusedOnlyWhenSpent`, `ServedHasPaid`, `AddressShieldsAccounts`: windows slide, are used up and forgotten |
| `load_data` | 2 generators, 4 profiles, batches of 40 | `LoadedByOne`, `RejectedOnlyByAnother`, `SuccessIsComplete`, `AssignmentsAreSound`, `PoolIsUsable` |

Each property is broken by a small change of the model that stands for a
plausible bug: a lock or a check left out, an off-by-one, a wrong order. These
variants are the operators marked "Mutant"; no behaviour uses them.

**Bounds.** `Procs` has two members, because every hazard named here is between
two transactions, and a third would have to wait for the same company or
account lock; the proofs cover any number, of accounts and rows too.
`MaxVersion` stands for 2147483647, the largest value of the integer column, beyond which the increment fails in the database: reaching it is part
of the runs. `MaxTime`, `MaxResets`, `Ids` (with no id left a login fails),
`Employees` and `Projects` (with no id left a creation fails) and `Salts`
(more than can be in use at once) bound the instance. In `retention` no password
is reset (`MaxResets` is 0), which keeps it small enough for liveness: the
statements of a reset that lock and revoke are those of a deactivation, which
run there, and a reset has no others; `CleanupSpares` is proved with resets. `Retention` is 0 in
the runs, the hardest value for `CleanupSparesUsable`, and any number in the
proof. One connection and one thread for three tasks are the scarcest pool there
is: one task has what another waits for while a third comes between. A window of
two ticks in four slides and is forgotten within the run; `MaxTime` bounds its
clock. The profiles of `LoadData` have ten to seventeen companies, since with
fewer than ten the formulas divide by zero, and counts that divide evenly and
that do not. Companies, accounts of which only one exists, and ids that are compared
are not symmetric; the others are.

**Deadlock** is checked in every run but `rate_limit`, where a request can still
be begun but the clock stops at its bound: some process can always begin a
request, and every request can end.

**Fairness.** Liveness assumes weak fairness of each process, and no more than
the configuration gives. In `DemoSeed` and `Sessions` that is a step or the end
of a wait: a transaction whose statement can run goes on (the event loop and
PostgreSQL run it, and a stuck one is ended by `statement_timeout` after 5 s or
`idle_in_transaction_session_timeout` after 15 s), and one that waits for a row is
ended by `lock_timeout` after 2 s. That a lock is ever granted is not assumed, nor
that clients send anything. All of it is set in `app/infrastructure/database.py`.
In `Sessions` the loop of the cleanup also needs to end by the size of its last
batch. `PoolDrains` assumes only that the database answers and responses are
sent (`DatabaseRuns`): it has to hold while Redis and the hashes stand still.
`EveryRequestAnswered` of `Pool` adds that Redis answers or times out (two
seconds, in `RateLimiter.__init__`), that hashes end and that `pool_timeout` ends a
wait for a connection (`EverythingRuns`).

**The limit of a limit.** "20/10 minutes" is not what Redis enforces. A window
that was used up at its end counts in the next with a share that shrinks: over
ten minutes an address can have nearly 40 attempts. `HitsAreBounded` states the
exact form: a burst gets the amount, each further tick its share of it.

## What is proved

Every safety invariant and every action property that a run checks is also a
theorem, and so is every refinement; what is left to TLC is liveness. The
theorems are in `CompanyAccessProofs`, `SessionsProofs`, `WorkforceProofs`,
`DemoSeedProofs`, `ListingsProofs`, `PoolProofs`, `RateLimitProofs` and
`LoadDataProofs`, and hold for all values of the constants under the assumptions
named in the modules, which TLC evaluates in the runs: ids of companies and rows
are natural numbers (UUIDs are compared as integers), bounds are natural
numbers, limits and sizes are positive, `None` is none of the values it stands
beside, processes, tasks, addresses and accounts are finitely many, the demo data
names at least one account and company and one owner for each company, and the
counts of a load profile fit the formulas, as those of the real ones do.

**The argument for row locks.** None of the safety properties of the
transactional modules is inductive: that a transfer leaves one owner depends on
what its process has locked. Each invariant therefore says, for each process,
where it can be (`Path`) and what it has locked and found out under its locks
(`Held(p)`). A step of `p` is dealt with in two parts. It moves nobody else and
takes nobody's locks (`Keeps`), and it changes nothing that another process has
locked (`Spares`); one lemma concludes `Held(q)'` for all others, and each action
has to show only `Held(p)'` and the properties themselves. For a refinement each
commit is mapped to its atomic action, whose guard `Held` supplies, and
everything else to a stutter.

*Companies.* `TypeCorrect`, `OneOwner`, `ActiveOwner`, `Backstop`, `ChecksHold`,
`Applied`, `Implements`, `NoCircle`. `IInv` adds `NoOrphans`: an id without a row
has no access rows. `NoCircle` has an invariant of its own: `Grip(p)` says which
rows `p` can hold when it waits, and that they all come before the row it waits
for in one order, companies by id, then access rows, then accounts. In a
circle of waits, one would have to wait for the highest row (`Highest`, the one
place where the processes have to be finitely many).

*Demo seed.* `SeedTypes`, `SeedingIsSafe`, `RefusedForOthersOnly`. The seed is one more holder
of locks, for which `Keeps` and `Spares` are shown in the same form, so that the
lemmas of `CompanyAccessProofs` and `IInv` itself carry over unchanged. What the
seed needs for its own writes is `Collected` (the locks it has at each phase),
`NoneMissed` (every access row that the DELETE is to replace has been seen and
locked), `Taken` (nobody else can draw the id of a demo company) and `Reserved`
(a login that the seed has passed is its own account's, or free and kept free by
its row: `PassedIsLocked`, so that no `Claim` gets in between). The seed is refused in
two places, and both are covered: at an upsert over a login of others, at the
COMMIT over an owner from outside.
`NoCircle` does not carry over: the seed takes its locks in another order, which
is why `SeedAndRequestsEnd` is needed.

*Sessions.* `TypeCorrect`, `Current`, `DeadStay`, `OnlyResets`, `CleanupSpares`,
`RefusedForNewHash`, `KeepsPromise`. Here the difficulty is the login that holds
no lock while it verifies. `Memory` and `SnapshotsTell` say why it is safe: a hash
with the salt that was read is in the table again only if nobody has reset the
password meanwhile, because every new hash has a salt nobody has or remembers
(`FreshIsNew`). `Held` has, for `revoke_user`, that every unrevoked session of the
locked account is locked or still to be locked. `KeepsPromise`, that each login,
logout, reset and revocation that succeeds is one of `AccountSessions` and every
other has changed nothing, and `RefusedForNewHash`
need more (`LInv`): how old a snapshot can be (`Seen`), and that what a unit of
work locks are sessions of its own request (`Aims`). The action properties
follow from the invariant, one case per action.

*Workforce.* `TypeCorrect`, `SoundAssignments`, `ChecksHold`, `Finished`,
`Implements`. The company's lock covers all that is in it, so `Spares` is one
statement: a company that another process has locked is `Untouched`, with its
employees, its projects and what would be assigned in it.

*Listings.* `TypeCorrect`, `Ordering`, `Completeness`. The invariant says that
the cursor stands at the last item the client has and that `lasting` is part
of the listing. Lemma `PageOfRows` says of one query that what a page leaves
out comes after its last row; `PageFollows` puts a page behind the items before
it. The writers' actions can only shrink `lasting`.

*Pool.* `TypeCorrect`, `HoldersAreQuick`, `NoLeaks`. The invariant looks ahead: what
is left of a route that has a connection, or waits for one, is `Calm`, it gives
the connection back before anything slow, and every suffix of every route is
`Considerate`. The gauge of waiting tasks is the cardinality of a set, so the proof
follows the set through time-outs and cancellations.

*Rate limits.* `NoFreeService`, `TypeCorrect`, `BoundedHits`, `RefusedForOwnHits`,
`AddressesPay`. `PInv` is about the way of a request: each limit of its route is
paid or still before it. `CInv` relates a counter to the history of its hits:
its two numbers are the sums of two adjacent windows (`Covers`, where a
window that follows another begins after its first tick and others with it), and
nothing was counted later. A slide keeps that (`Sliding`), a granted hit adds one
to both sides (`Counting`); `Bursts` and `Spent` are what it means for a hit that
the weighted sum is below the amount, or is not. Their arithmetic, products of
variables and their quotients, is in `Rounded` and `Shrinks`. `SInv` has a
login's hit on its address counted in advance until its account has one too.
All of this is about sums over sets (`MapThenSumSet`), whose laws (`SumSplit`,
`SumBump`, ...) are inductions over finite sets. They are told without an
induction theorem: among the subsets for which a law failed there would be a
smallest one (`Smallest`), and the equation of the sum refutes it.

*Load data.* `TypeCorrect`, `OneLoadOnly`, `SuccessMeansAll`, `SoundAssignments`,
`UsablePool`, `RejectedByAnother`. `OneAtATime` says that either no row is
committed, or one generator got ahead and the tables are filled up to where it is
or was when it ended (`UnderWay`). That a batch is accepted by the keys, that its
parents are there, and that assignments and sessions are sound, is arithmetic on
the formulas of `load_dataset.py` (`Divided`, `DividedOnce` and the lemmas after
them), from `Fits` alone.

**Model-checked only.** `EveryRequestAnswered` (of `Sessions` and `Pool`),
`PoolDrains` and `SeedAndRequestsEnd`: liveness under fairness is outside the
prover's reach.

## What is not modelled

- Of the demo seed: that it revokes the sessions of its accounts, as a reset does,
  and its employees, projects and assignments, which it upserts after the
  companies and under their locks.
- Of the load generator: clients that use the API while it runs.
- Of the pool: recycling and pinging of connections, and the pools of size zero
  that scripts use, each of which has a connection of its own.
- `RateLimit-Remaining` and `Retry-After`, computed from the second call to Redis:
  other requests may have counted in between, and nothing relies on them.
- `FOR KEY SHARE` locks that foreign keys take on the referenced rows. They can
  make an insert wait, at the latest until `lock_timeout`; the row they protect
  is, in every use case but one, locked by the transaction itself. The one is
  the author of an assignment, an account, which no operation deletes. Everybody
  locks accounts last, so that this insert closes no circle of waits, but for the
  demo seed, which locks its accounts first: an assignment that one of them makes
  in a demo company can wait for the seed, and the seed for the company.
  `lock_timeout` ends that circle as it does the one that `SeedAndRequestsEnd` has.
- Names, descriptions, websites, dates, the syntax of headers and cursors,
  validation of single fields, cookies and CSRF tokens, logging, metrics,
  probes, settings and the OpenAPI document: one request's data, or output.
- Single reads (`GET` of one row): one snapshot, no state.

## Plan

Done, in this order: `RowLocks`, `CompanyRequests`, `CompanyAccess`,
`CompanyAccessAtomic` and their proofs; `Sessions` and its proofs;
`WorkforceRequests`, `Workforce`, `WorkforceAtomic`; `Listings` and its proofs;
`AccountSessions`; `DemoSeed`; `Pool`; `RateLimit`; `LoadData`; the proofs of
`Workforce`, `Pool`, `RateLimit`, `LoadData` and `DemoSeed`, and those of
`NoWaitCycle` and of the refinement of `AccountSessions`.

Left is the safety half of liveness: that each statement of `CompanyAccess`,
`Sessions` and `Workforce` that does not wait brings its request nearer to its
end, as a measure on `step` and `todo` that every step of a process decreases.
With it, `EveryRequestAnswered` would rest on the fairness alone.
