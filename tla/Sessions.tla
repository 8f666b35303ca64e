------------------------------ MODULE Sessions ------------------------------
(***************************************************************************)
(* Accounts, their passwords and their login sessions, as changed by the   *)
(* login and logout handlers of app/auth, by the account scripts           *)
(* (provision_account, reset_password, set_account_status) and by          *)
(* cleanup_sessions.  As in CompanyAccess every statement is an action and *)
(* a transaction's writes are one action with its COMMIT.                  *)
(*                                                                         *)
(* A login is not one transaction: it reads the account, gives the         *)
(* connection back, verifies the password in a worker thread, and only     *)
(* then locks the account and compares what it read with what is there.    *)
(***************************************************************************)
EXTENDS Integers, FiniteSets, RowLocks

CONSTANTS
    Users,          \* accounts, by login_normalized
    Secrets,        \* passwords
    Salts,          \* argon2 salts that are not Dated
    Ids,            \* auth_sessions.id and token; never used twice
    Procs,          \* concurrent units of work
    MaxTime,        \* bound on the clock
    TTL,            \* session_ttl_seconds
    Retention,      \* the 24 hours a dead session is kept
    BatchSize,      \* --batch-size of cleanup_sessions
    MaxResets       \* bound on the password resets of an account

ASSUME SaltsAreOrdered == Salts \subseteq Nat \ {0}
ASSUME BoundsAreNatural ==
    /\ MaxTime \in Nat /\ TTL \in Nat \ {0} /\ Retention \in Nat
    /\ BatchSize \in Nat \ {0} /\ MaxResets \in Nat

VARIABLES
    now,            \* the clock
    known, active,  \* accounts with a row, and with is_active
    password,       \* users.password_hash, None for an unknown account
    resets,         \* ghost: how often the password of an account was reset
    session,        \* auth_sessions, None: no row
    used,           \* the ids that were ever inserted
    userLock, sessionLock,
    req, step,      \* what a unit of work is asked, its next statement
    reply,          \* how its last request ended
    read,           \* what a login read of the account
    fresh,          \* the hash computed in this unit of work, or None
    since,          \* start of the transaction, and of the cleanup
    todo            \* sessions a statement has still to lock

tables == <<known, active, password, resets, session, used>>
locks == <<userLock, sessionLock>>
memory == <<read, fresh, since, todo>>
local == <<req, step, reply, memory>>
vars == <<now, tables, locks, local>>

-----------------------------------------------------------------------------
(* Data.                                                                   *)

\* An encoded hash.  Dated: made with other parameters by an older release.
Dated == 0
Hashes == [secret : Secrets, salt : Salts \cup {Dated}]

\* Mutant: the parameters are compared with the wrong ones.
NeedsRehashAlways(h) == TRUE

NeedsRehash(h) == h.salt = Dated

Never == -1                                     \* revoked_at IS NULL
Times == 0..MaxTime

\* born: ghost, the resets of the account when the password was verified.
Rows == [user : Users, expires : 0..(MaxTime + TTL), revoked : Times \cup {Never},
         born : 0..MaxResets]

Requests ==
         [op : {"login", "reset", "provision"}, user : Users, secret : Secrets]
    \cup [op : {"activate", "deactivate"}, user : Users]
    \cup [op : {"logout"}, id : Ids]
    \cup {[op |-> "cleanup"]}

ASSUME NoneIsNothing ==
    /\ None \notin Procs /\ None \notin Hashes /\ None \notin Rows /\ None \notin Requests
    /\ None \notin Secrets /\ None \notin [user : Users, expires : Nat]

Stored == {s \in Ids : session[s] # None}
Open == {s \in Stored : session[s].revoked = Never}
OpenOf(u) == {s \in Open : session[s].user = u}

\* SessionRepository.authenticate.
Usable(s) ==
    /\ s \in Open
    /\ session[s].expires > now
    /\ session[s].user \in active

\* The salts that are stored, or that a unit of work still remembers.
UsedSalts ==
    LET hashes == {password[u] : u \in known}
                  \cup {read[p].hash : p \in {q \in Procs : read[q] # None}}
                  \cup {fresh[p] : p \in {q \in Procs : fresh[q] # None}}
    IN  {h.salt : h \in hashes}

\* Salts are random; the least that nobody has stands for them.
IsFresh(n) == n \notin UsedSalts /\ \A m \in Salts \ UsedSalts : n <= m

TypeOK ==
    /\ now \in Times
    /\ known \subseteq Users /\ active \subseteq known
    /\ password \in [Users -> Hashes \cup {None}]
    /\ \A u \in Users : password[u] = None <=> u \notin known
    /\ resets \in [Users -> 0..MaxResets]
    /\ session \in [Ids -> Rows \cup {None}]
    /\ used \subseteq Ids
    /\ userLock \in [Users -> Procs \cup {None}]
    /\ sessionLock \in [Ids -> Procs \cup {None}]
    /\ req \in [Procs -> Requests \cup {None}]
    /\ step \in [Procs -> {"idle", "lookUp", "verify", "rehash", "lockUser", "revoke",
                           "lockSessions", "sweep", "commit"}]
    /\ reply \in [Procs -> {"none", "ok", "error"}]
    /\ read \in [Procs -> [hash : Hashes, active : BOOLEAN, born : 0..MaxResets] \cup {None}]
    /\ fresh \in [Procs -> Hashes \cup {None}]
    /\ since \in [Procs -> Times]
    /\ todo \in [Procs -> SUBSET Ids]

\* A database that an older release has left: some accounts, with old hashes.
Init ==
    /\ now = 0
    /\ known \in SUBSET Users /\ active = known
    /\ \E s \in Secrets :
        password = [u \in Users |-> IF u \in known THEN [secret |-> s, salt |-> Dated] ELSE None]
    /\ resets = [u \in Users |-> 0]
    /\ session = [s \in Ids |-> None]
    /\ used = {}
    /\ userLock = [u \in Users |-> None]
    /\ sessionLock = [s \in Ids |-> None]
    /\ req = [p \in Procs |-> None]
    /\ step = [p \in Procs |-> "idle"]
    /\ reply = [p \in Procs |-> "none"]
    /\ read = [p \in Procs |-> None]
    /\ fresh = [p \in Procs |-> None]
    /\ since = [p \in Procs |-> 0]
    /\ todo = [p \in Procs |-> {}]

-----------------------------------------------------------------------------
(* Beginning and ending a unit of work.                                    *)

Goto(p, s) == step' = [step EXCEPT ![p] = s]

Answer(p, a) == reply' = [reply EXCEPT ![p] = a]

FirstStep(op) ==
    CASE op = "login" -> "lookUp"
      [] op = "logout" -> "lockSessions"
      [] op = "cleanup" -> "sweep"
      [] op = "provision" -> "commit"
      [] OTHER -> "lockUser"

\* The scripts hash the password before they connect; a logout has a usable
\* session; the other scripts name an account.
Begin(p) ==
    \E r \in Requests :
        /\ step[p] = "idle"
        /\ r.op = "logout" => Usable(r.id)
        /\ r.op = "reset" => resets[r.user] < MaxResets
        /\ IF r.op \in {"reset", "provision"}
              THEN \E n \in Salts : IsFresh(n) /\
                        fresh' = [fresh EXCEPT ![p] = [secret |-> r.secret, salt |-> n]]
              ELSE UNCHANGED fresh
        /\ req' = [req EXCEPT ![p] = r]
        /\ since' = [since EXCEPT ![p] = now]
        /\ todo' = [todo EXCEPT ![p] = IF r.op = "logout" THEN {r.id} ELSE {}]
        /\ Goto(p, FirstStep(r.op)) /\ Answer(p, "none")
        /\ UNCHANGED <<now, tables, locks, read>>

\* The unit of work ends and frees what it holds.
Finish(p) ==
    /\ Goto(p, "idle")
    /\ req' = [req EXCEPT ![p] = None]
    /\ read' = [read EXCEPT ![p] = None]
    /\ fresh' = [fresh EXCEPT ![p] = None]
    /\ since' = [since EXCEPT ![p] = 0]
    /\ todo' = [todo EXCEPT ![p] = {}]
    /\ userLock' = Release(userLock, p)
    /\ sessionLock' = Release(sessionLock, p)
    /\ UNCHANGED now

Refuse(p) == Finish(p) /\ Answer(p, "error") /\ UNCHANGED tables

\* A timeout, a lost connection or a killed process, at any statement.
Abort(p) == step[p] # "idle" /\ Refuse(p)

-----------------------------------------------------------------------------
(* Login.                                                                  *)

\* The snapshot of by_login; the transaction is rolled back.  An unknown login
\* goes on with dummy_hash, which no password verifies.
LookUp(p) ==
    LET u == req[p].user IN
    /\ step[p] = "lookUp"
    /\ IF u \in known
          THEN read' = [read EXCEPT ![p] = [hash |-> password[u], active |-> u \in active,
                                            born |-> resets[u]]]
          ELSE UNCHANGED read
    /\ Goto(p, "verify")
    /\ UNCHANGED <<now, tables, locks, req, reply, fresh, since, todo>>

\* argon2 in a worker thread, then the checks on the snapshot.
Verify(p) ==
    /\ step[p] = "verify"
    /\ IF read[p] # None /\ read[p].hash.secret = req[p].secret /\ read[p].active
          THEN /\ Goto(p, IF NeedsRehash(read[p].hash) THEN "rehash" ELSE "lockUser")
               /\ UNCHANGED <<now, tables, locks, req, reply, memory>>
          ELSE Refuse(p)

\* The hash with today's parameters, still outside any transaction.
Rehash(p) ==
    \E n \in Salts :
        /\ step[p] = "rehash"
        /\ IsFresh(n)
        /\ fresh' = [fresh EXCEPT ![p] = [secret |-> req[p].secret, salt |-> n]]
        /\ Goto(p, "lockUser")
        /\ UNCHANGED <<now, tables, locks, req, reply, read, since, todo>>

-----------------------------------------------------------------------------
(* The locked accounts and sessions.                                       *)

\* Mutant: the account is locked, but not compared with the snapshot.
LockUserUnchecked(p) ==
    LET r == req[p] IN
    /\ step[p] = "lockUser"
    /\ Granted(userLock, r.user, p)
    /\ IF r.user \in known
          THEN /\ userLock' = Take(userLock, r.user, p)
               /\ Goto(p, IF r.op \in {"reset", "deactivate"} THEN "revoke" ELSE "commit")
               /\ UNCHANGED <<now, tables, sessionLock, req, reply, memory>>
          ELSE Refuse(p)

\* users.lock().  A login needs the account as it was when it was read.
LockUser(p) ==
    LET r == req[p] IN
    /\ step[p] = "lockUser"
    /\ Granted(userLock, r.user, p)
    /\ IF /\ r.user \in known
          /\ r.op = "login" => r.user \in active /\ password[r.user] = read[p].hash
          THEN /\ userLock' = Take(userLock, r.user, p)
               /\ Goto(p, IF r.op \in {"reset", "deactivate"} THEN "revoke" ELSE "commit")
               /\ UNCHANGED <<now, tables, sessionLock, req, reply, memory>>
          ELSE Refuse(p)

\* Mutant: revoke_user is forgotten.
RevokeNothing(p) ==
    /\ step[p] = "revoke"
    /\ Goto(p, "commit")
    /\ UNCHANGED <<now, tables, locks, req, reply, memory>>

\* revoke_user: the snapshot of the account's unrevoked sessions.
Revoke(p) ==
    LET sessions == OpenOf(req[p].user) IN
    /\ step[p] = "revoke"
    /\ todo' = [todo EXCEPT ![p] = sessions]
    /\ Goto(p, IF sessions = {} THEN "commit" ELSE "lockSessions")
    /\ UNCHANGED <<now, tables, locks, req, reply, read, fresh, since>>

\* The UPDATE locks row after row.  A row that is gone, or for revoke_user one
\* that somebody has revoked meanwhile, is not updated.
LockSession(p) ==
    \E s \in todo[p] :
        /\ step[p] = "lockSessions"
        /\ Granted(sessionLock, s, p)
        /\ sessionLock' = IF s \in (IF req[p].op = "logout" THEN Stored ELSE Open)
                            THEN Take(sessionLock, s, p) ELSE sessionLock
        /\ todo' = [todo EXCEPT ![p] = @ \ {s}]
        /\ Goto(p, IF todo[p] = {s} THEN "commit" ELSE "lockSessions")
        /\ UNCHANGED <<now, tables, userLock, req, reply, read, fresh, since>>

\* The sessions p's transaction has locked.
Mine(p) == {s \in Ids : sessionLock[s] = p}

-----------------------------------------------------------------------------
(* The writes of each use case and its COMMIT.                             *)

\* Mutant: the lifetime is added to that of a session the account still has.
CommitLoginProlonging(p) ==
    LET r == req[p]
        ends == {session[s].expires : s \in OpenOf(r.user)} \cup {now}
    IN
    /\ step[p] = "commit" /\ r.op = "login"
    /\ IF used = Ids
          THEN Refuse(p)
          ELSE \E s \in Ids \ used, end \in ends :
                /\ \A e \in ends : e <= end
                /\ used' = used \cup {s}
                /\ session' = [session EXCEPT ![s] =
                        [user |-> r.user, expires |-> end + TTL, revoked |-> Never,
                         born |-> read[p].born]]
                /\ password' = IF fresh[p] = None THEN password
                                 ELSE [password EXCEPT ![r.user] = fresh[p]]
                /\ Finish(p) /\ Answer(p, "ok")
                /\ UNCHANGED <<known, active, resets>>

\* The new session's row.  (Bound: Ids; with none left the login fails.)
CommitLogin(p) ==
    LET r == req[p] IN
    /\ step[p] = "commit" /\ r.op = "login"
    /\ IF used = Ids
          THEN Refuse(p)
          ELSE \E s \in Ids \ used :
                /\ used' = used \cup {s}
                /\ session' = [session EXCEPT ![s] =
                        [user |-> r.user, expires |-> now + TTL, revoked |-> Never,
                         born |-> read[p].born]]
                /\ password' = IF fresh[p] = None THEN password
                                 ELSE [password EXCEPT ![r.user] = fresh[p]]
                /\ Finish(p) /\ Answer(p, "ok")
                /\ UNCHANGED <<known, active, resets>>

\* The rows p has locked are revoked as of the start of its transaction.
Revoked(p) ==
    [s \in Ids |-> IF s \in Mine(p) THEN [session[s] EXCEPT !.revoked = since[p]] ELSE session[s]]

CommitLogout(p) ==
    /\ step[p] = "commit" /\ req[p].op = "logout"
    /\ session' = Revoked(p)
    /\ Finish(p) /\ Answer(p, "ok")
    /\ UNCHANGED <<known, active, password, resets, used>>

CommitReset(p) ==
    LET u == req[p].user IN
    /\ step[p] = "commit" /\ req[p].op = "reset"
    /\ IF resets[u] = MaxResets
          THEN Refuse(p)
          ELSE /\ password' = [password EXCEPT ![u] = fresh[p]]
               /\ resets' = [resets EXCEPT ![u] = @ + 1]
               /\ session' = Revoked(p)
               /\ Finish(p) /\ Answer(p, "ok")
               /\ UNCHANGED <<known, active, used>>

CommitStatus(p) ==
    LET r == req[p] IN
    /\ step[p] = "commit" /\ r.op \in {"activate", "deactivate"}
    /\ active' = IF r.op = "activate" THEN active \cup {r.user} ELSE active \ {r.user}
    /\ session' = Revoked(p)
    /\ Finish(p) /\ Answer(p, "ok")
    /\ UNCHANGED <<known, password, resets, used>>

\* login_normalized is unique.
CommitProvision(p) ==
    LET u == req[p].user IN
    /\ step[p] = "commit" /\ req[p].op = "provision"
    /\ IF u \in known
          THEN Refuse(p)
          ELSE /\ known' = known \cup {u}
               /\ active' = active \cup {u}
               /\ password' = [password EXCEPT ![u] = fresh[p]]
               /\ Finish(p) /\ Answer(p, "ok")
               /\ UNCHANGED <<resets, session, used>>

-----------------------------------------------------------------------------
(* The retention of dead sessions.                                         *)

\* The clock at the start of the script, less the retention.
Cutoff(p) == since[p] - Retention

\* Mutant: a session's age, not its end, decides.
EligibleByAge(p) ==
    {s \in Stored : \/ session[s].expires - TTL < Cutoff(p)
                    \/ session[s].revoked # Never /\ session[s].revoked < Cutoff(p)}

Eligible(p) ==
    {s \in Stored : \/ session[s].expires < Cutoff(p)
                    \/ session[s].revoked # Never /\ session[s].revoked < Cutoff(p)}

\* SELECT ... LIMIT batch FOR UPDATE SKIP LOCKED.
Sweep(p) ==
    LET free == {s \in Eligible(p) : sessionLock[s] = None} IN
    /\ step[p] = "sweep"
    /\ \E S \in SUBSET free :
        /\ IF Cardinality(free) < BatchSize THEN S = free ELSE Cardinality(S) = BatchSize
        /\ sessionLock' = [s \in Ids |-> IF s \in S THEN p ELSE sessionLock[s]]
    /\ Goto(p, "commit")
    /\ UNCHANGED <<now, tables, userLock, req, reply, memory>>

\* Mutant: an off-by-one in the test that ends the loop.
CommitSweepForever(p) ==
    LET swept == Mine(p) IN
    /\ step[p] = "commit" /\ req[p].op = "cleanup"
    /\ session' = [s \in Ids |-> IF s \in swept THEN None ELSE session[s]]
    /\ UNCHANGED <<known, active, password, resets, used>>
    /\ IF Cardinality(swept) < BatchSize - 1
          THEN Finish(p) /\ Answer(p, "ok")
          ELSE /\ sessionLock' = Release(sessionLock, p)
               /\ Goto(p, "sweep")
               /\ UNCHANGED <<now, userLock, req, reply, memory>>

\* DELETE and COMMIT; a batch that was not full was the last.
CommitSweep(p) ==
    LET swept == Mine(p) IN
    /\ step[p] = "commit" /\ req[p].op = "cleanup"
    /\ session' = [s \in Ids |-> IF s \in swept THEN None ELSE session[s]]
    /\ UNCHANGED <<known, active, password, resets, used>>
    /\ IF Cardinality(swept) < BatchSize
          THEN Finish(p) /\ Answer(p, "ok")
          ELSE /\ sessionLock' = Release(sessionLock, p)
               /\ Goto(p, "sweep")
               /\ UNCHANGED <<now, userLock, req, reply, memory>>

-----------------------------------------------------------------------------
(* Waiting, the next-state relation and fairness.                          *)

Waiting(p) ==
    \/ step[p] = "lockUser" /\ ~ Granted(userLock, req[p].user, p)
    \/ step[p] = "lockSessions" /\ \A s \in todo[p] : ~ Granted(sessionLock, s, p)

LockTimeout(p) == Waiting(p) /\ Refuse(p)

Commit(p) ==
    \/ CommitLogin(p) \/ CommitLogout(p) \/ CommitReset(p)
    \/ CommitStatus(p) \/ CommitProvision(p) \/ CommitSweep(p)

Step(p) ==
    \/ LookUp(p) \/ Verify(p) \/ Rehash(p)
    \/ LockUser(p) \/ Revoke(p) \/ LockSession(p) \/ Sweep(p) \/ Commit(p)

\* (Bound: MaxTime.)
Tick == now < MaxTime /\ now' = now + 1 /\ UNCHANGED <<tables, locks, local>>

Next ==
    \/ Tick
    \/ \E p \in Procs : Begin(p) \/ Step(p) \/ LockTimeout(p) \/ Abort(p)

Spec == Init /\ [][Next]_vars

\* A unit of work that can run runs, and one that waits is timed out.
Fairness == \A p \in Procs : WF_vars(Step(p) \/ LockTimeout(p))

FairSpec == Spec /\ Fairness

-----------------------------------------------------------------------------
(* Properties.                                                             *)

\* A session that is not revoked belongs to an active account and was opened
\* with the password the account has now: no login that overlaps a reset or a
\* deactivation leaves a session behind.
SessionsAreCurrent ==
    \A s \in Open :
        LET u == session[s].user IN u \in active /\ session[s].born = resets[u]

\* A session that once could not be used can never be used again, also when
\* the account is activated again.
DeadStaysDead == [][\A s \in Stored : ~ Usable(s) => ~ Usable(s)']_vars

\* Only a reset changes what password opens an account: the rehash of a login
\* that began before the reset never brings the old password back.
OnlyResetsChangeSecrets ==
    [][\A u \in known : password'[u].secret # password[u].secret =>
                           resets'[u] = resets[u] + 1]_vars

\* The cleanup removes no session that somebody can still use.
CleanupSparesUsable == [][\A s \in Ids : Usable(s) => s \in Stored']_vars

\* A login with the right password is told otherwise only because somebody
\* has meanwhile rehashed the password, which happens once to a hash, or reset
\* it: what it compares is the hash, not the password.
RefusedOnlyForNewHash ==
    \A p \in Procs : step[p] = "lockUser" /\ req[p].op = "login" =>
        LET u == req[p].user IN
        u \in active /\ password[u].secret = req[p].secret /\ password[u] # read[p].hash =>
            read[p].hash.salt = Dated \/ read[p].born # resets[u]

\* Login, logout and the scripts take effect at one instant each, with what is
\* true of the account then; rehashing and the cleanup cannot be noticed.
Promise == INSTANCE AccountSessions WITH
    secret <- [u \in Users |-> IF u \in known THEN password[u].secret ELSE None],
    good <- [s \in Ids |->
               IF Usable(s) THEN [user |-> session[s].user, expires |-> session[s].expires]
                            ELSE None]

ImplementsPromise == Promise!Spec

\* Every login, logout and script ends, and so does the cleanup's loop.
EveryRequestAnswered == \A p \in Procs : step[p] # "idle" ~> step[p] = "idle"

=============================================================================
