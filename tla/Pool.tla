-------------------------------- MODULE Pool --------------------------------
(***************************************************************************)
(* The tasks of one API process and what they share: the connection pool   *)
(* of app/infrastructure/database.py and the threads that                  *)
(* app/auth/passwords.py hashes in.  What transactions do with the tables  *)
(* is in the other modules; here a transaction is the time for which a     *)
(* task has a connection checked out, and a route is the sequence of what  *)
(* a task does with these resources.                                       *)
(***************************************************************************)
EXTENDS Integers, FiniteSets, Sequences

CONSTANTS
    Tasks,          \* requests that the process serves at the same time
    PoolSize,       \* db_pool_size + db_max_overflow
    Threads         \* password_hash_concurrency

ASSUME SizesArePositive == PoolSize \in Nat \ {0} /\ Threads \in Nat \ {0}

VARIABLES
    left,           \* what is still to be done of the route a task serves
    step,           \* "run", or what the task waits for
    out,            \* tasks that have a connection checked out
    hashing,        \* tasks whose password is in a thread
    line,           \* tasks that wait for a thread, in CapacityLimiter's order
    acquiring       \* the gauge db_pool_acquiring

vars == <<left, step, out, hashing, line, acquiring>>

-----------------------------------------------------------------------------
(* The routes.  A query checks a connection out if its task has none;      *)
(* rollback and commit give it back.                                       *)

Routes == {"login", "rehash", "read", "list", "write", "ready"}

\* current_principal: the lookup of the session, and the general limit.
Authenticate == <<"query", "rollback", "limit">>

\* Mutant: login without its rollback.
RouteHolding(r) ==
    CASE r = "login" -> <<"limit", "query", "hash", "query", "commit", "send">>
      [] r = "rehash" -> <<"limit", "query", "hash", "hash", "query", "commit", "send">>
      [] r = "ready" -> <<"query", "rollback", "send">>
      [] r = "write" -> Authenticate \o <<"query", "commit", "send">>
      [] r = "read" -> Authenticate \o <<"query", "send">>
      [] r = "list" -> Authenticate \o <<"limit", "query", "send">>

\* What a read has checked out comes back in the exit of get_uow, after the
\* response.
Route(r) ==
    CASE r = "login" -> <<"limit", "query", "rollback", "hash", "query", "commit", "send">>
      [] r = "rehash" -> <<"limit", "query", "rollback", "hash", "hash", "query", "commit", "send">>
      [] r = "ready" -> <<"query", "rollback", "send">>
      [] r = "write" -> Authenticate \o <<"query", "commit", "send">>
      [] r = "read" -> Authenticate \o <<"query", "send">>
      [] r = "list" -> Authenticate \o <<"limit", "query", "send">>

Parts == {"query", "rollback", "commit", "limit", "hash", "send"}

TypeOK ==
    /\ left \in [Tasks -> Seq(Parts)]
    /\ step \in [Tasks -> {"idle", "run", "acquire", "line", "hash"}]
    /\ out \subseteq Tasks /\ Cardinality(out) <= PoolSize
    /\ hashing \subseteq Tasks /\ Cardinality(hashing) <= Threads
    /\ line \in Seq(Tasks)
    /\ acquiring \in Nat

Init ==
    /\ left = [t \in Tasks |-> <<>>]
    /\ step = [t \in Tasks |-> "idle"]
    /\ out = {} /\ hashing = {} /\ line = <<>> /\ acquiring = 0

-----------------------------------------------------------------------------
(* Beginning and ending a request.                                         *)

Comes(t, part) == step[t] = "run" /\ left[t] # <<>> /\ Head(left[t]) = part

Goto(t, s) == step' = [step EXCEPT ![t] = s]

Begin(t) ==
    \E r \in Routes :
        /\ step[t] = "idle"
        /\ left' = [left EXCEPT ![t] = Route(r)]
        /\ Goto(t, "run")
        /\ UNCHANGED <<out, hashing, line, acquiring>>

\* Mutant: an exit that does not close the session.
EndUnclosed(t) ==
    /\ Goto(t, "idle")
    /\ left' = [left EXCEPT ![t] = <<>>]
    /\ UNCHANGED out

\* get_uow's exit, on every way out: rollback and close.
End(t) ==
    /\ Goto(t, "idle")
    /\ left' = [left EXCEPT ![t] = <<>>]
    /\ out' = out \ {t}

Advance(t) == left' = [left EXCEPT ![t] = Tail(@)]

Exit(t) ==
    /\ step[t] = "run" /\ left[t] = <<>>
    /\ End(t)
    /\ UNCHANGED <<hashing, line, acquiring>>

\* An error leaves the route: 429 or 503 of the limiter, 401, a refusal of the
\* use case, a statement that fails or times out.
Fail(t) ==
    /\ step[t] = "run" /\ left[t] # <<>>
    /\ End(t)
    /\ UNCHANGED <<hashing, line, acquiring>>

-----------------------------------------------------------------------------
(* The connection pool.                                                    *)

Room == Cardinality(out) < PoolSize

\* ObservedPool._do_get: a free connection, or the wait for one.
Acquire(t) ==
    /\ Comes(t, "query") /\ t \notin out
    /\ IF Room
          THEN out' = out \cup {t} /\ UNCHANGED <<step, acquiring>>
          ELSE Goto(t, "acquire") /\ acquiring' = acquiring + 1 /\ UNCHANGED out
    /\ UNCHANGED <<left, hashing, line>>

\* Whoever comes first takes a connection that is given back: the pool keeps
\* no order between those who wait and those who come.
Acquired(t) ==
    /\ step[t] = "acquire" /\ Room
    /\ out' = out \cup {t}
    /\ acquiring' = acquiring - 1
    /\ Goto(t, "run")
    /\ UNCHANGED <<left, hashing, line>>

\* Mutant: no pool_timeout.
WaitForever(t) == FALSE

\* pool_timeout is over, and every connection is checked out: a 503.
PoolTimeout(t) ==
    /\ step[t] = "acquire" /\ ~ Room
    /\ acquiring' = acquiring - 1
    /\ End(t)
    /\ UNCHANGED <<hashing, line>>

\* asyncio.timeout(3) of the readiness probe cancels it where it is.
GiveUp(t) ==
    /\ step[t] = "acquire" /\ left[t] = Route("ready")
    /\ acquiring' = acquiring - 1
    /\ End(t)
    /\ UNCHANGED <<hashing, line>>

Query(t) ==
    /\ Comes(t, "query") /\ t \in out
    /\ Advance(t)
    /\ UNCHANGED <<step, out, hashing, line, acquiring>>

GiveBack(t) ==
    /\ Comes(t, "rollback") \/ Comes(t, "commit")
    /\ out' = out \ {t}
    /\ Advance(t)
    /\ UNCHANGED <<step, hashing, line, acquiring>>

-----------------------------------------------------------------------------
(* The limiter, the threads and the response.                              *)

Limit(t) ==
    /\ Comes(t, "limit")
    /\ Advance(t)
    /\ UNCHANGED <<step, out, hashing, line, acquiring>>

Send(t) ==
    /\ Comes(t, "send")
    /\ Advance(t)
    /\ UNCHANGED <<step, out, hashing, line, acquiring>>

\* Mutant: to_thread.run_sync without the limiter.
HashUnlimited(t) ==
    /\ Comes(t, "hash")
    /\ Goto(t, "hash") /\ hashing' = hashing \cup {t}
    /\ UNCHANGED <<left, out, line, acquiring>>

\* to_thread.run_sync with the limiter: first come, first served.
Hash(t) ==
    /\ Comes(t, "hash")
    /\ IF line = <<>> /\ Cardinality(hashing) < Threads
          THEN Goto(t, "hash") /\ hashing' = hashing \cup {t} /\ UNCHANGED line
          ELSE Goto(t, "line") /\ line' = Append(line, t) /\ UNCHANGED hashing
    /\ UNCHANGED <<left, out, acquiring>>

\* The thread is done, and goes to the first in the line.
Hashed(t) ==
    LET next == IF line = <<>> THEN {} ELSE {Head(line)} IN
    /\ step[t] = "hash"
    /\ hashing' = (hashing \ {t}) \cup next
    /\ line' = IF line = <<>> THEN line ELSE Tail(line)
    /\ step' = [u \in Tasks |-> IF u = t THEN "run" ELSE IF u \in next THEN "hash" ELSE step[u]]
    /\ Advance(t)
    /\ UNCHANGED <<out, acquiring>>

-----------------------------------------------------------------------------

Step(t) ==
    \/ Acquire(t) \/ Acquired(t) \/ Query(t) \/ GiveBack(t)
    \/ Limit(t) \/ Hash(t) \/ Hashed(t) \/ Send(t) \/ Exit(t)

Next == \E t \in Tasks : Begin(t) \/ Step(t) \/ Fail(t) \/ PoolTimeout(t) \/ GiveUp(t)

Spec == Init /\ [][Next]_vars

\* The least that is assumed: statements end (statement_timeout, lock_timeout),
\* and so does the sending of a response.
DatabaseRuns == \A t \in Tasks : WF_vars(Query(t) \/ GiveBack(t) \/ Send(t) \/ Exit(t))

DatabaseFairSpec == Spec /\ DatabaseRuns

\* Redis answers or times out, hashes end, and waits for a connection too.
EverythingRuns == \A t \in Tasks : WF_vars(Step(t) \/ PoolTimeout(t))

-----------------------------------------------------------------------------
(* Properties.                                                             *)

\* Nobody keeps a connection while it waits for Redis, for a thread or for
\* another connection: between a task that waits for a connection and the one it
\* will get stand only the database and, since a read gives its connection back
\* after its response, the sending of responses.
NoConnectionAcrossRedisOrHash ==
    \A t \in out : step[t] = "run" /\ ~ Comes(t, "limit") /\ ~ Comes(t, "hash")

\* On every way out, a request leaves the pool, the threads and the line: what
\* is checked out belongs to somebody who is still being served.  And
\* db_pool_acquiring counts those who wait for a connection, also after timeouts
\* and cancellations.
NothingLeaks ==
    /\ \A t \in Tasks : step[t] = "idle" =>
        t \notin out \cup hashing /\ \A i \in DOMAIN line : line[i] # t
    /\ acquiring = Cardinality({t \in Tasks : step[t] = "acquire"})

\* However long hashes and Redis take, the database alone brings connections
\* back: a flood of logins does not exhaust the pool.
PoolDrains == []<>Room

\* Every request ends: the wait for a connection by pool_timeout, that for a
\* thread because the line is served in order.
EveryRequestAnswered ==
    EverythingRuns => \A t \in Tasks : step[t] # "idle" ~> step[t] = "idle"

=============================================================================
