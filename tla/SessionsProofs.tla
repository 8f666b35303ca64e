-------------------------- MODULE SessionsProofs ----------------------------
(* Theorems about Sessions, for any accounts, sessions and units of work.  *)
EXTENDS Sessions, TLAPS

-----------------------------------------------------------------------------
(* The inductive invariant.                                                *)

\* Which fields a request has, by its operation.
LEMMA RequestFields ==
    ASSUME NEW r \in Requests
    PROVE  /\ r.op \in {"login", "reset", "provision", "activate", "deactivate",
                        "logout", "cleanup"}
           /\ r.op \in {"login", "reset", "provision"} => r.user \in Users /\ r.secret \in Secrets
           /\ r.op \in {"activate", "deactivate"} => r.user \in Users
           /\ r.op = "logout" => r.id \in Ids
BY DEF Requests

Steps == {"idle", "lookUp", "verify", "rehash", "lockUser", "revoke",
          "lockSessions", "sweep", "commit"}

OfAccount == {"login", "reset", "activate", "deactivate"}

\* Each statement belongs to certain use cases; between requests there is none.
Path(p) ==
    /\ step[p] = "idle" => req[p] = None
    /\ step[p] # "idle" => req[p] \in Requests
    /\ step[p] \in {"lookUp", "verify", "rehash"} => req[p].op = "login"
    /\ step[p] = "lockUser" => req[p].op \in OfAccount
    /\ step[p] = "revoke" => req[p].op \in {"reset", "deactivate"}
    /\ step[p] = "lockSessions" => req[p].op \in {"logout", "reset", "deactivate"}
    /\ step[p] = "sweep" => req[p].op = "cleanup"

\* What a unit of work remembers.
Memory(p) ==
    LET r == req[p] IN
    /\ read[p] # None => step[p] # "idle" /\ r.op = "login" /\ r.user \in known
    /\ step[p] \in {"rehash", "lockUser", "commit"} /\ r.op = "login" =>
          read[p] # None /\ read[p].hash.secret = r.secret
    /\ fresh[p] # None => step[p] # "idle" /\ r.op \in {"login", "reset", "provision"}
    /\ fresh[p] # None => fresh[p].secret = r.secret
    /\ step[p] # "idle" /\ r.op \in {"reset", "provision"} => fresh[p] # None
    /\ since[p] <= now

\* A hash that is not stored yet has a salt of its own.
FreshIsNew ==
    \A p \in Procs : fresh[p] # None =>
        /\ \A u \in known : password[u].salt # fresh[p].salt
        /\ \A q \in Procs : read[q] # None => read[q].hash.salt # fresh[p].salt
        /\ \A q \in Procs : q # p /\ fresh[q] # None => fresh[q].salt # fresh[p].salt

\* So the hash a login has read is there again only if nobody has reset it.
SnapshotsTell ==
    \A p \in Procs : read[p] # None /\ password[req[p].user] = read[p].hash =>
        read[p].born = resets[req[p].user]

\* The locks a unit of work holds, and what they keep true.
Held(p) ==
    LET r == req[p] IN
    /\ step[p] \in {"revoke", "lockSessions", "commit"} /\ r.op \in OfAccount =>
          userLock[r.user] = p /\ r.user \in known
    /\ step[p] = "commit" /\ r.op = "login" =>
          r.user \in active /\ password[r.user] = read[p].hash
    /\ step[p] = "lockSessions" /\ r.op \in {"reset", "deactivate"} =>
          OpenOf(r.user) \subseteq todo[p] \cup Mine(p)
    /\ step[p] = "commit" /\ r.op \in {"reset", "deactivate"} =>
          OpenOf(r.user) \subseteq Mine(p)
    /\ step[p] = "commit" /\ r.op = "cleanup" => Mine(p) \subseteq Eligible(p)
    /\ Mine(p) # {} => step[p] \in {"lockSessions", "commit"}

\* Ids are used once, and only rows are locked.
RowsAreUsed ==
    /\ Stored \subseteq used
    /\ \A s \in Ids : sessionLock[s] # None => s \in Stored

IInv ==
    /\ TypeOK
    /\ \A p \in Procs : Path(p)
    /\ \A p \in Procs : Memory(p)
    /\ \A p \in Procs : Held(p)
    /\ FreshIsNew /\ SnapshotsTell /\ RowsAreUsed /\ SessionsAreCurrent

-----------------------------------------------------------------------------
(* What a step of p leaves to the others.                                  *)

\* A step of p leaves the other units of work where they are, with their locks.
Keeps(p) ==
    \A q \in Procs \ {p} :
        /\ step'[q] = step[q] /\ req'[q] = req[q] /\ read'[q] = read[q]
        /\ fresh'[q] = fresh[q] /\ since'[q] = since[q] /\ todo'[q] = todo[q]
        /\ \A u \in Users : userLock[u] = q => userLock'[u] = q
        /\ \A s \in Ids : sessionLock[s] = q <=> sessionLock'[s] = q

\* A step of p leaves alone the accounts and sessions that others have locked.
Spares(p) ==
    /\ known \subseteq known' /\ now <= now' /\ now' \in Times
    /\ \A u \in known : userLock[u] \in Procs \ {p} =>
          /\ password'[u] = password[u]
          /\ u \in active' <=> u \in active
          /\ OpenOf(u)' \subseteq OpenOf(u)
    /\ \A s \in Ids : sessionLock[s] \in Procs \ {p} => session'[s] = session[s]

\* So what the others remember and hold stays true.
LEMMA OthersHold ==
    ASSUME IInv, NEW p \in Procs, Keeps(p), Spares(p), NEW q \in Procs, q # p
    PROVE  Path(q)' /\ Memory(q)' /\ Held(q)'
<1>. DEFINE r == req[q]
<1>1. /\ step'[q] = step[q] /\ req'[q] = r /\ read'[q] = read[q]
      /\ fresh'[q] = fresh[q] /\ since'[q] = since[q] /\ todo'[q] = todo[q]
      /\ \A u \in Users : userLock[u] = q => userLock'[u] = q
      /\ \A s \in Ids : sessionLock[s] = q <=> sessionLock'[s] = q
  BY DEF Keeps
<1>2. Path(q)'
  BY <1>1 DEF IInv, Path
<1>3. Memory(q)'
  <2>1. since[q] <= now'
    BY DEF IInv, Memory, Spares, TypeOK, Times
  <2>. QED BY <1>1, <2>1 DEF IInv, Memory, Spares
<1>4. Mine(q)' = Mine(q)
  BY <1>1 DEF Mine
<1>5. Held(q)
  BY DEF IInv
<1>6. ASSUME step[q] \in {"revoke", "lockSessions", "commit"}, r.op \in OfAccount
      PROVE  /\ r.user \in Users /\ r.user \in known /\ r.user \in known'
             /\ userLock[r.user] = q /\ userLock'[r.user] = q
             /\ password'[r.user] = password[r.user]
             /\ r.user \in active' <=> r.user \in active
             /\ OpenOf(r.user)' \subseteq OpenOf(r.user)
  <2>1. userLock[r.user] = q /\ r.user \in known /\ r.user \in Users
    BY <1>5, <1>6 DEF Held, IInv, TypeOK
  <2>. QED BY <1>1, <2>1 DEF Spares
<1>7. Mine(q) \subseteq Eligible(q) => Mine(q)' \subseteq Eligible(q)'
  <2>. SUFFICES ASSUME Mine(q) \subseteq Eligible(q), NEW s \in Mine(q)
                PROVE  s \in Eligible(q)'
    BY <1>4
  <2>1. session'[s] = session[s] /\ s \in Ids
    BY DEF Mine, Spares
  <2>2. s \in Eligible(q)
    OBVIOUS
  <2>. QED BY <1>1, <2>1, <2>2 DEF Eligible, Cutoff, Stored
<1>8. (OpenOf(r.user)') = OpenOf(req[q].user)'
  BY <1>1 DEF OpenOf, Open, Stored
<1>9. Held(q)'
  <2>1. step[q] \in {"revoke", "lockSessions", "commit"} /\ r.op \in OfAccount =>
           userLock'[r.user] = q /\ r.user \in known'
    BY <1>6
  <2>2. step[q] = "commit" /\ r.op = "login" =>
           r.user \in active' /\ password'[r.user] = read[q].hash
    BY <1>5, <1>6 DEF Held, OfAccount
  <2>3. step[q] = "lockSessions" /\ r.op \in {"reset", "deactivate"} =>
           OpenOf(r.user)' \subseteq todo[q] \cup Mine(q)
    BY <1>5, <1>6 DEF Held, OfAccount
  <2>4. step[q] = "commit" /\ r.op \in {"reset", "deactivate"} =>
           OpenOf(r.user)' \subseteq Mine(q)
    BY <1>5, <1>6 DEF Held, OfAccount
  <2>5. step[q] = "commit" /\ r.op = "cleanup" => Mine(q)' \subseteq Eligible(q)'
    BY <1>5, <1>7 DEF Held
  <2>6. Mine(q)' # {} => step[q] \in {"lockSessions", "commit"}
    BY <1>4, <1>5 DEF Held
  <2>. QED BY <1>1, <1>4, <1>8, <2>1, <2>2, <2>3, <2>4, <2>5, <2>6 DEF Held
<1>. QED BY <1>2, <1>3, <1>9

\* The invariant after a step of p, put together.
LEMMA Assemble ==
    ASSUME IInv, NEW p \in Procs, Keeps(p), Spares(p),
           TypeOK', Path(p)', Memory(p)', Held(p)',
           FreshIsNew', SnapshotsTell', RowsAreUsed', SessionsAreCurrent'
    PROVE  IInv'
<1>1. \A q \in Procs : Path(q)' /\ Memory(q)' /\ Held(q)'
  BY OthersHold
<1>. QED BY <1>1 DEF IInv

\* While the tables stay and nothing new is remembered, what is said of the
\* hashes and rows stays.
LEMMA Unwritten ==
    ASSUME IInv, NEW p \in Procs, Keeps(p), UNCHANGED <<now, tables>>,
           read'[p] \in {read[p], None}, fresh'[p] \in {fresh[p], None},
           read'[p] # None => req'[p] = req[p]
    PROVE  /\ Spares(p) /\ FreshIsNew' /\ SnapshotsTell' /\ SessionsAreCurrent'
           /\ Stored' = Stored /\ used' = used
<1>1. \A q \in Procs : /\ read'[q] \in {read[q], None} /\ fresh'[q] \in {fresh[q], None}
                       /\ read'[q] # None => req'[q] = req[q]
  BY DEF Keeps
<1>2. FreshIsNew'
  BY <1>1 DEF IInv, FreshIsNew, tables
<1>3. SnapshotsTell'
  BY <1>1 DEF IInv, SnapshotsTell, tables
<1>4. SessionsAreCurrent'
  BY DEF IInv, SessionsAreCurrent, Open, Stored, tables
<1>5. Spares(p)
  BY DEF IInv, TypeOK, Spares, OpenOf, Open, Stored, tables, Times
<1>. QED BY <1>2, <1>3, <1>4, <1>5 DEF Stored, tables

\* The end of a unit of work: p holds and remembers nothing any more.
LEMMA FinishKeeps ==
    ASSUME TypeOK, NEW p \in Procs, Finish(p)
    PROVE  /\ Keeps(p) /\ Path(p)' /\ Memory(p)' /\ Held(p)'
           /\ step'[p] = "idle" /\ read'[p] = None /\ fresh'[p] = None
           /\ \A s \in Ids : sessionLock'[s] \in {sessionLock[s], None} /\ sessionLock'[s] # p
<1>1. /\ step'[p] = "idle" /\ req'[p] = None /\ read'[p] = None /\ fresh'[p] = None
      /\ since'[p] = 0 /\ now' = now
  BY DEF TypeOK, Finish, Goto
<1>2. \A s \in Ids : /\ sessionLock'[s] \in {sessionLock[s], None} /\ sessionLock'[s] # p
                     /\ \A q \in Procs \ {p} : sessionLock[s] = q <=> sessionLock'[s] = q
  BY NoneIsNothing DEF TypeOK, Finish, Release
<1>3. \A u \in Users, q \in Procs \ {p} : userLock[u] = q => userLock'[u] = q
  BY NoneIsNothing DEF TypeOK, Finish, Release
<1>4. Keeps(p)
  BY <1>2, <1>3 DEF Keeps, TypeOK, Finish, Goto
<1>5. Path(p)' /\ Memory(p)'
  BY <1>1 DEF Path, Memory, TypeOK, Times
<1>6. Held(p)'
  BY <1>1, <1>2 DEF Held, Mine
<1>. QED BY <1>1, <1>2, <1>4, <1>5, <1>6

\* ... and everything but the tables is well typed.
LEMMA FinishTypes ==
    ASSUME TypeOK, NEW p \in Procs, Finish(p), NEW a \in {"ok", "error"}, Answer(p, a),
           known' \subseteq Users, active' \subseteq known',
           password' \in [Users -> Hashes \cup {None}],
           \A u \in Users : password'[u] = None <=> u \notin known',
           resets' \in [Users -> 0..MaxResets],
           session' \in [Ids -> Rows \cup {None}], used' \subseteq Ids
    PROVE  TypeOK'
<1>1. userLock' \in [Users -> Procs \cup {None}]
  BY DEF TypeOK, Finish, Release
<1>2. sessionLock' \in [Ids -> Procs \cup {None}]
  BY DEF TypeOK, Finish, Release
<1>3. /\ step' \in [Procs -> Steps]
      /\ req' \in [Procs -> Requests \cup {None}]
      /\ reply' \in [Procs -> {"none", "ok", "error"}]
  BY DEF TypeOK, Finish, Goto, Answer, Steps
<1>4. read' \in [Procs -> [hash : Hashes, active : BOOLEAN, born : 0..MaxResets] \cup {None}]
  BY DEF TypeOK, Finish
<1>5. /\ fresh' \in [Procs -> Hashes \cup {None}]
      /\ since' \in [Procs -> Times]
      /\ todo' \in [Procs -> SUBSET Ids]
      /\ now' \in Times
  BY BoundsAreNatural DEF TypeOK, Finish, Times
<1>. QED BY <1>1, <1>2, <1>3, <1>4, <1>5 DEF TypeOK, Steps

\* A refused or aborted unit of work leaves no trace.
LEMMA RefuseStep ==
    ASSUME IInv, NEW p \in Procs, Refuse(p)
    PROVE  IInv'
<1>. USE DEF IInv
<1>1. TypeOK'
  <2>1. Finish(p) /\ Answer(p, "error") /\ UNCHANGED tables
    BY DEF Refuse
  <2>. QED BY <2>1, FinishTypes DEF TypeOK, tables
<1>2. UNCHANGED <<now, tables>>
  BY DEF Refuse, Finish
<1>3. Finish(p)
  BY DEF Refuse
<1>4. /\ Spares(p) /\ FreshIsNew' /\ SnapshotsTell' /\ SessionsAreCurrent'
      /\ Stored' = Stored /\ used' = used
  BY <1>2, <1>3, FinishKeeps, Unwritten
<1>5. RowsAreUsed'
  BY <1>3, <1>4, FinishKeeps DEF RowsAreUsed
<1>. QED BY <1>1, <1>3, <1>4, <1>5, FinishKeeps, Assemble

-----------------------------------------------------------------------------
(* The invariant across one step.                                          *)

\* The clock.
LEMMA TickStep == IInv /\ Tick => IInv'
<1>. SUFFICES ASSUME IInv, Tick
              PROVE  IInv'
  OBVIOUS
<1>. USE DEF IInv
<1>1. now' = now + 1 /\ now' \in Times /\ UNCHANGED <<tables, locks, local>>
  BY BoundsAreNatural DEF Tick, TypeOK, Times
<1>2. TypeOK'
  BY <1>1 DEF TypeOK, tables, locks, local, memory
<1>3. \A p \in Procs : Path(p)' /\ Held(p)'
  BY <1>1 DEF Path, Held, OpenOf, Open, Stored, Mine, Eligible, Cutoff, tables, locks, local, memory
<1>4. \A p \in Procs : Memory(p)'
  BY <1>1 DEF Memory, TypeOK, Times, tables, local, memory
<1>5. FreshIsNew' /\ SnapshotsTell'
  BY <1>1 DEF FreshIsNew, SnapshotsTell, tables, local, memory
<1>6. RowsAreUsed' /\ SessionsAreCurrent'
  BY <1>1 DEF RowsAreUsed, SessionsAreCurrent, Open, Stored, tables, locks
<1>. QED BY <1>2, <1>3, <1>4, <1>5, <1>6

\* A hash made with a salt nobody has.
LEMMA NewHash ==
    ASSUME IInv, NEW p \in Procs, NEW n \in Salts, IsFresh(n), NEW secret,
           fresh' = [fresh EXCEPT ![p] = [secret |-> secret, salt |-> n]],
           UNCHANGED <<known, password, read>>
    PROVE  FreshIsNew'
<1>. USE DEF IInv
<1>1. n \notin UsedSalts
  BY DEF IsFresh
<1>2. /\ \A u \in known : password[u].salt # n
      /\ \A q \in Procs : read[q] # None => read[q].hash.salt # n
      /\ \A q \in Procs : fresh[q] # None => fresh[q].salt # n
  BY <1>1 DEF UsedSalts
<1>3. /\ fresh'[p].salt = n
      /\ \A q \in Procs \ {p} : fresh'[q] = fresh[q]
  BY DEF TypeOK
<1>. QED BY <1>2, <1>3 DEF FreshIsNew

\* A request begins: a hash made now has a salt nobody has.
LEMMA BeginStep ==
    ASSUME IInv, NEW p \in Procs, Begin(p)
    PROVE  IInv'
<1>. USE DEF IInv
<1>1. PICK r \in Requests :
        /\ step[p] = "idle"
        /\ IF r.op \in {"reset", "provision"}
              THEN \E n \in Salts : IsFresh(n) /\
                        fresh' = [fresh EXCEPT ![p] = [secret |-> r.secret, salt |-> n]]
              ELSE UNCHANGED fresh
        /\ req' = [req EXCEPT ![p] = r]
        /\ since' = [since EXCEPT ![p] = now]
        /\ todo' = [todo EXCEPT ![p] = IF r.op = "logout" THEN {r.id} ELSE {}]
        /\ step' = [step EXCEPT ![p] = FirstStep(r.op)]
        /\ reply' = [reply EXCEPT ![p] = "none"]
        /\ UNCHANGED <<now, tables, locks, read>>
  BY DEF Begin, Goto, Answer
<1>2. /\ r.op \in {"login", "reset", "provision", "activate", "deactivate", "logout", "cleanup"}
      /\ r.op \in {"login", "reset", "provision"} => r.user \in Users /\ r.secret \in Secrets
      /\ r.op = "logout" => r.id \in Ids
      /\ r # None
  BY RequestFields, NoneIsNothing
<1>3. /\ FirstStep(r.op) \in {"lookUp", "lockUser", "lockSessions", "sweep", "commit"}
      /\ FirstStep(r.op) = "lookUp" => r.op = "login"
      /\ FirstStep(r.op) = "lockUser" => r.op \in {"reset", "activate", "deactivate"}
      /\ FirstStep(r.op) = "lockSessions" => r.op = "logout"
      /\ FirstStep(r.op) = "sweep" => r.op = "cleanup"
      /\ FirstStep(r.op) = "commit" => r.op = "provision"
  BY <1>2 DEF FirstStep
<1>4. /\ req'[p] = r /\ step'[p] = FirstStep(r.op) /\ since'[p] = now
      /\ read'[p] = None /\ fresh[p] = None /\ Mine(p) = {} /\ Mine(p)' = Mine(p)
      /\ now' = now
  BY <1>1 DEF TypeOK, Memory, Held, Mine, locks
<1>5. Keeps(p)
  BY <1>1 DEF TypeOK, Keeps, locks
<1>6. \/ UNCHANGED fresh /\ r.op \notin {"reset", "provision"}
      \/ /\ r.op \in {"reset", "provision"}
         /\ \E n \in Salts : IsFresh(n) /\
                fresh' = [fresh EXCEPT ![p] = [secret |-> r.secret, salt |-> n]]
  BY <1>1
<1>7. /\ fresh' \in [Procs -> Hashes \cup {None}]
      /\ fresh'[p] # None => r.op \in {"reset", "provision"} /\ fresh'[p].secret = r.secret
      /\ r.op \in {"reset", "provision"} => fresh'[p] # None
  BY <1>2, <1>4, <1>6, NoneIsNothing DEF TypeOK, Hashes
<1>8. /\ step' \in [Procs -> Steps]
      /\ req' \in [Procs -> Requests \cup {None}]
      /\ since' \in [Procs -> Times]
      /\ todo' \in [Procs -> SUBSET Ids]
      /\ reply' \in [Procs -> {"none", "ok", "error"}]
  BY <1>1, <1>2, <1>3 DEF TypeOK, Steps
<1>9. TypeOK'
  BY <1>1, <1>7, <1>8 DEF TypeOK, Steps, tables, locks
<1>10. Path(p)'
  BY <1>2, <1>3, <1>4 DEF Path, OfAccount
<1>11. Memory(p)'
  BY <1>2, <1>3, <1>4, <1>7 DEF Memory, TypeOK, Times
<1>12. Held(p)'
  BY <1>2, <1>3, <1>4 DEF Held, OfAccount
<1>13. /\ Spares(p) /\ SessionsAreCurrent' /\ SnapshotsTell' /\ Stored' = Stored /\ used' = used
  <2>1. Spares(p)
    BY <1>1 DEF TypeOK, Spares, OpenOf, Open, Stored, tables, Times
  <2>2. SessionsAreCurrent' /\ Stored' = Stored /\ used' = used
    BY <1>1 DEF SessionsAreCurrent, Open, Stored, tables
  <2>3. SnapshotsTell'
    BY <1>1, <1>4, <1>5 DEF SnapshotsTell, tables, Keeps
  <2>. QED BY <2>1, <2>2, <2>3
<1>14. RowsAreUsed'
  BY <1>1, <1>13 DEF RowsAreUsed, locks
<1>15. FreshIsNew'
  <2>1. UNCHANGED <<known, password, read>>
    BY <1>1 DEF tables
  <2>2. CASE UNCHANGED fresh
    BY <2>1, <2>2 DEF FreshIsNew
  <2>3. CASE \E n \in Salts : IsFresh(n) /\
                fresh' = [fresh EXCEPT ![p] = [secret |-> r.secret, salt |-> n]]
    BY <2>1, <2>3, NewHash
  <2>. QED BY <1>6, <2>2, <2>3
<1>. QED BY <1>5, <1>9, <1>10, <1>11, <1>12, <1>13, <1>14, <1>15, Assemble

\* The snapshot of an account: it carries the hash that is stored, so its salt
\* is not that of a hash somebody is about to store.
LEMMA LookUpStep ==
    ASSUME IInv, NEW p \in Procs, LookUp(p)
    PROVE  IInv'
<1>. USE DEF IInv
<1>. DEFINE u == req[p].user
<1>1. /\ step[p] = "lookUp" /\ step' = [step EXCEPT ![p] = "verify"]
      /\ UNCHANGED <<now, tables, locks, req, reply, fresh, since, todo>>
      /\ IF u \in known
            THEN read' = [read EXCEPT ![p] = [hash |-> password[u], active |-> u \in active,
                                              born |-> resets[u]]]
            ELSE UNCHANGED read
  BY DEF LookUp, Goto
<1>2. /\ req[p] \in Requests /\ req[p].op = "login" /\ req'[p] = req[p]
      /\ step'[p] = "verify" /\ fresh'[p] = fresh[p] /\ since'[p] = since[p]
  BY <1>1 DEF Path, TypeOK
<1>3. u \in Users
  BY <1>2, RequestFields
<1>4. Keeps(p)
  BY <1>1 DEF TypeOK, Keeps, locks
<1>5. /\ read' \in [Procs -> [hash : Hashes, active : BOOLEAN, born : 0..MaxResets] \cup {None}]
      /\ \A q \in Procs : read'[q] # None =>
            \/ q = p /\ u \in known /\ read'[q].hash = password[u] /\ read'[q].born = resets[u]
            \/ read[q] # None /\ read'[q] = read[q]
  <2>1. CASE u \in known
    <3>1. [hash |-> password[u], active |-> u \in active, born |-> resets[u]]
             \in [hash : Hashes, active : BOOLEAN, born : 0..MaxResets]
      BY <1>3, <2>1 DEF TypeOK
    <3>2. /\ read'[p].hash = password[u] /\ read'[p].born = resets[u]
          /\ \A q \in Procs \ {p} : read'[q] = read[q]
      BY <1>1, <2>1 DEF TypeOK
    <3>3. read' \in [Procs -> [hash : Hashes, active : BOOLEAN, born : 0..MaxResets] \cup {None}]
      BY <1>1, <2>1, <3>1 DEF TypeOK
    <3>. QED BY <2>1, <3>2, <3>3
  <2>2. CASE u \notin known
    BY <1>1, <2>2 DEF TypeOK
  <2>. QED BY <2>1, <2>2
<1>6. TypeOK'
  BY <1>1, <1>5 DEF TypeOK, tables, locks
<1>7. Path(p)'
  BY <1>2 DEF Path
<1>8. Memory(p)'
  BY <1>1, <1>2, <1>5 DEF Memory, tables
<1>9. Held(p)'
  BY <1>1, <1>2 DEF Held, Mine, locks
<1>10. Spares(p) /\ SessionsAreCurrent' /\ RowsAreUsed'
  BY <1>1 DEF TypeOK, Spares, SessionsAreCurrent, RowsAreUsed, OpenOf, Open, Stored,
              tables, locks, Times
<1>11. FreshIsNew'
  <2>. SUFFICES ASSUME NEW q \in Procs, fresh[q] # None
                PROVE  \A x \in Procs : read'[x] # None => read'[x].hash.salt # fresh[q].salt
    BY <1>1 DEF FreshIsNew, tables
  <2>. QED BY <1>5 DEF FreshIsNew
<1>12. SnapshotsTell'
  BY <1>1, <1>5 DEF SnapshotsTell, tables
<1>. QED BY <1>4, <1>6, <1>7, <1>8, <1>9, <1>10, <1>11, <1>12, Assemble

\* A statement that writes nothing and remembers no hash; a lock may be taken.
LEMMA QuietStep ==
    ASSUME IInv, NEW p \in Procs, Keeps(p), UNCHANGED <<now, tables, req, reply, read, fresh, since>>,
           userLock' \in [Users -> Procs \cup {None}],
           sessionLock' \in [Ids -> Procs \cup {None}],
           step' \in [Procs -> Steps],
           todo' \in [Procs -> SUBSET Ids],
           \A s \in Ids : sessionLock'[s] # None => s \in Stored,
           Path(p)', Memory(p)', Held(p)'
    PROVE  IInv'
<1>. USE DEF IInv
<1>1. TypeOK'
  BY DEF TypeOK, Steps, tables
<1>2. /\ Spares(p) /\ FreshIsNew' /\ SnapshotsTell' /\ SessionsAreCurrent'
      /\ Stored' = Stored /\ used' = used
  BY Unwritten
<1>3. RowsAreUsed'
  BY <1>2 DEF RowsAreUsed
<1>. QED BY <1>1, <1>2, <1>3, Assemble

\* The comparison of the password with the snapshot.
LEMMA VerifyStep ==
    ASSUME IInv, NEW p \in Procs, Verify(p)
    PROVE  IInv'
<1>. USE DEF IInv
<1>1. CASE Refuse(p)
  BY <1>1, RefuseStep
<1>2. CASE ~ Refuse(p)
  <2>1. /\ step[p] = "verify" /\ read[p] # None /\ read[p].hash.secret = req[p].secret
        /\ step' \in {[step EXCEPT ![p] = "rehash"], [step EXCEPT ![p] = "lockUser"]}
        /\ UNCHANGED <<now, tables, locks, req, reply, memory>>
    BY <1>2 DEF Verify, Goto
  <2>2. step'[p] \in {"rehash", "lockUser"} /\ req[p].op = "login"
    BY <2>1 DEF TypeOK, Path
  <2>3. Keeps(p)
    BY <2>1 DEF TypeOK, Keeps, locks, memory
  <2>4. step' \in [Procs -> Steps]
    BY <2>1 DEF TypeOK, Steps
  <2>5. Path(p)'
    BY <2>1, <2>2 DEF Path, OfAccount
  <2>6. Memory(p)'
    BY <2>1, <2>2 DEF Memory, memory, tables
  <2>7. Held(p)'
    BY <2>1, <2>2 DEF Held, Mine, locks
  <2>. QED BY <2>1, <2>3, <2>4, <2>5, <2>6, <2>7, QuietStep
           DEF TypeOK, RowsAreUsed, locks, memory
<1>. QED BY <1>1, <1>2

\* The rehash of the password that has just been verified.
LEMMA RehashStep ==
    ASSUME IInv, NEW p \in Procs, Rehash(p)
    PROVE  IInv'
<1>. USE DEF IInv
<1>1. PICK n \in Salts :
        /\ step[p] = "rehash" /\ IsFresh(n)
        /\ fresh' = [fresh EXCEPT ![p] = [secret |-> req[p].secret, salt |-> n]]
        /\ step' = [step EXCEPT ![p] = "lockUser"]
        /\ UNCHANGED <<now, tables, locks, req, reply, read, since, todo>>
  BY DEF Rehash, Goto
<1>2. /\ req[p] \in Requests /\ req[p].op = "login" /\ req[p].secret \in Secrets
      /\ step'[p] = "lockUser"
  BY <1>1, RequestFields DEF Path, TypeOK
<1>3. /\ fresh' \in [Procs -> Hashes \cup {None}]
      /\ fresh'[p] # None /\ fresh'[p].secret = req[p].secret
  BY <1>1, <1>2, NoneIsNothing DEF TypeOK, Hashes
<1>4. TypeOK'
  BY <1>1, <1>3 DEF TypeOK, tables, locks
<1>5. Keeps(p)
  BY <1>1 DEF TypeOK, Keeps, locks
<1>6. Path(p)'
  BY <1>1, <1>2 DEF Path, OfAccount
<1>7. Memory(p)'
  BY <1>1, <1>2, <1>3 DEF Memory, tables
<1>8. Held(p)'
  BY <1>1, <1>2 DEF Held, Mine, locks
<1>9. Spares(p) /\ SessionsAreCurrent' /\ RowsAreUsed' /\ SnapshotsTell'
  BY <1>1 DEF TypeOK, Spares, SessionsAreCurrent, RowsAreUsed, SnapshotsTell,
              OpenOf, Open, Stored, tables, locks, Times
<1>10. FreshIsNew'
  BY <1>1, NewHash DEF tables
<1>. QED BY <1>4, <1>5, <1>6, <1>7, <1>8, <1>9, <1>10, Assemble

\* The lock of an account; for a login, on an account found unchanged.
LEMMA LockUserStep ==
    ASSUME IInv, NEW p \in Procs, LockUser(p)
    PROVE  IInv'
<1>. USE DEF IInv
<1>1. CASE Refuse(p)
  BY <1>1, RefuseStep
<1>2. CASE ~ Refuse(p)
  <2>. DEFINE r == req[p]
              next == IF r.op \in {"reset", "deactivate"} THEN "revoke" ELSE "commit"
  <2>1. /\ step[p] = "lockUser" /\ userLock[r.user] \in {None, p} /\ r.user \in known
        /\ r.op = "login" => r.user \in active /\ password[r.user] = read[p].hash
        /\ userLock' = [userLock EXCEPT ![r.user] = p]
        /\ step' = [step EXCEPT ![p] = next]
        /\ UNCHANGED <<now, tables, sessionLock, req, reply, memory>>
    BY <1>2 DEF LockUser, Granted, Take, Goto
  <2>2. r \in Requests /\ r.op \in OfAccount /\ r.user \in Users
    BY <2>1 DEF Path, TypeOK
  <2>3. step'[p] = next /\ userLock'[r.user] = p /\ req'[p] = r
    BY <2>1, <2>2 DEF TypeOK
  <2>4. Keeps(p)
    BY <2>1, <2>2, NoneIsNothing DEF TypeOK, Keeps, memory
  <2>5. Path(p)'
    BY <2>1, <2>2, <2>3 DEF Path
  <2>6. Memory(p)'
    BY <2>1, <2>2, <2>3 DEF Memory, memory, tables
  <2>7. Mine(p)' = {}
    BY <2>1 DEF Held, Mine
  <2>8. Held(p)'
    <3>1. /\ r.user \in known'
          /\ r.op = "login" => r.user \in active'
          /\ r.op = "login" => password'[r.user] = read'[p].hash
      BY <2>1 DEF tables, memory
    <3>. QED BY <2>2, <2>3, <2>7, <3>1 DEF Held, OfAccount
  <2>9. step' \in [Procs -> Steps] /\ userLock' \in [Users -> Procs \cup {None}]
    BY <2>1, <2>2 DEF TypeOK, Steps
  <2>. QED BY <2>1, <2>4, <2>5, <2>6, <2>8, <2>9, QuietStep DEF TypeOK, RowsAreUsed, memory
<1>. QED BY <1>1, <1>2

\* The snapshot of the account's unrevoked sessions; under the account's lock
\* no other can appear.
LEMMA RevokeStep ==
    ASSUME IInv, NEW p \in Procs, Revoke(p)
    PROVE  IInv'
<1>. USE DEF IInv
<1>. DEFINE r == req[p]
            next == IF OpenOf(r.user) = {} THEN "commit" ELSE "lockSessions"
<1>1. /\ step[p] = "revoke"
      /\ todo' = [todo EXCEPT ![p] = OpenOf(r.user)]
      /\ step' = [step EXCEPT ![p] = next]
      /\ UNCHANGED <<now, tables, locks, req, reply, read, fresh, since>>
  BY DEF Revoke, Goto
<1>2. r \in Requests /\ r.op \in {"reset", "deactivate"} /\ OpenOf(r.user) \subseteq Ids
  BY <1>1 DEF Path, OpenOf, Open, Stored
<1>3. /\ step'[p] = next /\ todo'[p] = OpenOf(r.user) /\ req'[p] = r
      /\ OpenOf(r.user)' = OpenOf(r.user) /\ Mine(p)' = Mine(p) /\ Mine(p) = {}
  <2>1. step'[p] = next /\ todo'[p] = OpenOf(r.user) /\ req'[p] = r
    BY <1>1 DEF TypeOK
  <2>2. OpenOf(r.user)' = OpenOf(r.user)
    BY <1>1 DEF OpenOf, Open, Stored, tables
  <2>3. Mine(p)' = Mine(p) /\ Mine(p) = {}
    BY <1>1 DEF Mine, Held, locks
  <2>. QED BY <2>1, <2>2, <2>3
<1>4. Keeps(p)
  BY <1>1 DEF TypeOK, Keeps, locks
<1>5. Path(p)'
  BY <1>2, <1>3 DEF Path
<1>6. Memory(p)'
  BY <1>1, <1>2, <1>3 DEF Memory, tables
<1>7. Held(p)'
  BY <1>1, <1>2, <1>3 DEF Held, OfAccount, locks, tables
<1>8. step' \in [Procs -> Steps] /\ todo' \in [Procs -> SUBSET Ids]
  BY <1>1, <1>2 DEF TypeOK, Steps
<1>. QED BY <1>1, <1>4, <1>5, <1>6, <1>7, <1>8, QuietStep DEF TypeOK, RowsAreUsed, locks

\* The lock of one session that is to be revoked.
LEMMA LockSessionStep ==
    ASSUME IInv, NEW p \in Procs, LockSession(p)
    PROVE  IInv'
<1>. USE DEF IInv
<1>. DEFINE r == req[p]
<1>1. PICK s \in todo[p] :
        /\ step[p] = "lockSessions" /\ sessionLock[s] \in {None, p}
        /\ sessionLock' = IF s \in (IF r.op = "logout" THEN Stored ELSE Open)
                            THEN [sessionLock EXCEPT ![s] = p] ELSE sessionLock
        /\ todo' = [todo EXCEPT ![p] = @ \ {s}]
        /\ step' = [step EXCEPT ![p] = IF todo[p] = {s} THEN "commit" ELSE "lockSessions"]
        /\ UNCHANGED <<now, tables, userLock, req, reply, read, fresh, since>>
  BY DEF LockSession, Granted, Take, Goto
<1>2. s \in Ids /\ r \in Requests /\ r.op \in {"logout", "reset", "deactivate"}
  BY <1>1 DEF Path, TypeOK
<1>3. /\ step'[p] \in {"commit", "lockSessions"}
      /\ step'[p] = "commit" => todo[p] = {s}
      /\ todo'[p] = todo[p] \ {s} /\ req'[p] = r
  BY <1>1 DEF TypeOK
<1>4. /\ sessionLock' \in [Ids -> Procs \cup {None}]
      /\ \A t \in Ids : sessionLock'[t] # None => t \in Stored
      /\ \A q \in Procs \ {p}, t \in Ids : sessionLock[t] = q <=> sessionLock'[t] = q
      /\ s \in Open => Mine(p)' = Mine(p) \cup {s}
      /\ Mine(p) \subseteq Mine(p)'
  <2>1. CASE sessionLock' = sessionLock /\ s \notin (IF r.op = "logout" THEN Stored ELSE Open)
    BY <1>2, <2>1 DEF TypeOK, RowsAreUsed, Mine, Open
  <2>2. CASE sessionLock' = [sessionLock EXCEPT ![s] = p] /\ s \in Stored
    BY <1>1, <1>2, <2>2, NoneIsNothing DEF TypeOK, RowsAreUsed, Mine
  <2>. QED BY <1>1, <2>1, <2>2 DEF Open
<1>5. Keeps(p)
  BY <1>1, <1>4 DEF TypeOK, Keeps
<1>6. Path(p)'
  BY <1>2, <1>3 DEF Path
<1>7. Memory(p)'
  BY <1>1, <1>2, <1>3 DEF Memory, tables
<1>8. r.op \in {"reset", "deactivate"} => OpenOf(r.user)' \subseteq todo'[p] \cup Mine(p)'
  <2>1. OpenOf(r.user)' = OpenOf(r.user) /\ OpenOf(r.user) \subseteq Open
    BY <1>1 DEF OpenOf, Open, Stored, tables
  <2>. QED BY <1>1, <1>3, <1>4, <2>1 DEF Held
<1>9. Held(p)'
  BY <1>1, <1>2, <1>3, <1>8 DEF Held, OfAccount, tables
<1>10. step' \in [Procs -> Steps] /\ todo' \in [Procs -> SUBSET Ids]
  BY <1>1 DEF TypeOK, Steps
<1>. QED BY <1>1, <1>4, <1>5, <1>6, <1>7, <1>9, <1>10, QuietStep DEF TypeOK

\* A batch of the cleanup.
LEMMA SweepStep ==
    ASSUME IInv, NEW p \in Procs, Sweep(p)
    PROVE  IInv'
<1>. USE DEF IInv
<1>1. PICK S \in SUBSET {s \in Eligible(p) : sessionLock[s] = None} :
        /\ sessionLock' = [s \in Ids |-> IF s \in S THEN p ELSE sessionLock[s]]
        /\ step[p] = "sweep" /\ step' = [step EXCEPT ![p] = "commit"]
        /\ UNCHANGED <<now, tables, userLock, req, reply, memory>>
  BY DEF Sweep, Goto
<1>2. req[p] \in Requests /\ req[p].op = "cleanup" /\ req'[p] = req[p] /\ step'[p] = "commit"
  BY <1>1 DEF Path, TypeOK
<1>3. /\ S \subseteq Eligible(p) /\ S \subseteq Stored /\ Mine(p) = {}
      /\ \A s \in S : sessionLock[s] = None
  BY <1>1 DEF Eligible, Held
<1>4. /\ sessionLock' \in [Ids -> Procs \cup {None}]
      /\ \A s \in Ids : sessionLock'[s] # None => s \in Stored
      /\ \A q \in Procs \ {p}, s \in Ids : sessionLock[s] = q <=> sessionLock'[s] = q
      /\ Mine(p)' = S
  BY <1>1, <1>3, NoneIsNothing DEF TypeOK, RowsAreUsed, Mine, Stored
<1>5. Keeps(p)
  BY <1>1, <1>4 DEF TypeOK, Keeps, memory
<1>6. Path(p)'
  BY <1>2 DEF Path
<1>7. Memory(p)'
  BY <1>1, <1>2 DEF Memory, tables, memory
<1>8. Eligible(p)' = Eligible(p)
  BY <1>1 DEF Eligible, Cutoff, Stored, tables, memory
<1>9. Held(p)'
  BY <1>2, <1>3, <1>4, <1>8 DEF Held, OfAccount
<1>10. step' \in [Procs -> Steps]
  BY <1>1 DEF TypeOK, Steps
<1>. QED BY <1>1, <1>4, <1>5, <1>6, <1>7, <1>9, <1>10, QuietStep DEF TypeOK, memory

-----------------------------------------------------------------------------
(* Commits.                                                                *)

\* The last statement of a unit of work that writes: a hash that is stored now
\* is the one it computed, so no login has read it.
LEMMA CommitStep ==
    ASSUME IInv, NEW p \in Procs, Finish(p), Answer(p, "ok"),
           known \subseteq known', known' \subseteq Users, active' \subseteq known',
           password' \in [Users -> Hashes \cup {None}],
           \A u \in Users : password'[u] = None <=> u \notin known',
           resets' \in [Users -> 0..MaxResets],
           session' \in [Ids -> Rows \cup {None}], used' \subseteq Ids,
           \A u \in known' :
                \/ u \in known /\ password'[u] = password[u] /\ resets'[u] = resets[u]
                \/ fresh[p] # None /\ password'[u] = fresh[p],
           \A u \in known : userLock[u] \in Procs \ {p} =>
                /\ password'[u] = password[u]
                /\ u \in active' <=> u \in active
                /\ OpenOf(u)' \subseteq OpenOf(u),
           \A s \in Ids : sessionLock[s] \in Procs \ {p} => session'[s] = session[s],
           Stored' \subseteq used', SessionsAreCurrent'
    PROVE  IInv'
<1>. USE DEF IInv
<1>1. TypeOK'
  BY FinishTypes
<1>2. /\ Keeps(p) /\ Path(p)' /\ Memory(p)' /\ Held(p)'
      /\ step'[p] = "idle" /\ read'[p] = None /\ fresh'[p] = None
      /\ \A s \in Ids : sessionLock'[s] \in {sessionLock[s], None} /\ sessionLock'[s] # p
  BY FinishKeeps
<1>3. \A q \in Procs : /\ read'[q] # None => q # p /\ read'[q] = read[q] /\ req'[q] = req[q]
                       /\ fresh'[q] # None => q # p /\ fresh'[q] = fresh[q]
  BY <1>2 DEF Keeps
<1>4. Spares(p)
  BY DEF Spares, Finish, TypeOK, Times
<1>5. FreshIsNew'
  BY <1>3 DEF FreshIsNew
<1>6. SnapshotsTell'
  <2>. SUFFICES ASSUME NEW q \in Procs, read'[q] # None,
                       password'[req'[q].user] = read'[q].hash
                PROVE  read'[q].born = resets'[req'[q].user]
    BY DEF SnapshotsTell
  <2>1. /\ q # p /\ read[q] # None /\ read'[q] = read[q] /\ req'[q] = req[q]
        /\ req[q].user \in known
    BY <1>3 DEF Memory
  <2>2. ~ (fresh[p] # None /\ password'[req[q].user] = fresh[p])
    BY <2>1 DEF FreshIsNew
  <2>. QED BY <2>1, <2>2 DEF SnapshotsTell
<1>7. RowsAreUsed'
  <2>. SUFFICES ASSUME NEW s \in Ids, sessionLock'[s] # None
                PROVE  s \in Stored'
    BY DEF RowsAreUsed
  <2>1. sessionLock[s] \in Procs \ {p} /\ s \in Stored
    BY <1>2 DEF RowsAreUsed, TypeOK
  <2>. QED BY <2>1 DEF Stored
<1>. QED BY <1>1, <1>2, <1>4, <1>5, <1>6, <1>7, Assemble

\* The rows of a revocation: those p has locked are closed, nothing is opened.
LEMMA RevokedRows ==
    ASSUME IInv, NEW p \in Procs, session' = Revoked(p)
    PROVE  /\ session' \in [Ids -> Rows \cup {None}]
           /\ Stored' = Stored /\ Open' = Open \ Mine(p)
           /\ \A s \in Ids \ Mine(p) : session'[s] = session[s]
<1>. USE DEF IInv
<1>1. Mine(p) \subseteq Stored
  BY NoneIsNothing DEF Mine, RowsAreUsed
<1>2. \A s \in Ids \ Mine(p) : session'[s] = session[s]
  BY DEF Revoked
<1>3. ASSUME NEW s \in Mine(p)
      PROVE  session'[s] \in Rows /\ session'[s].revoked # Never /\ session'[s] # None
  <2>1. session[s] \in Rows /\ since[p] \in Times /\ since[p] # Never
    BY <1>1 DEF Stored, TypeOK, Times, Never
  <2>2. s \in Ids /\ session'[s] = [session[s] EXCEPT !.revoked = since[p]]
    BY DEF Revoked, Mine
  <2>3. session'[s] = [user |-> session[s].user, expires |-> session[s].expires,
                       revoked |-> since[p], born |-> session[s].born]
    BY <2>1, <2>2 DEF Rows
  <2>4. session'[s] \in Rows /\ session'[s].revoked # Never
    BY <2>1, <2>3 DEF Rows
  <2>. QED BY <2>4, NoneIsNothing
<1>4. session' \in [Ids -> Rows \cup {None}]
  <2>1. \A s \in Ids : session'[s] \in Rows \cup {None}
    BY <1>2, <1>3 DEF TypeOK
  <2>. QED BY <2>1 DEF Revoked
<1>5. Stored' = Stored
  BY <1>1, <1>2, <1>3 DEF Stored
<1>6. Open' = Open \ Mine(p)
  BY <1>2, <1>3, <1>5 DEF Open, Stored
<1>. QED BY <1>2, <1>4, <1>5, <1>6

\* A login opens a session of the account it has locked, which still has the
\* password it has verified.
LEMMA LoginStep ==
    ASSUME IInv, NEW p \in Procs, CommitLogin(p)
    PROVE  IInv'
<1>. USE DEF IInv
<1>. DEFINE r == req[p]
<1>1. CASE Refuse(p)
  BY <1>1, RefuseStep
<1>2. CASE ~ Refuse(p)
  <2>. DEFINE row == [user |-> r.user, expires |-> now + TTL, revoked |-> Never,
                      born |-> read[p].born]
  <2>1. PICK s \in Ids \ used :
          /\ used' = used \cup {s} /\ session' = [session EXCEPT ![s] = row]
          /\ password' = IF fresh[p] = None THEN password
                           ELSE [password EXCEPT ![r.user] = fresh[p]]
    BY <1>2 DEF CommitLogin
  <2>2. /\ step[p] = "commit" /\ r.op = "login" /\ Finish(p) /\ Answer(p, "ok")
        /\ UNCHANGED <<known, active, resets>>
    BY <1>2 DEF CommitLogin
  <2>3. /\ r \in Requests /\ r.user \in Users
        /\ userLock[r.user] = p /\ r.user \in known /\ r.user \in active
        /\ read[p] # None /\ password[r.user] = read[p].hash
        /\ read[p].born = resets[r.user]
    <3>1. r \in Requests
      BY <2>2 DEF Path
    <3>2. /\ userLock[r.user] = p /\ r.user \in known /\ r.user \in active
          /\ read[p] # None /\ password[r.user] = read[p].hash
      BY <2>2 DEF Held, Memory, OfAccount
    <3>. QED BY <2>2, <3>1, <3>2, RequestFields DEF SnapshotsTell
  <2>4. row \in Rows /\ row # None
    <3>1. row.expires \in 0..(MaxTime + TTL)
      BY BoundsAreNatural DEF TypeOK, Times
    <3>2. row.born \in 0..MaxResets
      BY <2>3 DEF TypeOK
    <3>3. row \in Rows
      BY <2>3, <3>1, <3>2 DEF Rows
    <3>. QED BY <3>3, NoneIsNothing
  <2>5. /\ Stored' = Stored \cup {s} /\ Open' = Open \cup {s} /\ s \notin Stored
        /\ session'[s] = row /\ \A t \in Ids \ {s} : session'[t] = session[t]
        /\ session' \in [Ids -> Rows \cup {None}]
    <3>1. /\ session'[s] = row /\ \A t \in Ids \ {s} : session'[t] = session[t]
          /\ session' \in [Ids -> Rows \cup {None}]
      BY <2>1, <2>4 DEF TypeOK
    <3>2. s \notin Stored
      BY <2>1 DEF RowsAreUsed
    <3>. QED BY <2>4, <3>1, <3>2 DEF Stored, Open
  <2>6. /\ password' \in [Users -> Hashes \cup {None}]
        /\ \A u \in Users : password'[u] = None <=> u \notin known'
        /\ \A u \in known' : \/ u \in known /\ password'[u] = password[u] /\ resets'[u] = resets[u]
                             \/ fresh[p] # None /\ password'[u] = fresh[p]
        /\ \A u \in Users \ {r.user} : password'[u] = password[u]
    BY <2>1, <2>2, <2>3 DEF TypeOK
  <2>7. \A u \in known : userLock[u] \in Procs \ {p} =>
            /\ password'[u] = password[u]
            /\ u \in active' <=> u \in active
            /\ OpenOf(u)' \subseteq OpenOf(u)
    <3>. SUFFICES ASSUME NEW u \in known, userLock[u] \in Procs \ {p}
                  PROVE  /\ password'[u] = password[u]
                         /\ u \in active' <=> u \in active
                         /\ OpenOf(u)' \subseteq OpenOf(u)
      OBVIOUS
    <3>1. u # r.user /\ u \in Users
      BY <2>3 DEF TypeOK
    <3>2. OpenOf(u)' \subseteq OpenOf(u)
      BY <2>4, <2>5, <3>1 DEF OpenOf, Open, Stored
    <3>. QED BY <2>2, <2>6, <3>1, <3>2
  <2>8. \A t \in Ids : sessionLock[t] \in Procs \ {p} => session'[t] = session[t]
    BY <2>5, NoneIsNothing DEF RowsAreUsed
  <2>9. SessionsAreCurrent'
    BY <2>2, <2>3, <2>5 DEF SessionsAreCurrent, Open, Stored
  <2>10. Stored' \subseteq used'
    BY <2>1, <2>5 DEF RowsAreUsed
  <2>11. /\ known \subseteq known' /\ known' \subseteq Users /\ active' \subseteq known'
         /\ resets' \in [Users -> 0..MaxResets] /\ used' \subseteq Ids
    BY <2>1, <2>2 DEF TypeOK
  <2>. QED BY <2>2, <2>5, <2>6, <2>7, <2>8, <2>9, <2>10, <2>11, CommitStep
<1>. QED BY <1>1, <1>2

\* A logout.
LEMMA LogoutStep ==
    ASSUME IInv, NEW p \in Procs, CommitLogout(p)
    PROVE  IInv'
<1>. USE DEF IInv
<1>1. /\ session' = Revoked(p) /\ Finish(p) /\ Answer(p, "ok")
      /\ UNCHANGED <<known, active, password, resets, used>>
  BY DEF CommitLogout
<1>2. /\ session' \in [Ids -> Rows \cup {None}]
      /\ Stored' = Stored /\ Open' = Open \ Mine(p)
      /\ \A s \in Ids \ Mine(p) : session'[s] = session[s]
  BY <1>1, RevokedRows
<1>3. \A u : OpenOf(u)' \subseteq OpenOf(u)
  BY <1>2 DEF OpenOf, Open, Stored
<1>4. \A s \in Ids : sessionLock[s] \in Procs \ {p} => session'[s] = session[s]
  BY <1>2 DEF Mine
<1>5. SessionsAreCurrent'
  BY <1>1, <1>2 DEF SessionsAreCurrent, Open, Stored
<1>. QED BY <1>1, <1>2, <1>3, <1>4, <1>5, CommitStep DEF TypeOK, RowsAreUsed

\* A reset stores a hash of its own and revokes every open session of the
\* account it has locked.
LEMMA ResetStep ==
    ASSUME IInv, NEW p \in Procs, CommitReset(p)
    PROVE  IInv'
<1>. USE DEF IInv
<1>. DEFINE u == req[p].user
<1>1. CASE Refuse(p)
  BY <1>1, RefuseStep
<1>2. CASE ~ Refuse(p)
  <2>1. /\ step[p] = "commit" /\ req[p].op = "reset" /\ resets[u] # MaxResets
        /\ password' = [password EXCEPT ![u] = fresh[p]]
        /\ resets' = [resets EXCEPT ![u] = @ + 1]
        /\ session' = Revoked(p) /\ Finish(p) /\ Answer(p, "ok")
        /\ UNCHANGED <<known, active, used>>
    BY <1>2 DEF CommitReset
  <2>2. /\ u \in Users /\ userLock[u] = p /\ u \in known /\ fresh[p] # None
        /\ OpenOf(u) \subseteq Mine(p)
    <3>1. req[p] \in Requests
      BY <2>1 DEF Path
    <3>. QED BY <2>1, <3>1, RequestFields DEF Held, Memory, OfAccount
  <2>3. /\ session' \in [Ids -> Rows \cup {None}]
        /\ Stored' = Stored /\ Open' = Open \ Mine(p)
        /\ \A s \in Ids \ Mine(p) : session'[s] = session[s]
    BY <2>1, RevokedRows
  <2>4. /\ password' \in [Users -> Hashes \cup {None}]
        /\ \A v \in Users : password'[v] = None <=> v \notin known'
        /\ password'[u] = fresh[p]
        /\ \A v \in Users \ {u} : password'[v] = password[v] /\ resets'[v] = resets[v]
    BY <2>1, <2>2 DEF TypeOK
  <2>5. resets' \in [Users -> 0..MaxResets]
    <3>1. resets[u] \in 0..MaxResets /\ resets[u] # MaxResets
      BY <2>1, <2>2 DEF TypeOK
    <3>. HIDE DEF u
    <3>2. resets[u] + 1 \in 0..MaxResets
      BY <3>1, BoundsAreNatural
    <3>. QED BY <2>1, <3>2 DEF TypeOK
  <2>6. \A v \in known : userLock[v] \in Procs \ {p} =>
            /\ password'[v] = password[v]
            /\ v \in active' <=> v \in active
            /\ OpenOf(v)' \subseteq OpenOf(v)
    <3>1. \A v : OpenOf(v)' \subseteq OpenOf(v)
      BY <2>3 DEF OpenOf, Open, Stored
    <3>. QED BY <2>1, <2>2, <2>4, <3>1 DEF TypeOK
  <2>7. \A s \in Ids : sessionLock[s] \in Procs \ {p} => session'[s] = session[s]
    BY <2>3 DEF Mine
  <2>8. SessionsAreCurrent'
    <3>. SUFFICES ASSUME NEW s \in Open'
                  PROVE  session'[s].user \in active' /\ session'[s].born = resets'[session'[s].user]
      BY DEF SessionsAreCurrent
    <3>1. s \in Open /\ s \notin Mine(p) /\ session'[s] = session[s]
      BY <2>3 DEF Open, Stored
    <3>2. session[s].user # u
      BY <2>2, <3>1 DEF OpenOf
    <3>. QED BY <2>1, <2>4, <3>1, <3>2 DEF SessionsAreCurrent, TypeOK
  <2>9. \A v \in known' :
            \/ v \in known /\ password'[v] = password[v] /\ resets'[v] = resets[v]
            \/ fresh[p] # None /\ password'[v] = fresh[p]
    BY <2>1, <2>2, <2>4 DEF TypeOK
  <2>. QED BY <2>1, <2>3, <2>4, <2>5, <2>6, <2>7, <2>8, <2>9, CommitStep DEF TypeOK, RowsAreUsed
<1>. QED BY <1>1, <1>2

\* A deactivation revokes as a reset does; an activation opens nothing.
LEMMA StatusStep ==
    ASSUME IInv, NEW p \in Procs, CommitStatus(p)
    PROVE  IInv'
<1>. USE DEF IInv
<1>. DEFINE r == req[p]
<1>1. /\ step[p] = "commit" /\ r.op \in {"activate", "deactivate"}
      /\ active' = IF r.op = "activate" THEN active \cup {r.user} ELSE active \ {r.user}
      /\ session' = Revoked(p) /\ Finish(p) /\ Answer(p, "ok")
      /\ UNCHANGED <<known, password, resets, used>>
  BY DEF CommitStatus
<1>2. /\ r.user \in Users /\ userLock[r.user] = p /\ r.user \in known
      /\ r.op = "deactivate" => OpenOf(r.user) \subseteq Mine(p)
  <2>1. r \in Requests
    BY <1>1 DEF Path
  <2>. QED BY <1>1, <2>1, RequestFields DEF Held, OfAccount
<1>3. /\ session' \in [Ids -> Rows \cup {None}]
      /\ Stored' = Stored /\ Open' = Open \ Mine(p)
      /\ \A s \in Ids \ Mine(p) : session'[s] = session[s]
  BY <1>1, RevokedRows
<1>4. active' \subseteq known' /\ \A u \in known \ {r.user} : u \in active' <=> u \in active
  BY <1>1, <1>2 DEF TypeOK
<1>5. \A u \in known : userLock[u] \in Procs \ {p} =>
          /\ password'[u] = password[u]
          /\ u \in active' <=> u \in active
          /\ OpenOf(u)' \subseteq OpenOf(u)
  <2>1. \A u : OpenOf(u)' \subseteq OpenOf(u)
    BY <1>3 DEF OpenOf, Open, Stored
  <2>. QED BY <1>1, <1>2, <1>4, <2>1
<1>6. \A s \in Ids : sessionLock[s] \in Procs \ {p} => session'[s] = session[s]
  BY <1>3 DEF Mine
<1>7. SessionsAreCurrent'
  <2>. SUFFICES ASSUME NEW s \in Open'
                PROVE  session'[s].user \in active' /\ session'[s].born = resets'[session'[s].user]
    BY DEF SessionsAreCurrent
  <2>1. s \in Open /\ s \notin Mine(p) /\ session'[s] = session[s]
    BY <1>3 DEF Open, Stored
  <2>2. r.op = "deactivate" => session[s].user # r.user
    BY <1>2, <2>1 DEF OpenOf
  <2>. QED BY <1>1, <2>1, <2>2 DEF SessionsAreCurrent
<1>8. \A u \in known' : u \in known /\ password'[u] = password[u] /\ resets'[u] = resets[u]
  BY <1>1
<1>. QED BY <1>1, <1>3, <1>4, <1>5, <1>6, <1>7, <1>8, CommitStep DEF TypeOK, RowsAreUsed

\* A new account gets the hash that was computed for it.
LEMMA ProvisionStep ==
    ASSUME IInv, NEW p \in Procs, CommitProvision(p)
    PROVE  IInv'
<1>. USE DEF IInv
<1>. DEFINE u == req[p].user
<1>1. CASE Refuse(p)
  BY <1>1, RefuseStep
<1>2. CASE ~ Refuse(p)
  <2>1. /\ step[p] = "commit" /\ req[p].op = "provision" /\ u \notin known
        /\ known' = known \cup {u} /\ active' = active \cup {u}
        /\ password' = [password EXCEPT ![u] = fresh[p]] /\ Finish(p) /\ Answer(p, "ok")
        /\ UNCHANGED <<resets, session, used>>
    BY <1>2 DEF CommitProvision
  <2>2. u \in Users /\ fresh[p] # None
    <3>1. req[p] \in Requests
      BY <2>1 DEF Path
    <3>. QED BY <2>1, <3>1, RequestFields DEF Memory
  <2>3. /\ password' \in [Users -> Hashes \cup {None}]
        /\ \A v \in Users : password'[v] = None <=> v \notin known'
        /\ password'[u] = fresh[p]
        /\ \A v \in Users \ {u} : password'[v] = password[v]
    BY <2>1, <2>2 DEF TypeOK
  <2>4. Stored' = Stored /\ \A v : OpenOf(v)' = OpenOf(v)
    BY <2>1 DEF OpenOf, Open, Stored
  <2>5. \A v \in known' :
            \/ v \in known /\ password'[v] = password[v] /\ resets'[v] = resets[v]
            \/ fresh[p] # None /\ password'[v] = fresh[p]
    BY <2>1, <2>2, <2>3 DEF TypeOK
  <2>6. \A v \in known : userLock[v] \in Procs \ {p} =>
            /\ password'[v] = password[v]
            /\ v \in active' <=> v \in active
            /\ OpenOf(v)' \subseteq OpenOf(v)
    BY <2>1, <2>3, <2>4 DEF TypeOK
  <2>7. SessionsAreCurrent'
    BY <2>1 DEF SessionsAreCurrent, Open, Stored
  <2>8. known' \subseteq Users /\ active' \subseteq known'
    BY <2>1, <2>2 DEF TypeOK
  <2>. QED BY <2>1, <2>3, <2>4, <2>5, <2>6, <2>7, <2>8, CommitStep DEF TypeOK, RowsAreUsed
<1>. QED BY <1>1, <1>2

\* The rows of a batch: every locked row is deleted, and no other.
LEMMA SweptRows ==
    ASSUME IInv, NEW p \in Procs,
           session' = [s \in Ids |-> IF s \in Mine(p) THEN None ELSE session[s]]
    PROVE  /\ session' \in [Ids -> Rows \cup {None}]
           /\ Stored' = Stored \ Mine(p) /\ Open' = Open \ Mine(p)
           /\ \A s \in Ids \ Mine(p) : session'[s] = session[s]
BY DEF IInv, TypeOK, Stored, Open

\* The DELETE of a batch, and the next one or the end.
LEMMA CommitSweepStep ==
    ASSUME IInv, NEW p \in Procs, CommitSweep(p)
    PROVE  IInv'
<1>. USE DEF IInv
<1>1. /\ step[p] = "commit" /\ req[p].op = "cleanup" /\ req[p] \in Requests
      /\ session' = [s \in Ids |-> IF s \in Mine(p) THEN None ELSE session[s]]
      /\ UNCHANGED <<known, active, password, resets, used>>
      /\ \/ Finish(p) /\ Answer(p, "ok")
         \/ /\ sessionLock' = Release(sessionLock, p)
            /\ step' = [step EXCEPT ![p] = "sweep"]
            /\ UNCHANGED <<now, userLock, req, reply, memory>>
  BY DEF CommitSweep, Goto, Path
<1>2. /\ session' \in [Ids -> Rows \cup {None}]
      /\ Stored' = Stored \ Mine(p) /\ Open' = Open \ Mine(p)
      /\ \A s \in Ids \ Mine(p) : session'[s] = session[s]
  BY <1>1, SweptRows
<1>3. \A u : OpenOf(u)' \subseteq OpenOf(u)
  BY <1>2 DEF OpenOf, Open, Stored
<1>4. \A s \in Ids : sessionLock[s] \in Procs \ {p} => session'[s] = session[s]
  BY <1>2 DEF Mine
<1>5. SessionsAreCurrent'
  BY <1>1, <1>2 DEF SessionsAreCurrent, Open, Stored
<1>6. CASE Finish(p) /\ Answer(p, "ok")
  BY <1>1, <1>2, <1>3, <1>4, <1>5, <1>6, CommitStep DEF TypeOK, RowsAreUsed
<1>7. CASE /\ sessionLock' = Release(sessionLock, p)
           /\ step' = [step EXCEPT ![p] = "sweep"]
           /\ UNCHANGED <<now, userLock, req, reply, memory>>
  <2>1. /\ sessionLock' \in [Ids -> Procs \cup {None}]
        /\ \A s \in Ids : sessionLock'[s] # p
        /\ \A s \in Ids : sessionLock'[s] # None => sessionLock'[s] = sessionLock[s]
        /\ \A q \in Procs \ {p}, s \in Ids : sessionLock[s] = q <=> sessionLock'[s] = q
    BY <1>7, NoneIsNothing DEF TypeOK, Release
  <2>2. Keeps(p)
    BY <1>7, <2>1 DEF TypeOK, Keeps, memory
  <2>3. Spares(p)
    BY <1>1, <1>3, <1>4, <1>7 DEF TypeOK, Spares, Times
  <2>4. TypeOK'
    BY <1>1, <1>2, <1>7, <2>1 DEF TypeOK, memory
  <2>5. step'[p] = "sweep" /\ Mine(p)' = {}
    BY <1>7, <2>1 DEF TypeOK, Mine
  <2>6. Path(p)' /\ Memory(p)' /\ Held(p)'
    BY <1>1, <1>7, <2>5 DEF Path, Memory, Held, memory
  <2>7. FreshIsNew' /\ SnapshotsTell'
    BY <1>1, <1>7 DEF FreshIsNew, SnapshotsTell, memory
  <2>8. RowsAreUsed'
    <3>1. \A s \in Ids : sessionLock'[s] # None => s \in Stored'
      BY <1>2, <2>1 DEF RowsAreUsed, Mine
    <3>. QED BY <1>1, <1>2, <3>1 DEF RowsAreUsed
  <2>. QED BY <1>5, <2>2, <2>3, <2>4, <2>6, <2>7, <2>8, Assemble
<1>. QED BY <1>1, <1>6, <1>7

-----------------------------------------------------------------------------
(* The invariant, and what follows from it.                                *)

\* It holds in the database an older release has left.
LEMMA InitIInv == Init => IInv
<1>. SUFFICES ASSUME Init
              PROVE  IInv
  OBVIOUS
<1>. USE DEF Init
<1>1. TypeOK
  <2>1. now \in Times /\ \A p \in Procs : since[p] \in Times
    BY BoundsAreNatural DEF Times
  <2>2. /\ password \in [Users -> Hashes \cup {None}]
        /\ \A u \in Users : password[u] = None <=> u \notin known
    BY NoneIsNothing DEF Hashes
  <2>3. resets \in [Users -> 0..MaxResets]
    BY BoundsAreNatural
  <2>. QED BY <2>1, <2>2, <2>3 DEF TypeOK
<1>2. \A p \in Procs : Path(p) /\ Memory(p)
  BY DEF Path, Memory
<1>3. \A p \in Procs : Held(p)
  BY NoneIsNothing DEF Held, Mine
<1>4. FreshIsNew /\ SnapshotsTell
  BY DEF FreshIsNew, SnapshotsTell
<1>5. RowsAreUsed /\ SessionsAreCurrent
  BY DEF RowsAreUsed, SessionsAreCurrent, Open, Stored
<1>. QED BY <1>1, <1>2, <1>3, <1>4, <1>5 DEF IInv

\* Every step preserves it.
LEMMA Inductive == IInv /\ [Next]_vars => IInv'
<1>. SUFFICES ASSUME IInv, [Next]_vars
              PROVE  IInv'
  OBVIOUS
<1>1. CASE Tick
  BY <1>1, TickStep
<1>2. ASSUME NEW p \in Procs, Begin(p)
      PROVE  IInv'
  BY <1>2, BeginStep
<1>3. ASSUME NEW p \in Procs, Step(p)
      PROVE  IInv'
  BY <1>3, LookUpStep, VerifyStep, RehashStep, LockUserStep, RevokeStep, LockSessionStep,
     SweepStep, LoginStep, LogoutStep, ResetStep, StatusStep, ProvisionStep, CommitSweepStep
     DEF Step, Commit
<1>4. ASSUME NEW p \in Procs, LockTimeout(p) \/ Abort(p)
      PROVE  IInv'
  BY <1>4, RefuseStep DEF LockTimeout, Abort
<1>5. CASE UNCHANGED vars
  <2>1. UNCHANGED <<now, known, active, password, resets, session, used, userLock, sessionLock,
                    req, step, reply, read, fresh, since, todo>>
    BY <1>5 DEF vars, tables, locks, local, memory
  <2>2. TypeOK'
    BY <2>1 DEF IInv, TypeOK
  <2>3. \A p \in Procs : Path(p)' /\ Memory(p)'
    BY <2>1 DEF IInv, Path, Memory
  <2>4. \A p \in Procs : Held(p)'
    BY <2>1 DEF IInv, Held, OpenOf, Open, Stored, Mine, Eligible, Cutoff
  <2>5. FreshIsNew' /\ SnapshotsTell' /\ RowsAreUsed' /\ SessionsAreCurrent'
    BY <2>1 DEF IInv, FreshIsNew, SnapshotsTell, RowsAreUsed, SessionsAreCurrent, Open, Stored
  <2>. QED BY <2>2, <2>3, <2>4, <2>5 DEF IInv
<1>. QED BY <1>1, <1>2, <1>3, <1>4, <1>5 DEF Next

\* So it holds in every reachable state.
LEMMA Invariant == Spec => []IInv
BY InitIInv, Inductive, PTL DEF Spec

\* Every variable keeps its type; in particular an account always has a hash.
THEOREM TypeCorrect == Spec => []TypeOK
<1>1. IInv => TypeOK
  BY DEF IInv
<1>. QED BY <1>1, Invariant, PTL

\* No login, however it overlaps the resets and deactivations of its account,
\* leaves an unrevoked session of an inactive account or of an old password.
THEOREM Current == Spec => []SessionsAreCurrent
<1>1. IInv => SessionsAreCurrent
  BY DEF IInv
<1>. QED BY <1>1, Invariant, PTL

\* What a step can do to a row: delete it, or close it; the clock only advances.
LEMMA RowsOnlyEnd ==
    ASSUME IInv, Next, NEW s \in Stored, session'[s] # None
    PROVE  /\ now <= now' /\ session'[s].expires = session[s].expires
           /\ session[s].revoked # Never => session'[s].revoked # Never
<1>. USE DEF IInv
<1>1. s \in Ids /\ session[s] # None /\ session[s] \in Rows /\ now \in Times
  BY DEF Stored, TypeOK
<1>2. CASE Tick
  BY <1>1, <1>2 DEF Tick, tables, Times
<1>3. ASSUME UNCHANGED <<now, tables>>
      PROVE  now <= now' /\ session'[s] = session[s]
  BY <1>1, <1>3 DEF tables, Times
<1>4. ASSUME NEW p \in Procs, Finish(p)
      PROVE  now <= now'
  BY <1>1, <1>4 DEF Finish, Times
<1>5. ASSUME NEW p \in Procs, session' = Revoked(p)
      PROVE  /\ session'[s].expires = session[s].expires
             /\ session[s].revoked # Never => session'[s].revoked # Never
  <2>1. since[p] # Never
    BY DEF TypeOK, Times, Never
  <2>2. session'[s] \in {session[s], [session[s] EXCEPT !.revoked = since[p]]}
    BY <1>1, <1>5 DEF Revoked
  <2>3. [session[s] EXCEPT !.revoked = since[p]] =
            [user |-> session[s].user, expires |-> session[s].expires,
             revoked |-> since[p], born |-> session[s].born]
    BY <1>1 DEF Rows
  <2>. QED BY <2>1, <2>2, <2>3
<1>6. ASSUME NEW p \in Procs, CommitLogin(p)
      PROVE  now <= now' /\ session'[s] = session[s]
  <2>1. CASE Refuse(p)
    BY <2>1, <1>3 DEF Refuse, Finish
  <2>2. CASE ~ Refuse(p)
    <3>1. PICK t \in Ids \ used : \E row : session' = [session EXCEPT ![t] = row]
      BY <1>6, <2>2 DEF CommitLogin
    <3>2. Finish(p) /\ t # s
      BY <1>6, <2>2, <3>1 DEF CommitLogin, RowsAreUsed
    <3>. QED BY <1>1, <1>4, <3>1, <3>2 DEF TypeOK
  <2>. QED BY <2>1, <2>2
<1>7. ASSUME NEW p \in Procs, CommitLogout(p) \/ CommitReset(p) \/ CommitStatus(p)
      PROVE  /\ now <= now' /\ session'[s].expires = session[s].expires
             /\ session[s].revoked # Never => session'[s].revoked # Never
  <2>1. Refuse(p) \/ (Finish(p) /\ session' = Revoked(p))
    BY <1>7 DEF CommitLogout, CommitReset, CommitStatus
  <2>. QED BY <1>3, <1>4, <1>5, <2>1 DEF Refuse, Finish
<1>8. ASSUME NEW p \in Procs, CommitProvision(p)
      PROVE  now <= now' /\ session'[s] = session[s]
  BY <1>3, <1>4, <1>8 DEF CommitProvision, Refuse, Finish
<1>9. ASSUME NEW p \in Procs, CommitSweep(p)
      PROVE  now <= now' /\ session'[s] = session[s]
  BY <1>1, <1>4, <1>9 DEF CommitSweep, Times
<1>10. ASSUME NEW p \in Procs,
              \/ Begin(p) \/ LookUp(p) \/ Verify(p) \/ Rehash(p) \/ LockUser(p) \/ Revoke(p)
              \/ LockSession(p) \/ Sweep(p) \/ LockTimeout(p) \/ Abort(p)
      PROVE  UNCHANGED <<now, tables>>
  BY <1>10 DEF Begin, LookUp, Verify, Rehash, LockUser, Revoke, LockSession, Sweep,
               LockTimeout, Abort, Refuse, Finish
<1>. QED BY <1>2, <1>3, <1>6, <1>7, <1>8, <1>9, <1>10 DEF Next, Step, Commit

\* A dead session stays dead.  A session can be unusable because its account is
\* inactive; then it is revoked (SessionsAreCurrent), so that activating the
\* account again does not bring it back.
THEOREM DeadStay == Spec => DeadStaysDead
<1>1. IInv /\ [Next]_vars => [\A s \in Stored : ~ Usable(s) => ~ Usable(s)']_vars
  <2>. SUFFICES ASSUME IInv, Next, NEW s \in Stored, ~ Usable(s), Usable(s)'
                PROVE  FALSE
    OBVIOUS
  <2>. USE DEF IInv
  <2>1. session'[s] # None /\ session'[s].revoked = Never /\ session'[s].expires > now'
    BY DEF Usable, Open, Stored
  <2>2. /\ now <= now' /\ session'[s].expires = session[s].expires
        /\ session[s].revoked = Never
    BY <2>1, RowsOnlyEnd
  <2>3. s \in Open /\ session[s].user \in active
    BY <2>2 DEF Open, SessionsAreCurrent
  <2>4. session[s].expires <= now
    <3>1. session[s].expires \in Int /\ now \in Int
      BY BoundsAreNatural DEF TypeOK, Rows, Times, Stored
    <3>. QED BY <2>3, <3>1 DEF Usable
  <2>5. now' \in Int /\ now \in Int /\ session[s].expires \in Int
    <3>1. TypeOK'
      BY Inductive
    <3>. QED BY <3>1, BoundsAreNatural DEF TypeOK, Rows, Times, Stored
  <2>. QED BY <2>1, <2>2, <2>4, <2>5
<1>. QED BY <1>1, Invariant, PTL DEF Spec, DeadStaysDead

\* A login that stores a new hash stores one of the password the account has.
THEOREM OnlyResets == Spec => OnlyResetsChangeSecrets
<1>1. IInv /\ [Next]_vars =>
        [\A u \in known : password'[u].secret # password[u].secret =>
                             resets'[u] = resets[u] + 1]_vars
  <2>. SUFFICES ASSUME IInv, Next, NEW u \in known, password'[u].secret # password[u].secret
                PROVE  resets'[u] = resets[u] + 1
    OBVIOUS
  <2>. USE DEF IInv
  <2>1. u \in Users /\ password'[u] # password[u]
    BY DEF TypeOK
  <2>2. ASSUME NEW p \in Procs, CommitLogin(p)
        PROVE  FALSE
    <3>1. password' \in {password, [password EXCEPT ![req[p].user] = fresh[p]]}
      BY <2>2 DEF CommitLogin, Refuse, tables
    <3>2. password' = [password EXCEPT ![req[p].user] = fresh[p]] /\ fresh[p] # None
      BY <2>1, <2>2, <3>1 DEF CommitLogin, Refuse, tables
    <3>3. u = req[p].user /\ password'[u] = fresh[p]
      BY <2>1, <3>2 DEF TypeOK
    <3>4. /\ fresh[p].secret = req[p].secret /\ read[p].hash.secret = req[p].secret
          /\ password[u] = read[p].hash
      BY <2>2, <3>2, <3>3 DEF CommitLogin, Memory, Held
    <3>. QED BY <3>3, <3>4
  <2>3. ASSUME NEW p \in Procs, CommitReset(p)
        PROVE  resets'[u] = resets[u] + 1
    <3>1. /\ password' = [password EXCEPT ![req[p].user] = fresh[p]]
          /\ resets' = [resets EXCEPT ![req[p].user] = @ + 1]
      BY <2>1, <2>3 DEF CommitReset, Refuse, tables
    <3>2. u = req[p].user
      BY <2>1, <3>1 DEF TypeOK
    <3>. QED BY <2>1, <3>1, <3>2 DEF TypeOK
  <2>4. ASSUME NEW p \in Procs, CommitProvision(p)
        PROVE  FALSE
    <3>1. /\ password' = [password EXCEPT ![req[p].user] = fresh[p]]
          /\ req[p].user \notin known
      BY <2>1, <2>4 DEF CommitProvision, Refuse, tables
    <3>. QED BY <2>1, <3>1 DEF TypeOK
  <2>5. ASSUME NEW p \in Procs,
               \/ Begin(p) \/ LookUp(p) \/ Verify(p) \/ Rehash(p) \/ LockUser(p) \/ Revoke(p)
               \/ LockSession(p) \/ Sweep(p) \/ LockTimeout(p) \/ Abort(p)
               \/ CommitLogout(p) \/ CommitStatus(p) \/ CommitSweep(p)
        PROVE  FALSE
    BY <2>1, <2>5 DEF Begin, LookUp, Verify, Rehash, LockUser, Revoke, LockSession, Sweep,
                      LockTimeout, Abort, CommitLogout, CommitStatus, CommitSweep, Refuse, tables
  <2>6. ~ Tick
    BY <2>1 DEF Tick, tables
  <2>. QED BY <2>2, <2>3, <2>4, <2>5, <2>6 DEF Next, Step, Commit
<1>. QED BY <1>1, Invariant, PTL DEF Spec, OnlyResetsChangeSecrets

\* The cleanup deletes only rows that were dead when it began.
THEOREM CleanupSpares == Spec => CleanupSparesUsable
<1>1. IInv /\ [Next]_vars => [\A s \in Ids : Usable(s) => s \in Stored']_vars
  <2>. SUFFICES ASSUME IInv, Next, NEW s \in Ids, Usable(s), s \notin Stored'
                PROVE  FALSE
    OBVIOUS
  <2>. USE DEF IInv
  <2>1. /\ s \in Stored /\ session[s] # None /\ session'[s] = None
        /\ session[s].revoked = Never /\ session[s].expires > now
    BY DEF Usable, Open, Stored
  <2>2. ASSUME NEW p \in Procs, CommitSweep(p)
        PROVE  FALSE
    <3>1. s \in Eligible(p)
      BY <2>1, <2>2 DEF CommitSweep, Held
    <3>2. session[s].expires < Cutoff(p)
      BY <2>1, <3>1 DEF Eligible
    <3>3. session[s].expires \in Int /\ now \in Int /\ since[p] \in Int /\ since[p] <= now
      BY <2>1, BoundsAreNatural DEF TypeOK, Rows, Times, Memory
    <3>. QED BY <2>1, <3>2, <3>3, BoundsAreNatural DEF Cutoff
  <2>3. ASSUME NEW p \in Procs, CommitLogin(p)
        PROVE  FALSE
    <3>1. session' = session \/ \E t \in Ids \ used : \E row : session' = [session EXCEPT ![t] = row]
      BY <2>3 DEF CommitLogin, Refuse, tables
    <3>. QED BY <2>1, <3>1 DEF TypeOK, RowsAreUsed
  <2>4. ASSUME NEW p \in Procs, CommitLogout(p) \/ CommitReset(p) \/ CommitStatus(p)
        PROVE  FALSE
    <3>1. session' = session \/ session' = Revoked(p)
      BY <2>4 DEF CommitLogout, CommitReset, CommitStatus, Refuse, tables
    <3>. QED BY <2>1, <3>1, RevokedRows
  <2>5. ASSUME NEW p \in Procs,
               \/ Begin(p) \/ LookUp(p) \/ Verify(p) \/ Rehash(p) \/ LockUser(p) \/ Revoke(p)
               \/ LockSession(p) \/ Sweep(p) \/ LockTimeout(p) \/ Abort(p) \/ CommitProvision(p)
        PROVE  FALSE
    BY <2>1, <2>5 DEF Begin, LookUp, Verify, Rehash, LockUser, Revoke, LockSession, Sweep,
                      LockTimeout, Abort, CommitProvision, Refuse, tables
  <2>6. ~ Tick
    BY <2>1 DEF Tick, tables
  <2>. QED BY <2>2, <2>3, <2>4, <2>5, <2>6 DEF Next, Step, Commit
<1>. QED BY <1>1, Invariant, PTL DEF Spec, CleanupSparesUsable

-----------------------------------------------------------------------------
(* What logins and revocations remember, beyond what IInv says of it.      *)

\* A snapshot is what the account still has, or is older than a reset, or of a
\* hash that is to be replaced; only such a hash is.
Seen(p) ==
    /\ read[p] # None =>
        LET u == req[p].user IN
        /\ read[p].born <= resets[u]
        /\ read[p].born = resets[u] => password[u] = read[p].hash \/ NeedsRehash(read[p].hash)
        /\ step[p] = "rehash" \/ fresh[p] # None => NeedsRehash(read[p].hash)
    /\ step[p] = "lookUp" => fresh[p] = None

\* The sessions a unit of work locks or is to lock are those of its request.
Aims(p) ==
    LET r == req[p]
        rows == todo[p] \cup Mine(p)
    IN
    /\ step[p] # "lockSessions" => todo[p] = {}
    /\ rows \subseteq used
    /\ step[p] # "idle" =>
        /\ r.op = "logout" =>
              r.id \in used /\ rows \subseteq {r.id} /\ (r.id \in Stored => r.id \in rows)
        /\ r.op \in {"reset", "deactivate"} => \A s \in rows \cap Stored : session[s].user = r.user
        /\ r.op \in {"login", "activate", "provision"} => rows = {}

LInv == IInv /\ \A p \in Procs : Seen(p) /\ Aims(p)

Working(p) == Begin(p) \/ Step(p) \/ LockTimeout(p) \/ Abort(p)

\* A unit of work changes nobody else's variables and locks.
LEMMA OthersStay ==
    ASSUME IInv, NEW p \in Procs, Working(p), NEW q \in Procs \ {p}
    PROVE  /\ step'[q] = step[q] /\ req'[q] = req[q] /\ read'[q] = read[q]
           /\ fresh'[q] = fresh[q] /\ todo'[q] = todo[q]
           /\ Mine(q)' = Mine(q)
<1>. USE DEF IInv
<1>1. CASE Finish(p)
  <2>1. Keeps(p)
    BY <1>1, FinishKeeps
  <2>. QED BY <2>1 DEF Keeps, Mine
<1>2. CASE Begin(p) \/ LookUp(p) \/ Rehash(p) \/ Revoke(p)
  BY <1>2 DEF TypeOK, Begin, LookUp, Rehash, Revoke, Goto, Mine, locks
<1>3. CASE (Verify(p) \/ LockUser(p)) /\ ~ Finish(p)
  BY <1>3 DEF TypeOK, Verify, LockUser, Refuse, Goto, Mine, locks, memory
<1>4. CASE LockSession(p)
  <2>1. Mine(q)' = Mine(q)
    BY <1>4, NoneIsNothing DEF TypeOK, LockSession, Mine, Granted, Take
  <2>. QED BY <1>4, <2>1 DEF TypeOK, LockSession, Goto
<1>5. CASE Sweep(p)
  <2>1. Mine(q)' = Mine(q)
    BY <1>5, NoneIsNothing DEF TypeOK, Sweep, Mine
  <2>. QED BY <1>5, <2>1 DEF TypeOK, Sweep, Goto, memory
<1>6. CASE CommitSweep(p) /\ ~ Finish(p)
  <2>1. sessionLock' = Release(sessionLock, p) /\ step' = [step EXCEPT ![p] = "sweep"]
        /\ UNCHANGED <<req, memory>>
    BY <1>6 DEF CommitSweep, Goto
  <2>2. Mine(q)' = Mine(q)
    BY <2>1, NoneIsNothing DEF TypeOK, Mine, Release
  <2>. QED BY <2>1, <2>2 DEF TypeOK, memory
<1>7. CASE \/ CommitLogin(p) \/ CommitLogout(p) \/ CommitReset(p)
           \/ CommitStatus(p) \/ CommitProvision(p) \/ LockTimeout(p) \/ Abort(p)
  BY <1>1, <1>7 DEF CommitLogin, CommitLogout, CommitReset, CommitStatus, CommitProvision,
                    LockTimeout, Abort, Refuse
<1>. QED
  BY <1>1, <1>2, <1>3, <1>4, <1>5, <1>6, <1>7 DEF Working, Step, Commit

\* Only commits write.
LEMMA Reading ==
    ASSUME NEW p \in Procs, Working(p), ~ Commit(p)
    PROVE  UNCHANGED <<now, tables>>
BY DEF Working, Step, Begin, LookUp, Verify, Rehash, LockUser, Revoke, LockSession, Sweep,
       LockTimeout, Abort, Refuse, Finish

\* No row changes its account, and no id gets a second one.
LEMMA RowsStay ==
    ASSUME IInv, NEW p \in Procs, Working(p)
    PROVE  /\ used \subseteq used'
           /\ \A s \in used : s \in Stored' => s \in Stored /\ session'[s].user = session[s].user
<1>. USE DEF IInv
<1>1. CASE UNCHANGED tables
  BY <1>1 DEF tables, Stored
<1>2. CASE used' = used /\ session' = session
  BY <1>2 DEF Stored
<1>3. CASE used' = used /\ session' = Revoked(p)
  <2>1. Stored' = Stored
    BY <1>3, RevokedRows
  <2>2. \A s \in Ids : session'[s].user = session[s].user
    <3>1. ASSUME NEW s \in Mine(p)
          PROVE  session'[s].user = session[s].user
      <4>1. session[s] \in Rows /\ s \in Ids
        BY NoneIsNothing DEF Mine, RowsAreUsed, Stored, TypeOK
      <4>2. session'[s] = [session[s] EXCEPT !.revoked = since[p]]
        BY <1>3, <4>1 DEF Revoked
      <4>. QED BY <4>1, <4>2 DEF Rows
    <3>. QED BY <1>3, <3>1 DEF Revoked
  <2>. QED BY <1>3, <2>1, <2>2 DEF Stored
<1>4. CASE CommitLogin(p) /\ ~ Refuse(p)
  <2>1. PICK s \in Ids \ used : used' = used \cup {s} /\ \E row : session' = [session EXCEPT ![s] = row]
    BY <1>4 DEF CommitLogin
  <2>. QED BY <2>1 DEF TypeOK, Stored
<1>5. CASE CommitSweep(p)
  BY <1>5 DEF TypeOK, CommitSweep, Stored
<1>6. Commit(p) /\ ~ CommitSweep(p) /\ ~ (CommitLogin(p) /\ ~ Refuse(p)) =>
        \/ UNCHANGED tables
        \/ used' = used /\ session' = session
        \/ used' = used /\ session' = Revoked(p)
  BY DEF Commit, CommitLogin, CommitLogout, CommitReset, CommitStatus, CommitProvision, Refuse
<1>7. ~ Commit(p) => UNCHANGED tables
  BY Reading
<1>. QED BY <1>1, <1>2, <1>3, <1>4, <1>5, <1>6, <1>7

\* A password is replaced by a reset, or its old hash by a new one.
LEMMA PasswordMoves ==
    ASSUME LInv, NEW p \in Procs, Working(p), NEW u \in known
    PROVE  \/ resets'[u] = resets[u] /\ (password'[u] = password[u] \/ NeedsRehash(password[u]))
           \/ resets'[u] = resets[u] + 1
<1>. USE DEF LInv, IInv
<1>1. CASE resets' = resets /\ password' = password
  BY <1>1
<1>2. CASE CommitLogin(p) /\ ~ Refuse(p)
  <2>1. /\ password' = IF fresh[p] = None THEN password
                          ELSE [password EXCEPT ![req[p].user] = fresh[p]]
        /\ resets' = resets /\ step[p] = "commit" /\ req[p].op = "login"
    BY <1>2 DEF CommitLogin
  <2>2. password[req[p].user] = read[p].hash /\ (fresh[p] # None => NeedsRehash(read[p].hash))
    BY <2>1 DEF Held, Memory, Seen
  <2>. QED BY <2>1, <2>2 DEF TypeOK
<1>3. CASE CommitReset(p) /\ ~ Refuse(p)
  <2>1. /\ password' = [password EXCEPT ![req[p].user] = fresh[p]]
        /\ resets' = [resets EXCEPT ![req[p].user] = @ + 1]
    BY <1>3 DEF CommitReset
  <2>. QED BY <2>1 DEF TypeOK
<1>4. CASE CommitProvision(p) /\ ~ Refuse(p)
  <2>1. /\ password' = [password EXCEPT ![req[p].user] = fresh[p]] /\ req[p].user \notin known
        /\ resets' = resets
    BY <1>4 DEF CommitProvision
  <2>. QED BY <2>1 DEF TypeOK
<1>5. Refuse(p) => resets' = resets /\ password' = password
  BY DEF Refuse, tables
<1>6. CommitLogout(p) \/ CommitStatus(p) \/ CommitSweep(p) => resets' = resets /\ password' = password
  BY DEF CommitLogout, CommitStatus, CommitSweep
<1>7. ~ Commit(p) => resets' = resets /\ password' = password
  BY Reading DEF tables
<1>. QED BY <1>1, <1>2, <1>3, <1>4, <1>5, <1>6, <1>7 DEF Commit

\* What a unit of work does to its own snapshot: it makes, keeps or drops it.
LEMMA OwnSnapshot ==
    ASSUME LInv, NEW p \in Procs, Working(p), read'[p] # None
    PROVE  /\ req'[p] = req[p] /\ UNCHANGED tables
           /\ \/ read'[p].born = resets[req[p].user] /\ read'[p].hash = password[req[p].user]
                 /\ step'[p] = "verify" /\ fresh'[p] = None
              \/ /\ read'[p] = read[p]
                 /\ step'[p] = "rehash" \/ fresh'[p] # None => NeedsRehash(read[p].hash)
<1>. USE DEF LInv, IInv
<1>1. CASE Finish(p)
  BY <1>1, FinishKeeps
<1>2. CASE Begin(p)
  BY <1>2 DEF Begin, Memory
<1>3. CASE LookUp(p)
  <2>1. /\ step[p] = "lookUp" /\ step' = [step EXCEPT ![p] = "verify"]
        /\ UNCHANGED <<tables, req, fresh>>
    BY <1>3 DEF LookUp, Goto
  <2>2. CASE req[p].user \in known
    <3>1. read'[p] = [hash |-> password[req[p].user], active |-> req[p].user \in active,
                      born |-> resets[req[p].user]]
      BY <1>3, <2>2 DEF LookUp, TypeOK
    <3>2. fresh[p] = None
      BY <2>1 DEF Seen
    <3>. QED BY <2>1, <3>1, <3>2 DEF TypeOK
  <2>3. CASE req[p].user \notin known
    <3>1. read' = read /\ step'[p] # "rehash"
      BY <1>3, <2>1, <2>3 DEF LookUp, TypeOK
    <3>. QED BY <2>1, <3>1 DEF Seen
  <2>. QED BY <2>2, <2>3
<1>4. CASE Verify(p) /\ ~ Finish(p)
  <2>1. /\ step' = [step EXCEPT ![p] = IF NeedsRehash(read[p].hash) THEN "rehash" ELSE "lockUser"]
        /\ UNCHANGED <<tables, req, memory>>
    BY <1>4 DEF Verify, Goto, Refuse
  <2>. QED BY <2>1 DEF TypeOK, memory, Seen
<1>5. CASE Rehash(p)
  BY <1>5 DEF Rehash, Goto, Seen, TypeOK
<1>6. CASE (LockUser(p) /\ ~ Finish(p)) \/ Revoke(p) \/ LockSession(p) \/ Sweep(p)
  BY <1>6 DEF LockUser, Revoke, LockSession, Sweep, Goto, Refuse, Seen, TypeOK, memory
<1>7. CASE CommitSweep(p) /\ ~ Finish(p)
  BY <1>7 DEF CommitSweep, Memory, memory
<1>8. CASE \/ CommitLogin(p) \/ CommitLogout(p) \/ CommitReset(p)
           \/ CommitStatus(p) \/ CommitProvision(p) \/ LockTimeout(p) \/ Abort(p)
  BY <1>1, <1>8 DEF CommitLogin, CommitLogout, CommitReset, CommitStatus, CommitProvision,
                    LockTimeout, Abort, Refuse
<1>. QED
  BY <1>1, <1>2, <1>3, <1>4, <1>5, <1>6, <1>7, <1>8 DEF Working, Step, Commit

\* Snapshots stay what they are under any step.
LEMMA SeenStays ==
    ASSUME LInv, NEW p \in Procs, Working(p), NEW q \in Procs
    PROVE  Seen(q)'
<1>. USE DEF LInv, IInv
<1>0. step'[q] = "lookUp" => fresh'[q] = None
  <2>1. CASE q # p
    BY <2>1, OthersStay DEF Seen
  <2>2. CASE q = p /\ Begin(p)
    <3>1. PICK r \in Requests :
            /\ step[p] = "idle" /\ step' = [step EXCEPT ![p] = FirstStep(r.op)]
            /\ r.op \notin {"reset", "provision"} => fresh' = fresh
      BY <2>2 DEF Begin, Goto
    <3>2. r.op \in {"reset", "provision"} => FirstStep(r.op) # "lookUp"
      BY DEF FirstStep
    <3>. QED BY <2>2, <3>1, <3>2 DEF Memory, TypeOK
  <2>3. Finish(p) => step'[p] = "idle"
    BY FinishKeeps
  <2>4. Working(p) /\ ~ Begin(p) => step'[p] # "lookUp"
    <3>1. LookUp(p) \/ Rehash(p) \/ Revoke(p) \/ LockSession(p) \/ Sweep(p) => step'[p] # "lookUp"
      BY DEF LookUp, Rehash, Revoke, LockSession, Sweep, Goto, TypeOK
    <3>2. (Verify(p) \/ LockUser(p) \/ CommitSweep(p)) /\ ~ Finish(p) => step'[p] # "lookUp"
      BY DEF Verify, LockUser, CommitSweep, Goto, Refuse, TypeOK
    <3>3. (\/ CommitLogin(p) \/ CommitLogout(p) \/ CommitReset(p)
           \/ CommitStatus(p) \/ CommitProvision(p) \/ LockTimeout(p) \/ Abort(p))
            => Finish(p)
      BY DEF CommitLogin, CommitLogout, CommitReset, CommitStatus, CommitProvision,
             LockTimeout, Abort, Refuse
    <3>. QED BY <2>3, <3>1, <3>2, <3>3 DEF Working, Step, Commit
  <2>. QED BY <2>1, <2>2, <2>4
<1>1. CASE read'[q] # None /\ q = p
  <2>1. req'[p] = req[p] /\ UNCHANGED tables
    BY <1>1, OwnSnapshot
  <2>2. IInv'
    BY Inductive DEF Next, Working
  <2>3. req[p].user \in known
    BY <1>1, <2>1, <2>2 DEF Memory, tables
  <2>4. resets[req[p].user] \in Nat
    BY <2>3, BoundsAreNatural DEF TypeOK
  <2>. QED BY <1>0, <1>1, <2>4, OwnSnapshot DEF Seen, tables
<1>2. CASE read'[q] # None /\ q # p
  <2>. DEFINE u == req[q].user
  <2>1. /\ step'[q] = step[q] /\ req'[q] = req[q] /\ read'[q] = read[q] /\ fresh'[q] = fresh[q]
    BY <1>2, OthersStay
  <2>2. u \in known
    BY <1>2, <2>1 DEF Memory
  <2>3. \/ resets'[u] = resets[u] /\ (password'[u] = password[u] \/ NeedsRehash(password[u]))
        \/ resets'[u] = resets[u] + 1
    BY <2>2, PasswordMoves
  <2>4. resets[u] \in Nat /\ read[q].born \in Nat
    BY <1>2, <2>1, <2>2, BoundsAreNatural DEF TypeOK
  <2>. QED BY <1>0, <1>2, <2>1, <2>3, <2>4 DEF Seen
<1>. QED BY <1>0, <1>1, <1>2 DEF Seen

\* What a unit of work does to the sessions it locks or is to lock itself.
LEMMA OwnAims ==
    ASSUME LInv, NEW p \in Procs, Working(p)
    PROVE  Aims(p)'
<1>. USE DEF LInv, IInv
<1>. DEFINE r == req[p]
<1>0. Mine(p) \subseteq Ids /\ todo[p] \subseteq Ids /\ Mine(p) \subseteq Stored /\ Aims(p)
  BY NoneIsNothing DEF Mine, RowsAreUsed, TypeOK
<1>1. CASE Finish(p)
  <2>1. step'[p] = "idle" /\ \A s \in Ids : sessionLock'[s] # p
    BY <1>1, FinishKeeps
  <2>2. todo'[p] = {}
    BY <1>1 DEF Finish, TypeOK
  <2>3. Mine(p)' = {}
    BY <2>1 DEF Mine
  <2>. QED BY <2>1, <2>2, <2>3 DEF Aims
<1>2. CASE Begin(p)
  <2>1. PICK s \in Requests :
          /\ step[p] = "idle" /\ req' = [req EXCEPT ![p] = s]
          /\ s.op = "logout" => Usable(s.id)
          /\ todo' = [todo EXCEPT ![p] = IF s.op = "logout" THEN {s.id} ELSE {}]
          /\ step' = [step EXCEPT ![p] = FirstStep(s.op)]
          /\ UNCHANGED <<tables, locks>>
    BY <1>2 DEF Begin, Goto
  <2>2. Mine(p)' = {}
    BY <2>1 DEF Held, Mine, locks
  <2>3. /\ req'[p] = s /\ step'[p] = FirstStep(s.op)
        /\ todo'[p] = (IF s.op = "logout" THEN {s.id} ELSE {})
    BY <2>1 DEF TypeOK
  <2>4. s.op = "logout" => s.id \in used /\ FirstStep(s.op) = "lockSessions"
    BY <2>1 DEF Usable, Open, RowsAreUsed, FirstStep
  <2>. QED BY <2>1, <2>2, <2>3, <2>4 DEF Aims, tables
<1>3. CASE \/ LookUp(p) \/ Rehash(p)
           \/ (Verify(p) \/ LockUser(p)) /\ ~ Finish(p)
  <2>1. /\ UNCHANGED <<session, used, sessionLock, req, todo>>
        /\ step'[p] # "lockSessions" /\ step[p] # "lockSessions" /\ step[p] # "idle"
    <3>1. CASE LookUp(p) \/ Rehash(p)
      BY <3>1 DEF LookUp, Rehash, Goto, TypeOK, tables, locks
    <3>2. CASE (Verify(p) \/ LockUser(p)) /\ ~ Finish(p)
      BY <3>2 DEF Verify, LockUser, Goto, TypeOK, tables, locks, memory, Refuse
    <3>. QED BY <1>3, <3>1, <3>2
  <2>2. Mine(p)' = Mine(p) /\ Stored' = Stored
    BY <2>1 DEF Mine, Stored
  <2>. QED BY <1>0, <2>1, <2>2 DEF Aims
<1>4. CASE Revoke(p)
  <2>1. /\ step[p] = "revoke" /\ todo' = [todo EXCEPT ![p] = OpenOf(r.user)]
        /\ step' = [step EXCEPT ![p] = IF OpenOf(r.user) = {} THEN "commit" ELSE "lockSessions"]
        /\ UNCHANGED <<tables, locks, req>>
    BY <1>4 DEF Revoke, Goto
  <2>2. r.op \in {"reset", "deactivate"} /\ Mine(p) = {}
    BY <2>1 DEF Path, Held
  <2>3. /\ todo'[p] = OpenOf(r.user) /\ req'[p] = r
        /\ OpenOf(r.user) = {} \/ step'[p] = "lockSessions"
    BY <2>1 DEF TypeOK
  <2>4. Mine(p)' = {} /\ Stored' = Stored /\ session' = session /\ used' = used
    BY <2>1, <2>2 DEF Mine, Stored, tables, locks
  <2>5. \A s \in OpenOf(r.user) : s \in used /\ session[s].user = r.user
    BY DEF OpenOf, Open, RowsAreUsed
  <2>. QED BY <2>2, <2>3, <2>4, <2>5 DEF Aims
<1>5. CASE LockSession(p)
  <2>1. PICK s \in todo[p] :
          /\ step[p] = "lockSessions" /\ Granted(sessionLock, s, p)
          /\ sessionLock' = IF s \in (IF r.op = "logout" THEN Stored ELSE Open)
                              THEN Take(sessionLock, s, p) ELSE sessionLock
          /\ todo' = [todo EXCEPT ![p] = @ \ {s}]
          /\ step' = [step EXCEPT ![p] = IF todo[p] = {s} THEN "commit" ELSE "lockSessions"]
          /\ UNCHANGED <<tables, req>>
    BY <1>5 DEF LockSession, Goto
  <2>2. Mine(p)' = Mine(p) \cup (IF s \in (IF r.op = "logout" THEN Stored ELSE Open) THEN {s} ELSE {})
    <3>1. s \in Ids
      BY <1>0
    <3>. QED BY <2>1, <3>1 DEF Mine, Take, TypeOK
  <2>3. /\ todo'[p] = todo[p] \ {s} /\ req'[p] = r
        /\ step'[p] = IF todo[p] = {s} THEN "commit" ELSE "lockSessions"
        /\ Stored' = Stored /\ session' = session /\ used' = used
    BY <2>1 DEF TypeOK, Stored, tables
  <2>4. r.op \in {"logout", "reset", "deactivate"}
    BY <2>1 DEF Path
  <2>. QED BY <1>0, <2>1, <2>2, <2>3, <2>4 DEF Aims
<1>6. CASE Sweep(p)
  <2>1. /\ step[p] = "sweep" /\ step' = [step EXCEPT ![p] = "commit"]
        /\ UNCHANGED <<tables, req, todo>>
    BY <1>6 DEF Sweep, Goto, memory
  <2>2. \A s \in Ids : sessionLock'[s] = p => s \in Stored
    BY <1>6, NoneIsNothing DEF Sweep, Eligible, RowsAreUsed
  <2>3. r.op = "cleanup" /\ todo'[p] = {} /\ req'[p] = r /\ step'[p] = "commit"
    BY <2>1, <1>0 DEF Path, Aims, TypeOK
  <2>4. Mine(p)' \subseteq used'
    BY <2>1, <2>2 DEF Mine, RowsAreUsed, tables
  <2>. QED BY <2>3, <2>4 DEF Aims
<1>7. CASE CommitSweep(p) /\ ~ Finish(p)
  <2>1. /\ step[p] = "commit" /\ r.op = "cleanup" /\ step' = [step EXCEPT ![p] = "sweep"]
        /\ sessionLock' = Release(sessionLock, p)
        /\ UNCHANGED <<req, todo>>
    BY <1>7 DEF CommitSweep, Goto, memory
  <2>2. Mine(p)' = {}
    BY <2>1, NoneIsNothing DEF Mine, Release, TypeOK
  <2>3. todo'[p] = {} /\ req'[p] = r /\ step'[p] = "sweep"
    BY <2>1, <1>0 DEF Aims, TypeOK
  <2>. QED BY <2>1, <2>2, <2>3 DEF Aims
<1>8. (\/ CommitLogin(p) \/ CommitLogout(p) \/ CommitReset(p)
       \/ CommitStatus(p) \/ CommitProvision(p) \/ LockTimeout(p) \/ Abort(p))
        => Finish(p)
  BY DEF CommitLogin, CommitLogout, CommitReset, CommitStatus, CommitProvision,
         LockTimeout, Abort, Refuse
<1>. QED
  BY <1>1, <1>2, <1>3, <1>4, <1>5, <1>6, <1>7, <1>8 DEF Working, Step, Commit

\* They stay those of its request whatever others do.
LEMMA AimsStay ==
    ASSUME LInv, NEW p \in Procs, Working(p), NEW q \in Procs
    PROVE  Aims(q)'
<1>. USE DEF LInv, IInv
<1>1. CASE q = p
  BY <1>1, OwnAims
<1>2. CASE q # p
  <2>1. /\ step'[q] = step[q] /\ req'[q] = req[q] /\ todo'[q] = todo[q] /\ Mine(q)' = Mine(q)
    BY <1>2, OthersStay
  <2>2. /\ used \subseteq used'
        /\ \A s \in used : s \in Stored' => s \in Stored /\ session'[s].user = session[s].user
    BY RowsStay
  <2>3. Aims(q)
    OBVIOUS
  <2>. QED BY <2>1, <2>2, <2>3 DEF Aims
<1>. QED BY <1>1, <1>2

\* The stronger invariant.
LEMMA LongInvariant == Spec => []LInv
<1>1. Init => LInv
  <2>1. Init => IInv
    BY InitIInv
  <2>2. Init => \A p \in Procs : Seen(p) /\ Aims(p)
    BY NoneIsNothing DEF Init, Seen, Aims, Mine
  <2>. QED BY <2>1, <2>2 DEF LInv
<1>2. LInv /\ [Next]_vars => LInv'
  <2>. SUFFICES ASSUME LInv, [Next]_vars
                PROVE  LInv'
    OBVIOUS
  <2>1. IInv'
    BY Inductive DEF LInv
  <2>2. CASE \E p \in Procs : Working(p)
    BY <2>1, <2>2, SeenStays, AimsStay DEF LInv
  <2>3. CASE Tick \/ UNCHANGED vars
    <3>1. UNCHANGED <<password, resets, session, used, sessionLock, req, step, read, fresh, todo>>
      BY <2>3 DEF Tick, vars, tables, locks, local, memory
    <3>2. \A p \in Procs : Seen(p)'
      BY <3>1 DEF LInv, Seen
    <3>3. \A p \in Procs : Aims(p)'
      BY <3>1 DEF LInv, Aims, Mine, Stored
    <3>. QED BY <2>1, <3>2, <3>3 DEF LInv
  <2>. QED BY <2>2, <2>3 DEF Next, Working
<1>. QED BY <1>1, <1>2, PTL DEF Spec

\* A login with the right password of an active account is refused only after
\* a reset, or when somebody has replaced the outdated hash it has verified.
THEOREM RefusedForNewHash == Spec => []RefusedOnlyForNewHash
<1>1. LInv => RefusedOnlyForNewHash
  BY DEF LInv, IInv, Memory, Seen, NeedsRehash, RefusedOnlyForNewHash
<1>. QED BY <1>1, LongInvariant, PTL

-----------------------------------------------------------------------------
(* Sessions implements AccountSessions.                                    *)

\* What the refinement shows of the tables.
SecretOf == [u \in Users |-> IF u \in known THEN password[u].secret ELSE None]

GoodOf ==
    [s \in Ids |-> IF Usable(s) THEN [user |-> session[s].user, expires |-> session[s].expires]
                               ELSE None]

\* The good sessions are the usable ones.
LEMMA GoodAre ==
    ASSUME TypeOK
    PROVE  /\ \A s \in Ids : GoodOf[s] # None <=> Usable(s)
           /\ \A s \in Ids : Usable(s) =>
                GoodOf[s].user = session[s].user /\ GoodOf[s].expires = session[s].expires
<1>1. ASSUME NEW s \in Ids, Usable(s)
      PROVE  [user |-> session[s].user, expires |-> session[s].expires] # None
  <2>1. session[s] \in Rows
    BY <1>1 DEF Usable, Open, Stored, TypeOK
  <2>2. [user |-> session[s].user, expires |-> session[s].expires] \in [user : Users, expires : Nat]
    BY <2>1, BoundsAreNatural DEF Rows
  <2>. QED BY <2>2, NoneIsNothing
<1>. QED BY <1>1 DEF GoodOf

\* The rows that stay usable are as they were, and all but the ended ones do.
LEMMA Ended ==
    ASSUME NEW ended,
           \A s \in Ids : Usable(s)' =>
                /\ Usable(s) /\ s \notin ended
                /\ session'[s].user = session[s].user
                /\ session'[s].expires = session[s].expires,
           \A s \in Ids : Usable(s) /\ s \notin ended => Usable(s)'
    PROVE  GoodOf' = [s \in Ids |-> IF s \in ended THEN None ELSE GoodOf[s]]
BY DEF GoodOf

\* None ends.
LEMMA NoneEnded ==
    ASSUME \A s \in Ids : Usable(s)' =>
                /\ Usable(s)
                /\ session'[s].user = session[s].user
                /\ session'[s].expires = session[s].expires,
           \A s \in Ids : Usable(s) => Usable(s)'
    PROVE  GoodOf' = GoodOf
BY DEF GoodOf

\* Nothing is seen of a step that leaves what is read of the tables.
LEMMA NothingSeen == UNCHANGED <<now, tables>> => UNCHANGED <<SecretOf, active, GoodOf, used>>
<1>. SUFFICES ASSUME UNCHANGED <<now, tables>>
              PROVE  UNCHANGED <<SecretOf, active, GoodOf, used>>
  OBVIOUS
<1>1. UNCHANGED <<now, known, active, password, session, used>>
  BY DEF tables
<1>2. SecretOf' = SecretOf
  BY <1>1 DEF SecretOf
<1>3. GoodOf' = GoodOf
  BY <1>1 DEF GoodOf, Usable, Open, Stored
<1>. QED BY <1>1, <1>2, <1>3

\* At a request's end, AccountSessions serves it: by what it applies, if it succeeds.
LEMMA ServedBy ==
    ASSUME LInv, NEW p \in Procs, step[p] # "idle", Finish(p),
           \/ Answer(p, "ok") /\ Promise!Apply(req[p])
           \/ Answer(p, "error") /\ UNCHANGED <<SecretOf, active, GoodOf, used>>
    PROVE  Promise!Serve(p)
<1>1. req[p] # None
  BY NoneIsNothing DEF LInv, IInv, Path
<1>2. req' = [req EXCEPT ![p] = None] /\ UNCHANGED now
  BY DEF Finish
<1>. QED BY <1>1, <1>2 DEF Promise!Serve, Promise!Answer, Answer, Promise!store, SecretOf, GoodOf

\* A refused or aborted request has changed nothing.
LEMMA RefusePromise ==
    ASSUME LInv, NEW p \in Procs, step[p] # "idle", Refuse(p)
    PROVE  Promise!Serve(p)
<1>1. UNCHANGED <<now, tables>> /\ Finish(p) /\ Answer(p, "error")
  BY DEF Refuse, Finish
<1>. QED BY <1>1, NothingSeen, ServedBy

\* The rows that a cleanup has locked are of use to nobody.
LEMMA SweptAreDead ==
    ASSUME LInv, NEW p \in Procs, NEW s \in Eligible(p)
    PROVE  ~ Usable(s)
<1>. SUFFICES ASSUME Usable(s)
              PROVE  FALSE
  OBVIOUS
<1>1. s \in Stored /\ session[s].revoked = Never /\ session[s].expires > now
  BY DEF Usable, Open
<1>2. session[s].expires < Cutoff(p)
  BY <1>1 DEF Eligible
<1>3. session[s].expires \in Int /\ now \in Int /\ since[p] \in Int /\ since[p] <= now
  BY <1>1, BoundsAreNatural DEF LInv, IInv, TypeOK, Rows, Times, Memory, Stored
<1>. QED BY <1>1, <1>2, <1>3, BoundsAreNatural DEF Cutoff

\* What a cleanup deletes is not seen.
LEMMA SweepUnseen ==
    ASSUME LInv, NEW p \in Procs, CommitSweep(p)
    PROVE  UNCHANGED <<SecretOf, active, GoodOf, used>> /\ now' = now
<1>. USE DEF LInv, IInv
<1>1. /\ session' = [s \in Ids |-> IF s \in Mine(p) THEN None ELSE session[s]]
      /\ UNCHANGED <<now, known, active, password, resets, used>>
      /\ Mine(p) \subseteq Eligible(p)
  BY DEF CommitSweep, Finish, Held
<1>2. /\ Open' = Open \ Mine(p)
      /\ \A s \in Ids \ Mine(p) : session'[s] = session[s]
  BY <1>1, SweptRows
<1>3. \A s \in Ids : Usable(s) => s \notin Mine(p)
  BY <1>1, SweptAreDead
<1>4. \A s \in Ids : Usable(s)' => Usable(s) /\ s \notin Mine(p)
  BY <1>1, <1>2 DEF Usable
<1>5. \A s \in Ids : Usable(s) => Usable(s)'
  BY <1>1, <1>2, <1>3 DEF Usable
<1>6. GoodOf' = GoodOf
  BY <1>2, <1>4, <1>5, NoneEnded
<1>7. SecretOf' = SecretOf
  BY <1>1 DEF SecretOf
<1>. QED BY <1>1, <1>6, <1>7

\* The account of a commit's request, which is locked or new.
LEMMA OfCommit ==
    ASSUME LInv, NEW p \in Procs, step[p] = "commit"
    PROVE  /\ req[p] \in Requests
           /\ req[p].op \in OfAccount => req[p].user \in known /\ req[p].user \in Users
           /\ req[p].op = "provision" => req[p].user \in Users
<1>1. req[p] \in Requests
  BY DEF LInv, IInv, Path
<1>2. req[p].op \in OfAccount => req[p].user \in known
  BY DEF LInv, IInv, Held
<1>. QED BY <1>1, <1>2, RequestFields DEF LInv, IInv, TypeOK

\* A login opens a session under the password and the activity of that moment.
LEMMA LoginPromise ==
    ASSUME LInv, NEW p \in Procs, CommitLogin(p), ~ Refuse(p)
    PROVE  Promise!Serve(p)
<1>. USE DEF LInv, IInv
<1>. DEFINE r == req[p]
            row == [user |-> r.user, expires |-> now + TTL, revoked |-> Never,
                    born |-> read[p].born]
<1>1. PICK s \in Ids \ used :
        /\ used' = used \cup {s} /\ session' = [session EXCEPT ![s] = row]
        /\ password' = IF fresh[p] = None THEN password
                         ELSE [password EXCEPT ![r.user] = fresh[p]]
        /\ step[p] = "commit" /\ r.op = "login" /\ Finish(p) /\ Answer(p, "ok")
        /\ UNCHANGED <<now, known, active>>
  BY DEF CommitLogin, Finish
<1>2. /\ r.user \in known /\ r.user \in Users /\ r.user \in active
      /\ password[r.user].secret = r.secret
      /\ fresh[p] # None => fresh[p].secret = r.secret
  BY <1>1, OfCommit DEF Held, Memory, OfAccount
<1>3. \A u \in known : password'[u].secret = password[u].secret
  BY <1>1, <1>2 DEF TypeOK
<1>4. SecretOf' = SecretOf /\ SecretOf[r.user] = r.secret
  BY <1>1, <1>2, <1>3 DEF SecretOf
<1>5. /\ session'[s] = row /\ \A t \in Ids \ {s} : session'[t] = session[t]
      /\ session[s] = None
  BY <1>1 DEF TypeOK, RowsAreUsed, Stored
<1>6. session'[s] # None
  <2>1. row \in Rows
    <3>1. row.expires \in 0..(MaxTime + TTL)
      BY BoundsAreNatural DEF TypeOK, Times
    <3>2. row.born \in 0..MaxResets
      BY <1>1, <1>2 DEF TypeOK, Memory
    <3>. QED BY <1>2, <3>1, <3>2 DEF Rows
  <2>. HIDE DEF row
  <2>. QED BY <1>5, <2>1, NoneIsNothing
<1>7. row.user = r.user /\ row.expires = now + TTL /\ row.revoked = Never /\ row.expires > now
  BY BoundsAreNatural DEF TypeOK, Times
<1>. HIDE DEF row
<1>8. Usable(s)'
  BY <1>1, <1>2, <1>5, <1>6, <1>7 DEF Usable, Open, Stored
<1>9. \A t \in Ids \ {s} : Usable(t)' <=> Usable(t)
  BY <1>1, <1>5 DEF Usable, Open, Stored
<1>10. GoodOf' = [GoodOf EXCEPT ![s] = [user |-> r.user, expires |-> now + TTL]]
  BY <1>5, <1>7, <1>8, <1>9 DEF GoodOf
<1>11. Promise!Login(r)
  BY <1>1, <1>2, <1>4, <1>10 DEF Promise!Login, SecretOf, GoodOf
<1>. QED BY <1>1, <1>11, ServedBy DEF Promise!Apply

\* A logout ends its session, also when a cleanup has deleted the row meanwhile.
LEMMA LogoutPromise ==
    ASSUME LInv, NEW p \in Procs, CommitLogout(p)
    PROVE  Promise!Serve(p)
<1>. USE DEF LInv, IInv
<1>. DEFINE r == req[p]
<1>1. /\ session' = Revoked(p) /\ Finish(p) /\ Answer(p, "ok")
      /\ step[p] = "commit" /\ r.op = "logout"
      /\ UNCHANGED <<now, known, active, password, used>>
  BY DEF CommitLogout, Finish
<1>2. /\ Open' = Open \ Mine(p)
      /\ \A s \in Ids \ Mine(p) : session'[s] = session[s]
  BY <1>1, RevokedRows
<1>3. Mine(p) \subseteq {r.id} /\ (r.id \in Stored => r.id \in Mine(p))
  <2>1. todo[p] = {} /\ Aims(p)
    BY <1>1 DEF Aims
  <2>. QED BY <1>1, <2>1 DEF Aims
<1>4. \A s \in Ids : Usable(s)' =>
        Usable(s) /\ s \notin Mine(p) /\ s \notin {r.id} /\ session'[s] = session[s]
  BY <1>1, <1>2, <1>3 DEF Usable, Open, Stored
<1>5. \A s \in Ids : Usable(s) /\ s \notin {r.id} => Usable(s)'
  BY <1>1, <1>2, <1>3 DEF Usable
<1>6. GoodOf' = [s \in Ids |-> IF s \in {r.id} THEN None ELSE GoodOf[s]]
  BY <1>4, <1>5, Ended
<1>7. SecretOf' = SecretOf
  BY <1>1 DEF SecretOf
<1>8. Promise!Logout(r)
  BY <1>1, <1>6, <1>7 DEF Promise!Logout, Promise!End, SecretOf, GoodOf
<1>. QED BY <1>1, <1>8, ServedBy DEF Promise!Apply

\* Of a revocation of all sessions, exactly the account's good ones are seen.
LEMMA RevocationSeen ==
    ASSUME LInv, NEW p \in Procs, step[p] = "commit", req[p].op \in {"reset", "deactivate"},
           session' = Revoked(p), now' = now,
           active \ {req[p].user} \subseteq active', active' \subseteq active
    PROVE  Promise!End({s \in Promise!Good : GoodOf[s].user = req[p].user})
<1>. USE DEF LInv, IInv
<1>. DEFINE u == req[p].user
            ended == {s \in Ids : Usable(s) /\ session[s].user = u}
<1>1. /\ Open' = Open \ Mine(p)
      /\ \A s \in Ids \ Mine(p) : session'[s] = session[s]
  BY RevokedRows
<1>2. OpenOf(u) \subseteq Mine(p) /\ \A s \in Mine(p) \cap Stored : session[s].user = u
  BY DEF Held, Aims
<1>3. \A s \in Ids : s \in Open => (s \in Mine(p) <=> session[s].user = u)
  BY <1>2 DEF OpenOf, Open
<1>4. \A s \in Ids : Usable(s)' => Usable(s) /\ s \notin ended /\ session'[s] = session[s]
  BY <1>1, <1>3 DEF Usable
<1>5. \A s \in Ids : Usable(s) /\ s \notin ended => Usable(s)'
  BY <1>1, <1>3 DEF Usable
<1>6. Promise!Good = {s \in Ids : Usable(s)}
  BY GoodAre DEF Promise!Good, GoodOf
<1>7. {s \in Promise!Good : GoodOf[s].user = u} = ended
  BY <1>6, GoodAre
<1>. HIDE DEF ended
<1>8. GoodOf' = [s \in Ids |-> IF s \in ended THEN None ELSE GoodOf[s]]
  BY <1>4, <1>5, Ended
<1>9. GoodOf' = [s \in Ids |-> IF s \in {x \in Promise!Good : GoodOf[x].user = u}
                                THEN None ELSE GoodOf[s]]
  BY <1>7, <1>8
<1>. QED BY <1>9 DEF Promise!End, GoodOf

\* A reset.
LEMMA ResetPromise ==
    ASSUME LInv, NEW p \in Procs, CommitReset(p), ~ Refuse(p)
    PROVE  Promise!Serve(p)
<1>. USE DEF LInv, IInv
<1>. DEFINE r == req[p]
<1>1. /\ step[p] = "commit" /\ r.op = "reset" /\ Finish(p) /\ Answer(p, "ok")
      /\ password' = [password EXCEPT ![r.user] = fresh[p]] /\ session' = Revoked(p)
      /\ UNCHANGED <<now, known, active, used>>
  BY DEF CommitReset, Finish
<1>2. /\ r.user \in known /\ r.user \in Users
      /\ fresh[p] # None /\ fresh[p].secret = r.secret
  BY <1>1, OfCommit DEF OfAccount, Memory
<1>3. SecretOf[r.user] # None /\ SecretOf' = [SecretOf EXCEPT ![r.user] = r.secret]
  <2>1. password[r.user].secret # None
    BY <1>2, NoneIsNothing DEF TypeOK, Hashes
  <2>. QED BY <1>1, <1>2, <2>1 DEF SecretOf, TypeOK
<1>4. Promise!End({s \in Promise!Good : GoodOf[s].user = r.user})
  BY <1>1, RevocationSeen
<1>5. Promise!Reset(r)
  BY <1>1, <1>3, <1>4 DEF Promise!Reset, SecretOf, GoodOf
<1>. QED BY <1>1, <1>5, ServedBy DEF Promise!Apply

\* An activation opens no session again; a deactivation ends them.
LEMMA StatusPromise ==
    ASSUME LInv, NEW p \in Procs, CommitStatus(p)
    PROVE  Promise!Serve(p)
<1>. USE DEF LInv, IInv
<1>. DEFINE r == req[p]
<1>1. /\ step[p] = "commit" /\ r.op \in {"activate", "deactivate"}
      /\ Finish(p) /\ Answer(p, "ok")
      /\ active' = IF r.op = "activate" THEN active \cup {r.user} ELSE active \ {r.user}
      /\ session' = Revoked(p)
      /\ UNCHANGED <<now, known, password, used>>
  BY DEF CommitStatus, Finish
<1>2. r.user \in known /\ r.user \in Users
  BY <1>1, OfCommit DEF OfAccount
<1>3. SecretOf[r.user] # None /\ SecretOf' = SecretOf
  <2>1. password[r.user].secret # None
    BY <1>2, NoneIsNothing DEF TypeOK, Hashes
  <2>. QED BY <1>1, <1>2, <2>1 DEF SecretOf
<1>4. CASE r.op = "activate"
  <2>1. Mine(p) = {}
    BY <1>1, <1>4 DEF Aims
  <2>2. Open' = Open /\ \A s \in Ids : session'[s] = session[s]
    BY <1>1, <2>1, RevokedRows
  <2>3. \A s \in Ids : Usable(s)' <=> Usable(s)
    BY <1>1, <1>4, <2>2 DEF Usable, SessionsAreCurrent
  <2>4. GoodOf' = GoodOf
    BY <2>2, <2>3, NoneEnded
  <2>5. Promise!Activate(r)
    BY <1>1, <1>3, <1>4, <2>4 DEF Promise!Activate, SecretOf, GoodOf
  <2>. QED BY <1>1, <2>5, ServedBy DEF Promise!Apply
<1>5. CASE r.op = "deactivate"
  <2>1. active' = active \ {r.user}
    BY <1>1, <1>5
  <2>2. Promise!End({s \in Promise!Good : GoodOf[s].user = r.user})
    BY <1>1, <1>5, <2>1, RevocationSeen
  <2>3. Promise!Deactivate(r)
    BY <1>1, <1>3, <1>5, <2>1, <2>2 DEF Promise!Deactivate, SecretOf, GoodOf
  <2>. QED BY <1>1, <2>3, ServedBy DEF Promise!Apply
<1>. QED BY <1>1, <1>4, <1>5

\* A new account has the password it was provisioned with, and no session.
LEMMA ProvisionPromise ==
    ASSUME LInv, NEW p \in Procs, CommitProvision(p), ~ Refuse(p)
    PROVE  Promise!Serve(p)
<1>. USE DEF LInv, IInv
<1>. DEFINE r == req[p]
<1>1. /\ step[p] = "commit" /\ r.op = "provision" /\ r.user \notin known
      /\ Finish(p) /\ Answer(p, "ok")
      /\ known' = known \cup {r.user} /\ active' = active \cup {r.user}
      /\ password' = [password EXCEPT ![r.user] = fresh[p]]
      /\ UNCHANGED <<now, session, used>>
  BY DEF CommitProvision, Finish
<1>2. r.user \in Users /\ fresh[p] # None /\ fresh[p].secret = r.secret
  BY <1>1, OfCommit DEF Memory
<1>3. SecretOf[r.user] = None /\ SecretOf' = [SecretOf EXCEPT ![r.user] = r.secret]
  BY <1>1, <1>2 DEF SecretOf, TypeOK
<1>4. \A s \in Ids : Usable(s)' <=> Usable(s)
  BY <1>1 DEF Usable, Open, Stored, SessionsAreCurrent
<1>5. GoodOf' = GoodOf
  BY <1>1, <1>4, NoneEnded
<1>6. Promise!Provision(r)
  BY <1>1, <1>3, <1>5 DEF Promise!Provision, SecretOf, GoodOf
<1>. QED BY <1>1, <1>6, ServedBy DEF Promise!Apply

\* Each step is one of AccountSessions, or none.
LEMMA StepImplements == LInv /\ [Next]_vars => [Promise!Next]_Promise!vars
<1>. SUFFICES ASSUME LInv, [Next]_vars
              PROVE  [Promise!Next]_Promise!vars
  OBVIOUS
<1>1. CASE UNCHANGED <<now, req, reply, SecretOf, active, GoodOf, used>>
  BY <1>1 DEF Promise!vars, Promise!store, SecretOf, GoodOf
<1>2. CASE UNCHANGED <<now, req, reply, tables>>
  BY <1>1, <1>2, NothingSeen
<1>3. CASE Tick
  <2>1. now' = now + 1 /\ UNCHANGED <<known, active, password, session, used, req, reply>>
    BY <1>3 DEF Tick, tables, local
  <2>. DEFINE ended == {s \in Ids : Usable(s) /\ session[s].expires <= now'}
  <2>2. \A s \in Ids : Usable(s) => session[s].expires \in Int
    BY BoundsAreNatural DEF LInv, IInv, TypeOK, Rows, Usable, Open, Stored
  <2>3. now \in Int
    BY DEF LInv, IInv, TypeOK, Times
  <2>4. \A s \in Ids : s \in Open' <=> s \in Open
    BY <2>1 DEF Open, Stored
  <2>5. \A s \in Ids : Usable(s)' => Usable(s) /\ s \notin ended /\ session'[s] = session[s]
    <3>1. \A s \in Open : session[s].expires \in Int
      BY BoundsAreNatural DEF LInv, IInv, TypeOK, Rows, Open, Stored
    <3>. QED BY <2>1, <2>3, <2>4, <3>1 DEF Usable
  <2>6. \A s \in Ids : Usable(s) /\ s \notin ended => Usable(s)'
    BY <2>1, <2>2, <2>3, <2>4 DEF Usable
  <2>7. Promise!Good = {s \in Ids : Usable(s)}
    BY GoodAre DEF Promise!Good, GoodOf, LInv, IInv
  <2>8. {s \in Promise!Good : GoodOf[s].expires <= now'} = ended
    BY <2>7, GoodAre DEF LInv, IInv
  <2>. HIDE DEF ended
  <2>9. GoodOf' = [s \in Ids |-> IF s \in ended THEN None ELSE GoodOf[s]]
    BY <2>5, <2>6, Ended
  <2>10. GoodOf' = [s \in Ids |-> IF s \in {x \in Promise!Good : GoodOf[x].expires <= now'}
                                    THEN None ELSE GoodOf[s]]
    BY <2>8, <2>9
  <2>11. SecretOf' = SecretOf
    BY <2>1 DEF SecretOf
  <2>. QED BY <2>1, <2>10, <2>11 DEF Promise!Tick, Promise!End, Promise!Next, SecretOf, GoodOf
<1>4. ASSUME NEW p \in Procs, Begin(p)
      PROVE  Promise!Ask(p)
  <2>1. req[p] = None /\ UNCHANGED <<now, tables>>
        /\ \E r \in Requests : req' = [req EXCEPT ![p] = r]
        /\ reply' = [reply EXCEPT ![p] = "none"]
    BY <1>4 DEF Begin, Answer, LInv, IInv, Path
  <2>. QED BY <2>1, NothingSeen
           DEF Promise!Ask, Promise!Answer, Promise!store, SecretOf, GoodOf
<1>5. ASSUME NEW p \in Procs, LockTimeout(p) \/ Abort(p)
      PROVE  Promise!Serve(p)
  BY <1>5, RefusePromise DEF LockTimeout, Waiting, Abort
<1>6. ASSUME NEW p \in Procs, Commit(p)
      PROVE  Promise!Serve(p) \/ UNCHANGED <<now, req, reply, SecretOf, active, GoodOf, used>>
  <2>1. step[p] = "commit"
    BY <1>6 DEF Commit, CommitLogin, CommitLogout, CommitReset, CommitStatus, CommitProvision,
                CommitSweep
  <2>2. CASE Refuse(p)
    BY <2>1, <2>2, RefusePromise
  <2>3. CASE CommitSweep(p)
    <3>1. (Finish(p) /\ Answer(p, "ok")) \/ UNCHANGED <<now, req, reply>>
      BY <2>3 DEF CommitSweep
    <3>2. UNCHANGED <<SecretOf, active, GoodOf, used>> /\ now' = now
      BY <2>3, SweepUnseen
    <3>3. Promise!Cleanup(req[p])
      BY <2>3, <3>2 DEF CommitSweep, Promise!Cleanup, Promise!store, SecretOf, GoodOf
    <3>4. Promise!Apply(req[p])
      BY <3>3 DEF Promise!Apply
    <3>. QED BY <2>1, <3>1, <3>2, <3>4, ServedBy
  <2>. QED BY <1>6, <2>2, <2>3, LoginPromise, LogoutPromise, ResetPromise, StatusPromise,
              ProvisionPromise DEF Commit
<1>7. ASSUME NEW p \in Procs,
             \/ LookUp(p) \/ Verify(p) \/ Rehash(p) \/ LockUser(p) \/ Revoke(p)
             \/ LockSession(p) \/ Sweep(p)
      PROVE  Promise!Serve(p) \/ UNCHANGED <<now, req, reply, tables>>
  <2>1. step[p] # "idle"
    BY <1>7 DEF LookUp, Verify, Rehash, LockUser, Revoke, LockSession, Sweep
  <2>2. Refuse(p) \/ UNCHANGED <<now, req, reply, tables>>
    BY <1>7 DEF LookUp, Verify, Rehash, LockUser, Revoke, LockSession, Sweep
  <2>. QED BY <2>1, <2>2, RefusePromise
<1>8. UNCHANGED vars => UNCHANGED <<now, req, reply, tables>>
  BY DEF vars, local
<1>. QED
  BY <1>1, <1>2, <1>3, <1>4, <1>5, <1>6, <1>7, <1>8 DEF Next, Step, Promise!Next

\* To its clients the login is atomic: snapshots, threads, locks, rehashes and
\* the retention of dead rows show in no answer and in no session.
THEOREM KeepsPromise == Spec => ImplementsPromise
<1>1. Init => Promise!Init
  <2>. SUFFICES ASSUME Init
                PROVE  Promise!Init
    OBVIOUS
  <2>1. PICK s \in Secrets :
          password = [u \in Users |-> IF u \in known THEN [secret |-> s, salt |-> Dated] ELSE None]
    BY DEF Init
  <2>2. \A u \in Users : SecretOf[u] = IF u \in known THEN s ELSE None
    BY <2>1 DEF SecretOf
  <2>3. SecretOf \in [Users -> Secrets \cup {None}]
    BY <2>2 DEF SecretOf
  <2>4. active = {u \in Users : SecretOf[u] # None}
    BY <2>2, NoneIsNothing DEF Init
  <2>5. GoodOf = [x \in Ids |-> None]
    BY DEF Init, GoodOf, Usable, Open, Stored
  <2>. QED BY <2>3, <2>4, <2>5 DEF Init, Promise!Init, SecretOf, GoodOf
<1>. QED
  BY <1>1, StepImplements, LongInvariant, PTL DEF Spec, ImplementsPromise, Promise!Spec

=============================================================================
