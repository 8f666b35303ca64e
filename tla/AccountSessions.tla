-------------------------- MODULE AccountSessions ---------------------------
(***************************************************************************)
(* What app/auth promises its clients: an account has one password; a      *)
(* login succeeds with the password and the activity that the account has  *)
(* at that very moment; a session is good until it expires, is logged out  *)
(* of, or its account gets another password or is deactivated.  There are  *)
(* no hashes, locks, snapshots or rows of dead sessions here, and a        *)
(* cleanup does nothing at all.                                            *)
(***************************************************************************)
EXTENDS Integers

CONSTANTS Users, Secrets, Ids, Procs, Requests, TTL, None

VARIABLES
    now, req,
    reply,          \* what the last request was told
    secret,         \* the password of an account, None: no such account
    active,
    good,           \* sessions that authenticate, None for every other id
    used            \* ids that ever named a session

store == <<secret, active, good, used>>
vars == <<now, req, reply, store>>

Init ==
    /\ now = 0
    /\ req = [p \in Procs |-> None]
    /\ reply = [p \in Procs |-> "none"]
    /\ secret \in [Users -> Secrets \cup {None}]
    /\ active = {u \in Users : secret[u] # None}
    /\ good = [s \in Ids |-> None]
    /\ used = {}

Good == {s \in Ids : good[s] # None}

\* Sessions that are good no more.
End(ended) == good' = [s \in Ids |-> IF s \in ended THEN None ELSE good[s]]

Tick ==
    /\ now' = now + 1
    /\ End({s \in Good : good[s].expires <= now'})
    /\ UNCHANGED <<req, reply, secret, active, used>>

Login(r) ==
    /\ r.op = "login" /\ r.user \in active /\ secret[r.user] = r.secret
    /\ \E s \in Ids \ used :
        /\ used' = used \cup {s}
        /\ good' = [good EXCEPT ![s] = [user |-> r.user, expires |-> now + TTL]]
    /\ UNCHANGED <<secret, active>>

Logout(r) ==
    /\ r.op = "logout"
    /\ End({r.id})
    /\ UNCHANGED <<secret, active, used>>

Provision(r) ==
    /\ r.op = "provision" /\ secret[r.user] = None
    /\ secret' = [secret EXCEPT ![r.user] = r.secret]
    /\ active' = active \cup {r.user}
    /\ UNCHANGED <<good, used>>

Reset(r) ==
    /\ r.op = "reset" /\ secret[r.user] # None
    /\ secret' = [secret EXCEPT ![r.user] = r.secret]
    /\ End({s \in Good : good[s].user = r.user})
    /\ UNCHANGED <<active, used>>

Activate(r) ==
    /\ r.op = "activate" /\ secret[r.user] # None
    /\ active' = active \cup {r.user}
    /\ UNCHANGED <<secret, good, used>>

Deactivate(r) ==
    /\ r.op = "deactivate" /\ secret[r.user] # None
    /\ active' = active \ {r.user}
    /\ End({s \in Good : good[s].user = r.user})
    /\ UNCHANGED <<secret, used>>

\* Nobody notices it.
Cleanup(r) == r.op = "cleanup" /\ UNCHANGED store

Apply(r) ==
    \/ Login(r) \/ Logout(r) \/ Provision(r) \/ Reset(r) \/ Activate(r) \/ Deactivate(r)
    \/ Cleanup(r)

Answer(p, a) == reply' = [reply EXCEPT ![p] = a]

Ask(p) ==
    /\ req[p] = None
    /\ \E r \in Requests : req' = [req EXCEPT ![p] = r]
    /\ Answer(p, "none")
    /\ UNCHANGED <<now, store>>

\* A request ends: a success has been done in this one step, under what is true
\* then, and an error has changed nothing.
Serve(p) ==
    /\ req[p] # None
    /\ req' = [req EXCEPT ![p] = None]
    /\ \/ Answer(p, "ok") /\ Apply(req[p])
       \/ Answer(p, "error") /\ UNCHANGED store
    /\ UNCHANGED now

Next == Tick \/ \E p \in Procs : Ask(p) \/ Serve(p)

Spec == Init /\ [][Next]_vars

=============================================================================
