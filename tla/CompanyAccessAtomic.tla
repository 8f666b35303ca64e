------------------------ MODULE CompanyAccessAtomic -------------------------
(***************************************************************************)
(* What the companies component promises its clients: a request that is    *)
(* answered with success changed the tables in one step, somewhere between *)
(* question and answer, and was allowed to at that very moment; any other  *)
(* request changed nothing.  There are no stale roles, no half-done        *)
(* transfers and no locks in this specification.                           *)
(***************************************************************************)
EXTENDS CompanyRequests

CONSTANTS Procs, None

VARIABLES live, version, role, active, req, reply

tables == <<live, version, role, active>>
vars == <<tables, req, reply>>

Init ==
    /\ live = {}
    /\ version = [c \in Companies |-> 0]
    /\ role = [c \in Companies |-> [u \in Users |-> "none"]]
    /\ active = Users
    /\ req = [p \in Procs |-> None]
    /\ reply = [p \in Procs |-> "none"]

\* An active account may act on a company it has an allowed role in.
Authorized(r) ==
    /\ r.company \in live
    /\ role[r.company][r.actor] \in Allowed(r.op)
    /\ Allowed(r.op) = {"owner"} => r.actor \in active

Create(r) ==
    /\ r.op = "create" /\ r.actor \in active
    /\ \E c \in Companies :
        /\ version[c] = 0
        /\ live' = live \cup {c}
        /\ version' = [version EXCEPT ![c] = 1]
        /\ role' = [role EXCEPT ![c][r.actor] = "owner"]
    /\ UNCHANGED active

Update(r) ==
    /\ r.op = "update" /\ Authorized(r)
    /\ version[r.company] = r.version /\ r.version < MaxVersion
    /\ version' = [version EXCEPT ![r.company] = r.version + 1]
    /\ UNCHANGED <<live, role, active>>

Delete(r) ==
    /\ r.op = "delete" /\ Authorized(r)
    /\ version[r.company] = r.version
    /\ live' = live \ {r.company}
    /\ role' = [role EXCEPT ![r.company] = [v \in Users |-> "none"]]
    /\ UNCHANGED <<version, active>>

Grant(r) ==
    /\ r.op = "grant" /\ Authorized(r)
    /\ r.target \in active /\ role[r.company][r.target] = "none"
    /\ role' = [role EXCEPT ![r.company][r.target] = r.role]
    /\ UNCHANGED <<live, version, active>>

\* A new role for a member, or none any more.
Change(r) ==
    /\ r.op \in {"change", "revoke"} /\ Authorized(r)
    /\ role[r.company][r.target] \in GrantedRoles
    /\ role' = [role EXCEPT ![r.company][r.target] =
                                IF r.op = "revoke" THEN "none" ELSE r.role]
    /\ UNCHANGED <<live, version, active>>

Transfer(r) ==
    /\ r.op = "transfer" /\ Authorized(r)
    /\ r.target \in active /\ role[r.company][r.target] \in GrantedRoles
    /\ role' = [role EXCEPT ![r.company][r.actor] = r.role,
                            ![r.company][r.target] = "owner"]
    /\ UNCHANGED <<live, version, active>>

Activate(r) ==
    /\ r.op = "activate"
    /\ active' = active \cup {r.target}
    /\ UNCHANGED <<live, version, role>>

Deactivate(r) ==
    /\ r.op = "deactivate"
    /\ \A c \in live : role[c][r.target] # "owner"
    /\ active' = active \ {r.target}
    /\ UNCHANGED <<live, version, role>>

Apply(r) ==
    \/ Create(r) \/ Update(r) \/ Delete(r) \/ Grant(r) \/ Change(r)
    \/ Transfer(r) \/ Activate(r) \/ Deactivate(r)

\* Nobody with a deactivated account gets a request in.
Ask(p) ==
    \E r \in Requests :
        /\ req[p] = None
        /\ r.op \notin ScriptOps => r.actor \in active
        /\ req' = [req EXCEPT ![p] = r]
        /\ reply' = [reply EXCEPT ![p] = "none"]
        /\ UNCHANGED tables

Answer(p, a) ==
    /\ req[p] # None
    /\ req' = [req EXCEPT ![p] = None]
    /\ reply' = [reply EXCEPT ![p] = a]

Serve(p) == Answer(p, "ok") /\ Apply(req[p])

Fail(p) == Answer(p, "error") /\ UNCHANGED tables

Next == \E p \in Procs : Ask(p) \/ Serve(p) \/ Fail(p)

Spec == Init /\ [][Next]_vars

=============================================================================
