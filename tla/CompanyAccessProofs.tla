------------------------ MODULE CompanyAccessProofs -------------------------
(* Theorems about CompanyAccess, for any companies, accounts and requests. *)
EXTENDS CompanyAccess, FiniteSetTheorems, TLAPS

-----------------------------------------------------------------------------
(* Requests and row locks.                                                 *)

\* Which fields a request has, by its operation.
LEMMA RequestFields ==
    ASSUME NEW r \in Requests
    PROVE  /\ r.op \in {"create", "update", "delete", "grant", "change", "transfer",
                        "revoke", "activate", "deactivate"}
           /\ r.op \in CompanyOps => r.company \in Companies /\ r.actor \in Users
           /\ r.op = "create" => r.actor \in Users
           /\ r.op \in {"update", "delete"} => r.version \in 1..MaxVersion
           /\ r.op \in {"grant", "change", "transfer"} => r.role \in GrantedRoles
           /\ r.op \in {"grant", "change", "transfer", "revoke", "activate", "deactivate"}
                => r.target \in Users
BY DEF Requests, CompanyOps

\* A lock table has an entry for every row; whose processes hold rows is left
\* open, for there may be other programs than the API.
LockTable(Rows, t) == t = [r \in Rows |-> t[r]]

\* Taking a free row gives p that row, and leaves the others theirs.
LEMMA LockTables ==
    ASSUME NEW Rows, NEW t, LockTable(Rows, t), NEW r \in Rows, NEW p, Granted(t, r, p)
    PROVE  /\ LockTable(Rows, Take(t, r, p))
           /\ Take(t, r, p)[r] = p
           /\ \A s \in Rows : t[s] \notin {None, p} => Take(t, r, p)[s] = t[s]
           /\ \A s \in Rows : t[s] = p => Take(t, r, p)[s] = p
BY DEF Granted, Take, LockTable

\* Releasing p's rows frees nobody else's.
LEMMA Releases ==
    ASSUME NEW Rows, NEW t, LockTable(Rows, t), NEW p
    PROVE  /\ LockTable(Rows, Release(t, p))
           /\ \A s \in Rows : t[s] \notin {None, p} => Release(t, p)[s] = t[s]
BY DEF Release, LockTable

-----------------------------------------------------------------------------
(* Types.                                                                  *)

\* The types of everything but the holders of locks.
Typed ==
    /\ live \subseteq Companies
    /\ version \in [Companies -> 0..MaxVersion]
    /\ role \in [Companies -> [Users -> Roles \cup {"none"}]]
    /\ active \subseteq Users
    /\ LockTable(Companies, companyLock) /\ LockTable(Access, accessLock)
    /\ LockTable(Users, userLock)
    /\ req \in [Procs -> Requests \cup {None}]
    /\ step \in [Procs -> {"idle", "find", "lockCompany", "authorize",
                           "lockPrevious", "lockTarget", "findOwned",
                           "lockOwned", "lockUser", "check", "commit"}]
    /\ reply \in [Procs -> {"none", "ok", "error", "conflict"}]
    /\ seen \in [Procs -> 0..MaxVersion]
    /\ todo \in [Procs -> SUBSET Companies]

\* The answer to a request leaves everything but the tables well typed.
LEMMA FinishTypes ==
    ASSUME Typed, NEW p \in Procs, NEW a \in {"ok", "error", "conflict"}, Finish(p, a),
           live' \subseteq Companies,
           version' \in [Companies -> 0..MaxVersion],
           role' \in [Companies -> [Users -> Roles \cup {"none"}]],
           active' \subseteq Users
    PROVE  Typed'
<1>1. LockTable(Companies, companyLock')
  BY Releases DEF Typed, Finish
<1>2. LockTable(Access, accessLock')
  BY Releases DEF Typed, Finish
<1>3. LockTable(Users, userLock')
  BY Releases DEF Typed, Finish
<1>4. step' \in [Procs -> {"idle", "find", "lockCompany", "authorize",
                          "lockPrevious", "lockTarget", "findOwned",
                          "lockOwned", "lockUser", "check", "commit"}]
  BY DEF Typed, Finish, Goto
<1>5. /\ req' \in [Procs -> Requests \cup {None}]
      /\ reply' \in [Procs -> {"none", "ok", "error", "conflict"}]
      /\ seen' \in [Procs -> 0..MaxVersion]
      /\ todo' \in [Procs -> SUBSET Companies]
  BY MaxVersionIsPositive DEF Typed, Finish
<1>. QED
  BY <1>1, <1>2, <1>3, <1>4, <1>5 DEF Typed

\* A rolled back request leaves everything well typed.
LEMMA RefuseTypes ==
    ASSUME Typed, NEW p \in Procs, Refuse(p)
    PROVE  Typed'
BY FinishTypes DEF Refuse, Typed, tables

\* Between requests a process has none; at every other statement it has one,
\* of a use case that has this statement.
Path ==
    \A p \in Procs :
        /\ step[p] = "idle" => req[p] = None
        /\ step[p] # "idle" => req[p] \in Requests
        /\ step[p] \in {"find", "lockCompany", "authorize"} => req[p].op \in CompanyOps
        /\ step[p] = "lockPrevious" => req[p].op = "transfer"
        /\ step[p] = "lockTarget" => req[p].op \in {"change", "revoke", "transfer"}
        /\ step[p] \in {"findOwned", "lockOwned"} => req[p].op = "deactivate"
        /\ step[p] = "lockUser" =>
              req[p].op \in {"create", "grant", "transfer", "activate", "deactivate"}
        /\ step[p] = "check" => req[p].op \in {"grant", "deactivate"}

\* A statement that is neither the first nor the last: the process goes on to
\* a next statement, and only takes a free lock or learns something.
LEMMA GotoTypes ==
    ASSUME Typed, NEW p \in Procs,
           NEW s \in {"find", "lockCompany", "authorize", "lockPrevious", "lockTarget",
                      "findOwned", "lockOwned", "lockUser", "check", "commit"},
           Goto(p, s), UNCHANGED <<tables, reply>>,
           LockTable(Companies, companyLock'),
           LockTable(Access, accessLock'),
           LockTable(Users, userLock'),
           req' \in [Procs -> Requests \cup {None}],
           seen' \in [Procs -> 0..MaxVersion],
           todo' \in [Procs -> SUBSET Companies]
    PROVE  Typed'
<1>1. step' \in [Procs -> {"idle", "find", "lockCompany", "authorize",
                          "lockPrevious", "lockTarget", "findOwned",
                          "lockOwned", "lockUser", "check", "commit"}]
  BY DEF Typed, Goto
<1>. QED
  BY <1>1 DEF Typed, tables

\* Each statement keeps the types and hands over to one of its use case.
LEMMA TypeStep ==
    Typed /\ Path /\ [Next]_vars => Typed' /\ Path'
<1>. SUFFICES ASSUME Typed, Path, [Next]_vars
              PROVE  Typed' /\ Path'
  OBVIOUS
<1>1. CASE UNCHANGED vars
  BY <1>1 DEF vars, tables, locks, local, Typed, Path
<1>2. ASSUME NEW p \in Procs, Begin(p)
      PROVE  Typed' /\ Path'
  <2>1. PICK r \in Requests :
          /\ req' = [req EXCEPT ![p] = r]
          /\ reply' = [reply EXCEPT ![p] = "none"]
          /\ Goto(p, FirstStep(r.op))
          /\ UNCHANGED <<tables, locks, seen, todo>>
    BY <1>2 DEF Begin
  <2>2. /\ FirstStep(r.op) \in {"find", "lockUser", "findOwned"}
        /\ FirstStep(r.op) = "find" => r.op \in CompanyOps
        /\ FirstStep(r.op) = "lockUser" => r.op \in {"create", "activate"}
        /\ FirstStep(r.op) = "findOwned" => r.op = "deactivate"
    BY RequestFields DEF FirstStep, CompanyOps
  <2>3. Typed'
    BY <2>1, <2>2 DEF Typed, Goto, tables, locks
  <2>4. Path'
    BY <2>1, <2>2 DEF Typed, Path, Goto
  <2>. QED BY <2>3, <2>4
<1>3. ASSUME NEW p \in Procs, NEW a \in {"ok", "error", "conflict"}, Finish(p, a)
      PROVE  Path'
  BY <1>3 DEF Typed, Path, Finish, Goto
<1>4. ASSUME NEW p \in Procs, Refuse(p)
      PROVE  Typed' /\ Path'
  BY <1>3, <1>4, RefuseTypes DEF Refuse
<1>5. ASSUME NEW p \in Procs, NEW s \in {"lockCompany", "authorize",
                      "lockPrevious", "lockTarget", "lockOwned", "lockUser", "check", "commit"},
             step[p] # "idle", Goto(p, s), req' = req,
             s \in {"lockCompany", "authorize"} => req[p].op \in CompanyOps,
             s = "lockPrevious" => req[p].op = "transfer",
             s = "lockTarget" => req[p].op \in {"change", "revoke", "transfer"},
             s = "lockOwned" => req[p].op = "deactivate",
             s = "lockUser" =>
               req[p].op \in {"create", "grant", "transfer", "activate", "deactivate"},
             s = "check" => req[p].op \in {"grant", "deactivate"}
      PROVE  Path'
  BY <1>5 DEF Typed, Path, Goto
<1>6. ASSUME NEW p \in Procs, Find(p)
      PROVE  Typed' /\ Path'
  <2>1. CASE Refuse(p)
    BY <2>1, <1>4
  <2>2. CASE Goto(p, "lockCompany") /\ UNCHANGED <<tables, locks, req, reply, seen, todo>>
    BY <1>5, <1>6, <2>2, GotoTypes DEF Find, Path, Typed, locks
  <2>. QED BY <1>6, <2>1, <2>2 DEF Find
<1>7. ASSUME NEW p \in Procs, LockCompany(p)
      PROVE  Typed' /\ Path'
  <2>1. CASE Refuse(p)
    BY <2>1, <1>4
  <2>2. CASE ~ Refuse(p)
    <3>1. /\ step[p] = "lockCompany"
          /\ Granted(companyLock, req[p].company, p)
          /\ companyLock' = Take(companyLock, req[p].company, p)
          /\ seen' = [seen EXCEPT ![p] = version[req[p].company]]
          /\ Goto(p, "authorize")
          /\ UNCHANGED <<tables, accessLock, userLock, req, reply, todo>>
      BY <1>7, <2>2 DEF LockCompany
    <3>2. req[p] \in Requests /\ req[p].op \in CompanyOps /\ req[p].company \in Companies
      BY <3>1, RequestFields DEF Path
    <3>3. LockTable(Companies, companyLock')
      BY <3>1, <3>2, LockTables DEF Typed
    <3>4. seen' \in [Procs -> 0..MaxVersion]
      BY <3>1, <3>2 DEF Typed
    <3>. QED BY <1>5, <3>1, <3>2, <3>3, <3>4, GotoTypes DEF Typed
  <2>. QED BY <2>1, <2>2
<1>8. ASSUME NEW p \in Procs, Authorize(p)
      PROVE  Typed' /\ Path'
  <2>1. CASE Refuse(p)
    BY <2>1, <1>4
  <2>2. CASE ~ Refuse(p)
    <3>1. /\ step[p] = "authorize"
          /\ Goto(p, AfterAuthorize(req[p].op))
          /\ UNCHANGED <<tables, locks, req, reply, seen, todo>>
      BY <1>8, <2>2 DEF Authorize
    <3>2. req[p].op \in CompanyOps
      BY <3>1 DEF Path
    <3>. DEFINE s == AfterAuthorize(req[p].op)
    <3>3. /\ s \in {"commit", "lockUser", "lockPrevious", "lockTarget"}
          /\ s = "lockUser" => req[p].op = "grant"
          /\ s = "lockPrevious" => req[p].op = "transfer"
          /\ s = "lockTarget" => req[p].op \in {"change", "revoke"}
      BY <3>2 DEF AfterAuthorize, CompanyOps
    <3>. HIDE DEF s
    <3>4. Goto(p, s)
      BY <3>1 DEF s
    <3>. QED BY <1>5, <3>1, <3>3, <3>4, GotoTypes DEF Typed, locks
  <2>. QED BY <2>1, <2>2
<1>9. ASSUME NEW p \in Procs, LockPrevious(p)
      PROVE  Typed' /\ Path'
  <2>1. req[p] \in Requests /\ req[p].op = "transfer" /\ <<req[p].company, req[p].actor>> \in Access
    BY <1>9, RequestFields DEF LockPrevious, Path, CompanyOps, Access
  <2>. DEFINE a == <<req[p].company, req[p].actor>>
  <2>0. Granted(accessLock, a, p) /\ accessLock' = Take(accessLock, a, p)
    BY <1>9 DEF LockPrevious
  <2>2. LockTable(Access, accessLock')
    BY <2>0, <2>1, LockTables DEF Typed
  <2>. /\ Goto(p, "lockTarget")
       /\ UNCHANGED <<tables, companyLock, userLock, req, reply, seen, todo>>
    BY <1>9 DEF LockPrevious
  <2>3. Typed'
    BY <2>2, GotoTypes DEF Typed
  <2>4. Path'
    BY <1>5, <1>9, <2>1 DEF LockPrevious
  <2>. QED BY <2>3, <2>4
<1>10. ASSUME NEW p \in Procs, LockTarget(p)
       PROVE  Typed' /\ Path'
  <2>1. CASE Refuse(p)
    BY <2>1, <1>4
  <2>2. CASE ~ Refuse(p)
    <3>. DEFINE a == <<req[p].company, req[p].target>>
                s == IF req[p].op = "transfer" THEN "lockUser" ELSE "commit"
    <3>1. /\ step[p] = "lockTarget"
          /\ Granted(accessLock, a, p)
          /\ accessLock' = Take(accessLock, a, p)
          /\ Goto(p, s)
          /\ UNCHANGED <<tables, companyLock, userLock, req, reply, seen, todo>>
      BY <1>10, <2>2 DEF LockTarget
    <3>2. a \in Access
      BY <3>1, RequestFields DEF Path, CompanyOps, Access
    <3>3. LockTable(Access, accessLock')
      BY <3>1, <3>2, LockTables DEF Typed
    <3>4. s \in {"lockUser", "commit"} /\ (s = "lockUser" => req[p].op = "transfer")
      OBVIOUS
    <3>. HIDE DEF s
    <3>. QED BY <1>5, <3>1, <3>3, <3>4, GotoTypes DEF Typed
  <2>. QED BY <2>1, <2>2
<1>11. ASSUME NEW p \in Procs, FindOwned(p)
       PROVE  Typed' /\ Path'
  <2>. DEFINE owned == {c \in live : role[c][req[p].target] = "owner"}
              s == IF owned = {} THEN "lockUser" ELSE "lockOwned"
  <2>1. /\ step[p] = "findOwned"
        /\ todo' = [todo EXCEPT ![p] = owned]
        /\ Goto(p, s)
        /\ UNCHANGED <<tables, locks, req, reply, seen>>
    BY <1>11 DEF FindOwned
  <2>2. req[p].op = "deactivate" /\ s \in {"lockUser", "lockOwned"} /\ owned \subseteq Companies
    BY <2>1 DEF Path, Typed
  <2>3. todo' \in [Procs -> SUBSET Companies]
    BY <2>1, <2>2 DEF Typed
  <2>. HIDE DEF s, owned
  <2>. QED BY <1>5, <2>1, <2>2, <2>3, GotoTypes DEF Typed, locks
<1>12. ASSUME NEW p \in Procs, LockOwned(p)
       PROVE  Typed' /\ Path'
  <2>1. PICK c \in NextOwned(p) :
          /\ step[p] = "lockOwned"
          /\ Granted(companyLock, c, p)
          /\ companyLock' = IF c \in live THEN Take(companyLock, c, p) ELSE companyLock
          /\ todo' = [todo EXCEPT ![p] = @ \ {c}]
          /\ Goto(p, IF todo[p] = {c} THEN "lockUser" ELSE "lockOwned")
          /\ UNCHANGED <<tables, accessLock, userLock, req, reply, seen>>
    BY <1>12 DEF LockOwned
  <2>2. req[p].op = "deactivate" /\ c \in Companies
    BY <2>1 DEF Path, Typed, NextOwned
  <2>3. LockTable(Companies, companyLock')
    BY <2>1, <2>2, LockTables DEF Typed
  <2>4. todo' \in [Procs -> SUBSET Companies]
    BY <2>1 DEF Typed
  <2>5. CASE todo[p] = {c}
    BY <1>5, <2>1, <2>2, <2>3, <2>4, <2>5, GotoTypes DEF Typed
  <2>6. CASE todo[p] # {c}
    BY <1>5, <2>1, <2>2, <2>3, <2>4, <2>6, GotoTypes DEF Typed
  <2>. QED BY <2>5, <2>6
<1>13. ASSUME NEW p \in Procs, LockUser(p)
       PROVE  Typed' /\ Path'
  <2>1. CASE Refuse(p)
    BY <2>1, <1>4
  <2>2. CASE ~ Refuse(p)
    <3>. DEFINE s == IF req[p].op \in {"grant", "deactivate"} THEN "check" ELSE "commit"
    <3>1. /\ step[p] = "lockUser"
          /\ Granted(userLock, Subject(req[p]), p)
          /\ userLock' = Take(userLock, Subject(req[p]), p)
          /\ Goto(p, s)
          /\ UNCHANGED <<tables, companyLock, accessLock, req, reply, seen, todo>>
      BY <1>13, <2>2 DEF LockUser
    <3>2. Subject(req[p]) \in Users
      BY <3>1, RequestFields DEF Path, Subject
    <3>3. LockTable(Users, userLock')
      BY <3>1, <3>2, LockTables DEF Typed
    <3>4. s \in {"check", "commit"} /\ (s = "check" => req[p].op \in {"grant", "deactivate"})
      OBVIOUS
    <3>. HIDE DEF s
    <3>. QED BY <1>5, <3>1, <3>3, <3>4, GotoTypes DEF Typed
  <2>. QED BY <2>1, <2>2
<1>14. ASSUME NEW p \in Procs, Check(p)
       PROVE  Typed' /\ Path'
  <2>1. CASE Refuse(p)
    BY <2>1, <1>4
  <2>2. CASE ~ Refuse(p)
    BY <1>5, <1>14, <2>2, GotoTypes DEF Check, Typed, locks
  <2>. QED BY <2>1, <2>2
<1>15. ASSUME NEW p \in Procs, Commit(p)
       PROVE  Typed' /\ Path'
  <2>1. req[p] \in Requests
    BY <1>15 DEF Commit, CommitCreate, CommitUpdate, CommitDelete, CommitGrant,
                CommitChange, CommitTransfer, CommitStatus, Path
  <2>2. CASE CommitCreate(p)
    <3>1. CASE Refuse(p)
      BY <3>1, <1>4
    <3>2. CASE ~ Refuse(p)
      <4>1. PICK c \in Companies :
              /\ live' = live \cup {c}
              /\ version' = [version EXCEPT ![c] = 1]
              /\ role' = [role EXCEPT ![c][req[p].actor] = "owner"]
              /\ Finish(p, "ok")
              /\ UNCHANGED active
        BY <2>2, <3>2 DEF CommitCreate
      <4>2. version' \in [Companies -> 0..MaxVersion]
        BY <4>1, MaxVersionIsPositive DEF Typed
      <4>3. role' \in [Companies -> [Users -> Roles \cup {"none"}]]
        BY <4>1 DEF Typed, Roles
      <4>. QED BY <4>1, <4>2, <4>3, <1>3, FinishTypes DEF Typed
    <3>. QED BY <3>1, <3>2
  <2>3. CASE CommitUpdate(p)
    <3>1. CASE Refuse(p)
      BY <3>1, <1>4
    <3>2. CASE ~ Refuse(p)
      <4>1. req[p].version \in 1..MaxVersion /\ req[p].version # MaxVersion
        BY <2>1, <2>3, <3>2, RequestFields DEF CommitUpdate
      <4>2. /\ \/ version' = version
               \/ version' = [version EXCEPT ![req[p].company] = req[p].version + 1]
            /\ Finish(p, "ok")
            /\ UNCHANGED <<live, role, active>>
        BY <2>3, <3>2 DEF CommitUpdate
      <4>. req[p].version + 1 \in 0..MaxVersion
        BY <4>1, MaxVersionIsPositive
      <4>3. version' \in [Companies -> 0..MaxVersion]
        BY <4>2 DEF Typed
      <4>. QED BY <4>2, <4>3, <1>3, FinishTypes DEF Typed
    <3>. QED BY <3>1, <3>2
  <2>4. CASE CommitDelete(p)
    <3>1. role' \in [Companies -> [Users -> Roles \cup {"none"}]]
      BY <2>4 DEF CommitDelete, Typed
    <3>2. Finish(p, "ok") /\ live' \subseteq live /\ UNCHANGED <<version, active>>
      BY <2>4 DEF CommitDelete
    <3>. QED BY <3>1, <3>2, <1>3, FinishTypes DEF Typed
  <2>5. ASSUME NEW roles \in [Companies -> [Users -> Roles \cup {"none"}]], NEW b \in BOOLEAN,
               Write(p, roles, b)
        PROVE  Typed' /\ Path'
    <3>1. role' \in [Companies -> [Users -> Roles \cup {"none"}]]
      BY <2>5 DEF Write, Typed
    <3>2. PICK answer \in {"ok", "conflict"} : Finish(p, answer)
      BY <2>5 DEF Write
    <3>. QED BY <2>5, <3>1, <3>2, <1>3, FinishTypes DEF Write, Typed
  <2>6. CASE CommitGrant(p)
    <3>1. [role EXCEPT ![req[p].company][req[p].target] = req[p].role] \in [Companies -> [Users -> Roles \cup {"none"}]]
      BY <2>1, <2>6, RequestFields DEF CommitGrant, Typed, Roles
    <3>. QED BY <2>5, <2>6, <3>1 DEF CommitGrant
  <2>7. CASE CommitChange(p)
    <3>1. [role EXCEPT ![req[p].company][req[p].target] =
             IF req[p].op = "revoke" THEN "none" ELSE req[p].role]
            \in [Companies -> [Users -> Roles \cup {"none"}]]
      BY <2>1, <2>7, RequestFields DEF CommitChange, Typed, Roles
    <3>. QED BY <2>5, <2>7, <3>1 DEF CommitChange
  <2>8. CASE CommitTransfer(p)
    <3>. DEFINE demoted == [role EXCEPT ![req[p].company][req[p].actor] = req[p].role]
                promoted == [demoted EXCEPT ![req[p].company][req[p].target] = "owner"]
    <3>1. demoted \in [Companies -> [Users -> Roles \cup {"none"}]]
      BY <2>1, <2>8, RequestFields DEF CommitTransfer, Typed, Roles
    <3>2. promoted \in [Companies -> [Users -> Roles \cup {"none"}]]
      BY <3>1 DEF Roles
    <3>. QED BY <2>5, <2>8, <3>2 DEF CommitTransfer, ManyOwners
  <2>9. CASE CommitStatus(p)
    <3>1. active' \subseteq Users
      BY <2>1, <2>9, RequestFields DEF CommitStatus, Typed, ScriptOps
    <3>. QED BY <2>9, <3>1, <1>3, FinishTypes DEF CommitStatus, Typed
  <2>. QED BY <1>15, <2>2, <2>3, <2>4, <2>6, <2>7, <2>8, <2>9 DEF Commit
<1>. QED
  BY <1>1, <1>2, <1>4, <1>6, <1>7, <1>8, <1>9, <1>10, <1>11, <1>12, <1>13, <1>14, <1>15
  DEF Next, Step, LockTimeout, Abort

-----------------------------------------------------------------------------
(* The inductive invariant.                                                *)

\* p has passed accessible() and has not ended its transaction.
InCompany(p) ==
    step[p] \notin {"idle", "find", "lockCompany"} /\ req[p].op \in CompanyOps

\* Past the account's row lock.
InAccount(p) ==
    /\ step[p] \in {"check", "commit"}
    /\ req[p].op \in {"create", "grant", "transfer", "activate", "deactivate"}

\* The row locks p holds, and what it found under each: the locks are what
\* keeps these facts true until p commits.
Held(p) ==
    LET r == req[p] IN
    /\ InCompany(p) =>
          companyLock[r.company] = p /\ r.company \in live /\ seen[p] = version[r.company]
    /\ InCompany(p) /\ step[p] # "authorize" =>
          /\ role[r.company][r.actor] \in Allowed(r.op)
          /\ r.op \in {"update", "delete"} => seen[p] = r.version
    /\ InAccount(p) =>
          userLock[Subject(r)] = p /\ (r.op \notin ScriptOps => Subject(r) \in active)
    /\ \/ step[p] \in {"lockUser", "commit"} /\ r.op = "transfer"
       \/ step[p] = "commit" /\ r.op \in {"change", "revoke"}
       => role[r.company][r.target] \in GrantedRoles
    /\ step[p] = "commit" /\ r.op = "grant" => role[r.company][r.target] = "none"
    /\ step[p] = "commit" /\ r.op = "deactivate" =>
          \A c \in live : role[c][r.target] # "owner"

\* The rows without an id's company: never used ids, and no orphaned access.
NoOrphans ==
    \A c \in Companies :
        /\ version[c] = 0 => c \notin live
        /\ c \notin live => \A u \in Users : role[c][u] = "none"

IInv ==
    /\ Typed /\ Path
    /\ ExactlyOneOwner /\ OwnerIsActive /\ NoOrphans /\ BackstopSilent
    /\ \A p \in Procs : Held(p)

\* A step of p leaves the other processes where they are, with their locks.
Keeps(p) ==
    /\ \A q \in Procs \ {p} :
        step'[q] = step[q] /\ req'[q] = req[q] /\ seen'[q] = seen[q] /\ reply'[q] = reply[q]
    /\ \A c \in Companies : companyLock[c] \notin {None, p} => companyLock'[c] = companyLock[c]
    /\ \A a \in Access : accessLock[a] \notin {None, p} => accessLock'[a] = accessLock[a]
    /\ \A u \in Users : userLock[u] \notin {None, p} => userLock'[u] = userLock[u]

\* A step of p changes no company that another process has locked, and makes
\* no owner of, nor changes, an account that another process has locked.  (Only
\* a creation does not look whether the id it draws is locked: nobody has it.)
Spares(p) ==
    /\ \A c \in Companies : companyLock[c] \notin {None, p} /\ version[c] # 0 =>
          version'[c] = version[c] /\ role'[c] = role[c] /\ (c \in live' <=> c \in live)
    /\ \A u \in Users : userLock[u] \notin {None, p} =>
          /\ u \in active' <=> u \in active
          /\ \A c \in live' : role'[c][u] = "owner" => c \in live /\ role[c][u] = "owner"

Harmless(p) == IInv' /\ Keeps(p) /\ Spares(p)

\* So what the others hold and found stays true.
LEMMA OthersHold ==
    ASSUME IInv, NEW p, Keeps(p), Spares(p),
           NEW q \in Procs, q # p
    PROVE  Held(q)'
<1>. DEFINE r == req[q]
<1>1. /\ step'[q] = step[q] /\ req'[q] = r /\ seen'[q] = seen[q]
      /\ InCompany(q)' <=> InCompany(q)
      /\ InAccount(q)' <=> InAccount(q)
  BY DEF Keeps, InCompany, InAccount
<1>2. step[q] # "idle" => r \in Requests
  BY DEF IInv, Path
<1>3. Held(q)
  BY DEF IInv
<1>4. ASSUME InCompany(q)
      PROVE  /\ r.company \in live /\ r.company \in live'
             /\ companyLock'[r.company] = q
             /\ version'[r.company] = version[r.company]
             /\ role'[r.company] = role[r.company]
  <2>1. r.company \in live /\ companyLock[r.company] = q
    BY <1>3, <1>4 DEF Held
  <2>2. r.company \in Companies /\ version[r.company] # 0
    BY <2>1 DEF IInv, Typed, NoOrphans
  <2>3. companyLock[r.company] \notin {None, p}
    BY <2>1, NoneIsNoProc
  <2>. QED BY <2>1, <2>2, <2>3 DEF Keeps, Spares
<1>5. ASSUME InAccount(q)
      PROVE  /\ userLock[Subject(r)] = q /\ userLock'[Subject(r)] = q
             /\ Subject(r) \in active' <=> Subject(r) \in active
             /\ \A c \in live' : role'[c][Subject(r)] = "owner" =>
                   c \in live /\ role[c][Subject(r)] = "owner"
  <2>1. r \in Requests /\ Subject(r) \in Users
    BY <1>2, <1>5, RequestFields DEF InAccount, Subject
  <2>2. userLock[Subject(r)] = q /\ userLock[Subject(r)] \notin {None, p}
    BY <1>3, <1>5, NoneIsNoProc DEF Held
  <2>. QED
    BY <2>1, <2>2 DEF Keeps, Spares
<1>6. InCompany(q) =>
        companyLock'[r.company] = q /\ r.company \in live' /\ seen'[q] = version'[r.company]
  BY <1>1, <1>3, <1>4 DEF Held
<1>7. InCompany(q) /\ step[q] # "authorize" =>
        /\ role'[r.company][r.actor] \in Allowed(r.op)
        /\ r.op \in {"update", "delete"} => seen'[q] = r.version
  BY <1>1, <1>3, <1>4 DEF Held
<1>8. InAccount(q) =>
        userLock'[Subject(r)] = q /\ (r.op \notin ScriptOps => Subject(r) \in active')
  BY <1>3, <1>5 DEF Held
<1>9. \/ step[q] \in {"lockUser", "commit"} /\ r.op = "transfer"
      \/ step[q] = "commit" /\ r.op \in {"change", "revoke"}
      => role'[r.company][r.target] \in GrantedRoles
  BY <1>3, <1>4 DEF Held, InCompany, CompanyOps
<1>10. step[q] = "commit" /\ r.op = "grant" => role'[r.company][r.target] = "none"
  BY <1>3, <1>4 DEF Held, InCompany, CompanyOps
<1>11. step[q] = "commit" /\ r.op = "deactivate" =>
         \A c \in live' : role'[c][r.target] # "owner"
  BY <1>3, <1>5 DEF Held, InAccount, Subject
<1>. QED
  BY <1>1, <1>6, <1>7, <1>8, <1>9, <1>10, <1>11 DEF Held

-----------------------------------------------------------------------------
(* The invariant across one step.                                          *)

\* A statement that writes nothing.
LEMMA ReadStep ==
    ASSUME IInv, Typed', Path', NEW p \in Procs, Keeps(p), UNCHANGED tables,
           Held(p)', reply'[p] # "conflict"
    PROVE  Harmless(p)
<1>1. Spares(p)
  BY DEF Spares, tables
<1>2. \A q \in Procs : Held(q)'
  BY <1>1, OthersHold
<1>3. ExactlyOneOwner' /\ OwnerIsActive' /\ NoOrphans'
  BY DEF IInv, ExactlyOneOwner, OwnerIsActive, NoOrphans, tables
<1>4. BackstopSilent'
  BY DEF IInv, BackstopSilent, Keeps
<1>. QED BY <1>1, <1>2, <1>3, <1>4 DEF IInv, Harmless

\* The end of a transaction: p holds nothing any more, the others all they had.
LEMMA FinishKeeps ==
    ASSUME Typed, NEW p \in Procs, NEW a, Finish(p, a)
    PROVE  Keeps(p) /\ Held(p)' /\ reply'[p] = a
<1>1. step'[p] = "idle" /\ reply'[p] = a
  BY DEF Typed, Finish, Goto
<1>2. Held(p)'
  BY <1>1 DEF Held, InCompany, InAccount
<1>3. /\ \A c \in Companies : companyLock[c] \notin {None, p} => companyLock'[c] = companyLock[c]
      /\ \A d \in Access : accessLock[d] \notin {None, p} => accessLock'[d] = accessLock[d]
      /\ \A u \in Users : userLock[u] \notin {None, p} => userLock'[u] = userLock[u]
  BY Releases DEF Typed, Finish
<1>4. Keeps(p)
  BY <1>3 DEF Keeps, Typed, Finish, Goto
<1>. QED BY <1>1, <1>2, <1>4

\* A request that is refused leaves the tables, so the invariant stays.
LEMMA RefuseStep ==
    ASSUME IInv, Typed', Path', NEW p \in Procs, Refuse(p)
    PROVE  Harmless(p)
BY ReadStep, FinishKeeps DEF Refuse, IInv

\* A COMMIT with its writes.
LEMMA WriteStep ==
    ASSUME IInv, Typed', Path', NEW p \in Procs, Finish(p, "ok"), Spares(p),
           ExactlyOneOwner', OwnerIsActive', NoOrphans'
    PROVE  Harmless(p)
<1>1. Keeps(p) /\ Held(p)' /\ reply'[p] = "ok"
  BY FinishKeeps DEF IInv
<1>2. \A q \in Procs : Held(q)'
  BY <1>1, OthersHold
<1>3. BackstopSilent'
  BY <1>1 DEF IInv, BackstopSilent, Keeps
<1>. QED BY <1>1, <1>2, <1>3 DEF IInv, Harmless

\* p moves on to statement s, having taken free rows only.
LEMMA GotoKeeps ==
    ASSUME Typed, NEW p \in Procs, NEW s, Goto(p, s), UNCHANGED <<req, reply>>,
           \/ seen' = seen
           \/ \E v : seen' = [seen EXCEPT ![p] = v],
           \/ companyLock' = companyLock
           \/ \E c \in Companies : Granted(companyLock, c, p) /\ companyLock' = Take(companyLock, c, p),
           \/ accessLock' = accessLock
           \/ \E a \in Access : Granted(accessLock, a, p) /\ accessLock' = Take(accessLock, a, p),
           \/ userLock' = userLock
           \/ \E u \in Users : Granted(userLock, u, p) /\ userLock' = Take(userLock, u, p)
    PROVE  Keeps(p) /\ step'[p] = s /\ reply'[p] = reply[p]
<1>1. \A c \in Companies : companyLock[c] \notin {None, p} => companyLock'[c] = companyLock[c]
  BY LockTables DEF Typed
<1>2. /\ \A a \in Access : accessLock[a] \notin {None, p} => accessLock'[a] = accessLock[a]
      /\ \A u \in Users : userLock[u] \notin {None, p} => userLock'[u] = userLock[u]
  BY LockTables DEF Typed
<1>3. \A q \in Procs : q # p => step'[q] = step[q] /\ seen'[q] = seen[q]
  BY DEF Typed, Goto
<1>. QED BY <1>1, <1>2, <1>3 DEF Keeps, Typed, Goto

\* The reading and locking statements, and the beginning of a request, keep the
\* invariant: each adds to what the request holds what it has just checked.
LEMMA ReadingSteps ==
    ASSUME IInv, Typed', Path', NEW p \in Procs,
           \/ Begin(p) \/ Find(p) \/ LockCompany(p) \/ Authorize(p) \/ LockPrevious(p)
           \/ LockTarget(p) \/ FindOwned(p) \/ LockOwned(p) \/ LockUser(p) \/ Check(p)
    PROVE  Harmless(p)
<1>. USE DEF IInv
<1>0. reply[p] # "conflict" /\ Held(p) /\ (step[p] # "idle" => req[p] \in Requests)
  BY DEF BackstopSilent, Path
<1>1. CASE Begin(p)
  <2>1. PICK r \in Requests :
          /\ req' = [req EXCEPT ![p] = r]
          /\ reply' = [reply EXCEPT ![p] = "none"]
          /\ Goto(p, FirstStep(r.op))
          /\ UNCHANGED <<tables, locks, seen, todo>>
    BY <1>1 DEF Begin
  <2>2. step'[p] \in {"find", "lockUser", "findOwned"} /\ req'[p] = r
    BY <2>1 DEF Typed, Goto, FirstStep
  <2>3. step'[p] = "lockUser" => r.op \notin CompanyOps
    BY <2>1, RequestFields DEF Typed, Goto, FirstStep, CompanyOps
  <2>4. step'[p] = "findOwned" => r.op \notin CompanyOps
    BY <2>1, RequestFields DEF Typed, Goto, FirstStep, CompanyOps
  <2>5. Held(p)'
    BY <2>2, <2>3, <2>4 DEF Held, InCompany, InAccount, CompanyOps
  <2>6. Keeps(p) /\ reply'[p] = "none"
    BY <2>1 DEF Keeps, Typed, Goto, locks
  <2>. QED BY <2>1, <2>5, <2>6, ReadStep
<1>2. CASE Find(p)
  <2>1. CASE Refuse(p)
    BY <2>1, RefuseStep
  <2>2. CASE ~ Refuse(p)
    <3>1. Goto(p, "lockCompany") /\ UNCHANGED <<tables, locks, req, reply, seen, todo>>
      BY <1>2, <2>2 DEF Find
    <3>2. Keeps(p) /\ step'[p] = "lockCompany" /\ reply'[p] = reply[p]
      BY <3>1, GotoKeeps DEF locks
    <3>3. Held(p)'
      BY <3>2 DEF Held, InCompany, InAccount
    <3>. QED BY <1>0, <3>1, <3>2, <3>3, ReadStep
  <2>. QED BY <2>1, <2>2
<1>3. CASE LockCompany(p)
  <2>1. CASE Refuse(p)
    BY <2>1, RefuseStep
  <2>2. CASE ~ Refuse(p)
    <3>. DEFINE c == req[p].company
    <3>1. /\ step[p] = "lockCompany" /\ c \in live
          /\ Granted(companyLock, c, p)
          /\ companyLock' = Take(companyLock, c, p)
          /\ seen' = [seen EXCEPT ![p] = version[c]]
          /\ Goto(p, "authorize")
          /\ UNCHANGED <<tables, accessLock, userLock, req, reply, todo>>
      BY <1>3, <2>2 DEF LockCompany
    <3>2. c \in Companies
      BY <3>1 DEF Typed
    <3>3. Keeps(p) /\ step'[p] = "authorize" /\ reply'[p] = reply[p]
      BY <3>1, <3>2, GotoKeeps
    <3>4. companyLock'[c] = p /\ seen'[p] = version[c]
      BY <3>1, <3>2, LockTables DEF Typed
    <3>5. Held(p)'
      BY <3>1, <3>3, <3>4 DEF Held, InCompany, InAccount, tables
    <3>. QED BY <1>0, <3>1, <3>3, <3>5, ReadStep
  <2>. QED BY <2>1, <2>2
<1>4. CASE Authorize(p)
  <2>1. CASE Refuse(p)
    BY <2>1, RefuseStep
  <2>2. CASE ~ Refuse(p)
    <3>. DEFINE r == req[p]
    <3>1. /\ step[p] = "authorize"
          /\ role[r.company][r.actor] \in Allowed(r.op)
          /\ r.op \in {"update", "delete"} => seen[p] = r.version
          /\ Goto(p, AfterAuthorize(r.op))
          /\ UNCHANGED <<tables, locks, req, reply, seen, todo>>
      BY <1>4, <2>2 DEF Authorize
    <3>2. r.op \in CompanyOps
      BY <3>1 DEF Path
    <3>3. Keeps(p) /\ step'[p] = AfterAuthorize(r.op) /\ reply'[p] = reply[p]
      BY <3>1, GotoKeeps DEF locks
    <3>4. /\ step'[p] \in {"commit", "lockUser", "lockPrevious", "lockTarget"}
          /\ step'[p] = "commit" => r.op \in {"update", "delete"}
          /\ step'[p] = "lockUser" => r.op = "grant"
      BY <3>2, <3>3 DEF AfterAuthorize, CompanyOps
    <3>5. InCompany(p) /\ Held(p)
      BY <1>0, <3>1, <3>2 DEF InCompany
    <3>6. Held(p)'
      BY <3>1, <3>4, <3>5 DEF Held, InCompany, InAccount, tables, locks
    <3>. QED BY <1>0, <3>1, <3>3, <3>6, ReadStep
  <2>. QED BY <2>1, <2>2
<1>5. CASE LockPrevious(p)
  <2>1. /\ step[p] = "lockPrevious"
        /\ Goto(p, "lockTarget")
        /\ UNCHANGED <<tables, companyLock, userLock, req, reply, seen, todo>>
    BY <1>5 DEF LockPrevious
  <2>2. req[p] \in Requests /\ req[p].op = "transfer"
    BY <1>0, <2>1 DEF Path
  <2>. DEFINE a == <<req[p].company, req[p].actor>>
  <2>4. a \in Access /\ Granted(accessLock, a, p) /\ accessLock' = Take(accessLock, a, p)
    BY <1>5, <2>2, RequestFields DEF LockPrevious, CompanyOps, Access
  <2>. HIDE DEF a
  <2>5. Keeps(p) /\ step'[p] = "lockTarget" /\ reply'[p] = reply[p]
    BY <2>1, <2>4, GotoKeeps
  <2>3. Held(p)'
    BY <1>0, <2>1, <2>5 DEF Held, InCompany, InAccount, tables
  <2>. QED BY <1>0, <2>1, <2>5, <2>3, ReadStep
<1>6. CASE LockTarget(p)
  <2>1. CASE Refuse(p)
    BY <2>1, RefuseStep
  <2>2. CASE ~ Refuse(p)
    <3>. DEFINE s == IF req[p].op = "transfer" THEN "lockUser" ELSE "commit"
    <3>1. /\ step[p] = "lockTarget"
          /\ role[req[p].company][req[p].target] \in GrantedRoles
          /\ Goto(p, s)
          /\ UNCHANGED <<tables, companyLock, userLock, req, reply, seen, todo>>
      BY <1>6, <2>2 DEF LockTarget
    <3>3. req[p] \in Requests /\ req[p].op \in {"change", "revoke", "transfer"}
      BY <1>0, <3>1 DEF Path
    <3>. DEFINE a == <<req[p].company, req[p].target>>
    <3>5. a \in Access /\ Granted(accessLock, a, p) /\ accessLock' = Take(accessLock, a, p)
      BY <1>6, <2>2, <3>3, RequestFields DEF LockTarget, CompanyOps, Access
    <3>. HIDE DEF a
    <3>2. Keeps(p) /\ step'[p] = s /\ reply'[p] = reply[p]
      BY <3>1, <3>5, GotoKeeps
    <3>4. Held(p)'
      BY <1>0, <3>1, <3>2, <3>3 DEF Held, InCompany, InAccount, tables
    <3>. QED BY <1>0, <3>1, <3>2, <3>4, ReadStep
  <2>. QED BY <2>1, <2>2
<1>7. CASE FindOwned(p)
  <2>. DEFINE s == IF {c \in live : role[c][req[p].target] = "owner"} = {}
                   THEN "lockUser" ELSE "lockOwned"
  <2>1. /\ step[p] = "findOwned" /\ Goto(p, s)
        /\ UNCHANGED <<tables, locks, req, reply, seen>>
    BY <1>7 DEF FindOwned
  <2>2. Keeps(p) /\ step'[p] = s /\ reply'[p] = reply[p]
    BY <2>1, GotoKeeps DEF locks
  <2>3. req[p].op = "deactivate" /\ step'[p] \in {"lockUser", "lockOwned"}
    BY <2>1, <2>2 DEF Path
  <2>4. Held(p)'
    BY <2>1, <2>3 DEF Held, InCompany, InAccount, CompanyOps
  <2>. QED BY <1>0, <2>1, <2>2, <2>4, ReadStep
<1>8. CASE LockOwned(p)
  <2>1. PICK c \in NextOwned(p) :
          /\ step[p] = "lockOwned"
          /\ Granted(companyLock, c, p)
          /\ companyLock' = IF c \in live THEN Take(companyLock, c, p) ELSE companyLock
          /\ Goto(p, IF todo[p] = {c} THEN "lockUser" ELSE "lockOwned")
          /\ UNCHANGED <<tables, accessLock, userLock, req, reply, seen>>
    BY <1>8 DEF LockOwned
  <2>. DEFINE s == IF todo[p] = {c} THEN "lockUser" ELSE "lockOwned"
  <2>2. c \in Companies
    BY DEF Typed, NextOwned
  <2>3. Keeps(p) /\ step'[p] = s /\ reply'[p] = reply[p]
    BY <2>1, <2>2, GotoKeeps
  <2>4. req[p].op = "deactivate" /\ step'[p] \in {"lockUser", "lockOwned"}
    BY <2>1, <2>3 DEF Path
  <2>5. Held(p)'
    BY <2>1, <2>4 DEF Held, InCompany, InAccount, CompanyOps
  <2>. QED BY <1>0, <2>1, <2>3, <2>5, ReadStep
<1>9. CASE LockUser(p)
  <2>1. CASE Refuse(p)
    BY <2>1, RefuseStep
  <2>2. CASE ~ Refuse(p)
    <3>. DEFINE r == req[p]  u == Subject(r)
                s == IF r.op \in {"grant", "deactivate"} THEN "check" ELSE "commit"
    <3>1. /\ step[p] = "lockUser"
          /\ u \in active \/ r.op \in ScriptOps
          /\ Granted(userLock, u, p)
          /\ userLock' = Take(userLock, u, p)
          /\ Goto(p, s)
          /\ UNCHANGED <<tables, companyLock, accessLock, req, reply, seen, todo>>
      BY <1>9, <2>2 DEF LockUser
    <3>2. u \in Users /\ r.op \in {"create", "grant", "transfer", "activate", "deactivate"}
      BY <3>1, RequestFields DEF Path, Subject
    <3>3. Keeps(p) /\ step'[p] = s /\ reply'[p] = reply[p]
      BY <3>1, <3>2, GotoKeeps
    <3>4. userLock'[u] = p
      BY <3>1, <3>2, LockTables DEF Typed
    <3>5. Held(p)'
      BY <1>0, <3>1, <3>2, <3>3, <3>4 DEF Held, InCompany, InAccount, tables, ScriptOps
    <3>. QED BY <1>0, <3>1, <3>3, <3>5, ReadStep
  <2>. QED BY <2>1, <2>2
<1>10. CASE Check(p)
  <2>1. CASE Refuse(p)
    BY <2>1, RefuseStep
  <2>2. CASE ~ Refuse(p)
    <3>. DEFINE r == req[p]
    <3>1. /\ step[p] = "check"
          /\ \/ r.op = "grant" /\ role[r.company][r.target] = "none"
             \/ r.op = "deactivate" /\ \A c \in live : role[c][r.target] # "owner"
          /\ Goto(p, "commit")
          /\ UNCHANGED <<tables, locks, req, reply, seen, todo>>
      BY <1>10, <2>2 DEF Check
    <3>2. Keeps(p) /\ step'[p] = "commit" /\ reply'[p] = reply[p]
      BY <3>1, GotoKeeps DEF locks
    <3>3. Held(p)'
      BY <1>0, <3>1, <3>2 DEF Held, InCompany, InAccount, tables, locks
    <3>. QED BY <1>0, <3>1, <3>2, <3>3, ReadStep
  <2>. QED BY <2>1, <2>2
<1>. QED
  BY <1>1, <1>2, <1>3, <1>4, <1>5, <1>6, <1>7, <1>8, <1>9, <1>10

\* create_company: the new company has the one owner, whose account is locked.
LEMMA CreateStep ==
    ASSUME IInv, Typed', Path', NEW p \in Procs, CommitCreate(p)
    PROVE  Harmless(p)
<1>1. CASE Refuse(p)
  BY <1>1, RefuseStep
<1>2. CASE ~ Refuse(p)
  <2>. DEFINE u == req[p].actor
  <2>1. PICK c \in {d \in Companies : version[d] = 0} :
          /\ live' = live \cup {c}
          /\ version' = [version EXCEPT ![c] = 1]
          /\ role' = [role EXCEPT ![c][u] = "owner"]
          /\ Finish(p, "ok")
          /\ UNCHANGED active
    BY <1>2 DEF CommitCreate
  <2>2. step[p] = "commit" /\ req[p].op = "create"
    BY DEF CommitCreate
  <2>3. u \in Users /\ userLock[u] = p /\ u \in active
    BY <2>2, RequestFields DEF IInv, Path, Held, InAccount, Subject, ScriptOps
  <2>4. c \notin live /\ \A v \in Users : role[c][v] = "none"
    BY <2>1 DEF IInv, NoOrphans
  <2>5. /\ \A v \in Users : role'[c][v] = IF v = u THEN "owner" ELSE "none"
        /\ \A d \in Companies \ {c} : role'[d] = role[d] /\ version'[d] = version[d]
        /\ version'[c] = 1
    BY <2>1, <2>3, <2>4 DEF IInv, Typed
  <2>. HIDE DEF u
  <2>6. Spares(p)
    BY <2>1, <2>3, <2>4, <2>5 DEF Spares, IInv, Typed
  <2>7. ExactlyOneOwner'
    <3>1. ASSUME NEW d \in live
          PROVE  \E o \in Users : \A v \in Users : role'[d][v] = "owner" <=> v = o
      <4>1. role'[d] = role[d]
        BY <2>4, <2>5 DEF IInv, Typed
      <4>. QED BY <4>1 DEF IInv, ExactlyOneOwner
    <3>2. \A v \in Users : role'[c][v] = "owner" <=> v = u
      BY <2>5
    <3>. QED BY <2>1, <2>3, <3>1, <3>2 DEF ExactlyOneOwner
  <2>8. OwnerIsActive'
    BY <2>1, <2>3, <2>5 DEF IInv, Typed, OwnerIsActive
  <2>9. NoOrphans'
    BY <2>1, <2>5 DEF IInv, NoOrphans
  <2>. QED BY <2>1, <2>6, <2>7, <2>8, <2>9, WriteStep
<1>. QED BY <1>1, <1>2

\* What a commit under a company's lock may rely on.
LEMMA AtCommit ==
    ASSUME IInv, NEW p \in Procs, step[p] = "commit", req[p].op \in CompanyOps
    PROVE  LET r == req[p] IN
           /\ r \in Requests /\ r.company \in live /\ r.company \in Companies
           /\ companyLock[r.company] = p
           /\ r.actor \in Users /\ role[r.company][r.actor] \in Allowed(r.op)
           /\ r.op \in {"update", "delete"} => version[r.company] = r.version
           /\ r.op = "grant" => role[r.company][r.target] = "none"
           /\ r.op \in {"change", "revoke", "transfer"} => role[r.company][r.target] \in GrantedRoles
           /\ r.op \in {"grant", "transfer"} => userLock[r.target] = p /\ r.target \in active
           /\ r.op \notin {"update", "delete"} => r.target \in Users
<1>1. Held(p) /\ InCompany(p) /\ req[p] \in Requests
  BY DEF IInv, Path, InCompany
<1>2. req[p].op \in {"grant", "transfer"} => InAccount(p) /\ Subject(req[p]) = req[p].target
  BY DEF InAccount, Subject
<1>. QED
  BY <1>1, <1>2, RequestFields DEF Held, CompanyOps, ScriptOps

\* update_company changes no row another request has checked.
LEMMA UpdateStep ==
    ASSUME IInv, Typed', Path', NEW p \in Procs, CommitUpdate(p)
    PROVE  Harmless(p)
<1>1. CASE Refuse(p)
  BY <1>1, RefuseStep
<1>2. CASE ~ Refuse(p)
  <2>. DEFINE c == req[p].company
  <2>1. /\ step[p] = "commit" /\ req[p].op = "update"
        /\ version' = IF version[c] = req[p].version
                         THEN [version EXCEPT ![c] = req[p].version + 1] ELSE version
        /\ Finish(p, "ok")
        /\ UNCHANGED <<live, role, active>>
    BY <1>2 DEF CommitUpdate
  <2>2. c \in live /\ c \in Companies /\ companyLock[c] = p
    BY <2>1, AtCommit DEF CompanyOps
  <2>3. \A d \in Companies : d # c => version'[d] = version[d]
    BY <2>1 DEF IInv, Typed
  <2>4. Spares(p)
    BY <2>1, <2>2, <2>3 DEF Spares, IInv, Typed
  <2>5. ExactlyOneOwner' /\ OwnerIsActive'
    BY <2>1 DEF IInv, ExactlyOneOwner, OwnerIsActive
  <2>6. NoOrphans'
    <3>1. req[p].version \in 1..MaxVersion
      BY <2>1, RequestFields DEF IInv, Path
    <3>2. version'[c] # 0
      BY <2>1, <2>2, <3>1, MaxVersionIsPositive DEF IInv, NoOrphans, Typed
    <3>. QED BY <2>1, <2>3, <3>2 DEF IInv, NoOrphans
  <2>. QED BY <2>1, <2>4, <2>5, <2>6, WriteStep
<1>. QED BY <1>1, <1>2

\* delete_company: the access rows go, and nobody else holds the company.
LEMMA DeleteStep ==
    ASSUME IInv, Typed', Path', NEW p \in Procs, CommitDelete(p)
    PROVE  Harmless(p)
<1>. DEFINE c == req[p].company
<1>1. /\ step[p] = "commit" /\ req[p].op = "delete"
      /\ Finish(p, "ok") /\ UNCHANGED <<version, active>>
  BY DEF CommitDelete
<1>2. c \in live /\ c \in Companies /\ companyLock[c] = p /\ version[c] = req[p].version
  BY <1>1, AtCommit DEF CompanyOps
<1>3. /\ live' = live \ {c}
      /\ role' = [d \in Companies |-> IF d = c THEN [u \in Users |-> "none"] ELSE role[d]]
  <2>1. {d \in live : d = c /\ version[d] = req[p].version} = {c}
    BY <1>2
  <2>. QED BY <2>1, Zenon DEF CommitDelete
<1>4. /\ \A d \in Companies : d # c => role'[d] = role[d]
      /\ \A u \in Users : role'[c][u] = "none"
  BY <1>2, <1>3
<1>5. Spares(p)
  BY <1>1, <1>2, <1>3, <1>4 DEF Spares, IInv, Typed
<1>6. ExactlyOneOwner' /\ OwnerIsActive'
  BY <1>1, <1>3, <1>4 DEF IInv, Typed, ExactlyOneOwner, OwnerIsActive
<1>7. NoOrphans'
  BY <1>1, <1>3, <1>4 DEF IInv, NoOrphans
<1>. QED BY <1>1, <1>5, <1>6, <1>7, WriteStep

\* Grant, change and revoke: a role other than owner's, for a row that is not
\* the owner's.
LEMMA MemberStep ==
    ASSUME IInv, Typed', Path', NEW p \in Procs, CommitGrant(p) \/ CommitChange(p)
    PROVE  Harmless(p)
<1>. DEFINE r == req[p]  c == r.company
<1>1. step[p] = "commit" /\ r.op \in {"grant", "change", "revoke"}
  BY DEF CommitGrant, CommitChange
<1>2. /\ r \in Requests /\ c \in live /\ c \in Companies /\ companyLock[c] = p /\ r.target \in Users
      /\ r.op = "grant" => role[c][r.target] = "none"
      /\ r.op # "grant" => role[c][r.target] \in GrantedRoles
  BY <1>1, AtCommit DEF CompanyOps
<1>3. PICK new : new # "owner" /\ Write(p, [role EXCEPT ![c][r.target] = new], FALSE)
  <2>1. CASE CommitGrant(p)
    <3>1. r.role # "owner" /\ (c \notin live \/ role[c][r.target] # "none") = FALSE
      BY <1>2, <2>1, RequestFields DEF CommitGrant, GrantedRoles
    <3>2. Write(p, [role EXCEPT ![c][r.target] = r.role], FALSE)
      BY <2>1, <3>1 DEF CommitGrant
    <3>. QED BY <3>1, <3>2
  <2>2. CASE CommitChange(p)
    <3>. DEFINE new == IF r.op = "revoke" THEN "none" ELSE r.role
    <3>1. new # "owner" /\ (role[c][r.target] = "none") = FALSE
      BY <1>2, <2>2, RequestFields DEF CommitChange, GrantedRoles
    <3>2. Write(p, [role EXCEPT ![c][r.target] = new], FALSE)
      BY <2>2, <3>1 DEF CommitChange
    <3>. QED BY <3>1, <3>2
  <2>. QED BY <2>1, <2>2
<1>4. /\ role' = [role EXCEPT ![c][r.target] = new]
      /\ Finish(p, "ok") /\ UNCHANGED <<live, version, active>>
  BY <1>3 DEF Write
<1>5. role[c][r.target] # "owner"
  BY <1>1, <1>2 DEF GrantedRoles
<1>6. /\ \A d \in Companies : d # c => role'[d] = role[d]
      /\ \A u \in Users : role'[c][u] = "owner" <=> role[c][u] = "owner"
  BY <1>2, <1>3, <1>4, <1>5 DEF IInv, Typed
<1>7. Spares(p)
  BY <1>2, <1>4, <1>6 DEF Spares, IInv, Typed
<1>8. ExactlyOneOwner'
  BY <1>4, <1>6 DEF IInv, Typed, ExactlyOneOwner
<1>9. OwnerIsActive'
  BY <1>4, <1>6 DEF IInv, Typed, OwnerIsActive
<1>10. NoOrphans'
  BY <1>2, <1>4, <1>6 DEF IInv, NoOrphans
<1>. QED BY <1>4, <1>7, <1>8, <1>9, <1>10, WriteStep

\* transfer_ownership: one owner steps down and one active member becomes owner.
LEMMA TransferStep ==
    ASSUME IInv, Typed', Path', NEW p \in Procs, CommitTransfer(p)
    PROVE  Harmless(p)
<1>. DEFINE r == req[p]  c == r.company
            demoted == [role EXCEPT ![c][r.actor] = r.role]
            promoted == [demoted EXCEPT ![c][r.target] = "owner"]
            refused == \/ "none" \in {role[c][r.actor], role[c][r.target]}
                       \/ ManyOwners(demoted, c) \/ ManyOwners(promoted, c)
<1>1. step[p] = "commit" /\ r.op = "transfer" /\ Write(p, promoted, refused)
  BY DEF CommitTransfer
<1>2. /\ r \in Requests /\ c \in live /\ c \in Companies /\ companyLock[c] = p
      /\ r.actor \in Users /\ r.target \in Users
      /\ role[c][r.actor] = "owner" /\ role[c][r.target] \in GrantedRoles
      /\ userLock[r.target] = p /\ r.target \in active
      /\ r.role \in GrantedRoles
  BY <1>1, AtCommit, RequestFields DEF CompanyOps, Allowed
<1>3. r.actor # r.target /\ \A u \in Users : role[c][u] = "owner" <=> u = r.actor
  BY <1>2 DEF IInv, ExactlyOneOwner, GrantedRoles
<1>4. \A u \in Users : demoted[c][u] # "owner"
  BY <1>2, <1>3 DEF IInv, Typed, GrantedRoles
<1>5. /\ \A u \in Users : promoted[c][u] = "owner" <=> u = r.target
      /\ \A d \in Companies : d # c => promoted[d] = role[d]
  BY <1>2, <1>4 DEF IInv, Typed
<1>6. refused = FALSE
  BY <1>2, <1>4, <1>5 DEF ManyOwners, GrantedRoles
<1>. HIDE DEF promoted, refused
<1>7. role' = promoted /\ Finish(p, "ok") /\ UNCHANGED <<live, version, active>>
  BY <1>1, <1>6 DEF Write
<1>8. Spares(p)
  BY <1>2, <1>5, <1>7 DEF Spares, IInv, Typed
<1>9. ExactlyOneOwner'
  <2>1. ASSUME NEW d \in live
        PROVE  \E o \in Users : \A v \in Users : role'[d][v] = "owner" <=> v = o
    <3>1. CASE d = c
      BY <1>2, <1>5, <1>7, <3>1
    <3>2. CASE d # c
      <4>1. role'[d] = role[d]
        BY <1>5, <1>7, <3>2 DEF IInv, Typed
      <4>. QED BY <4>1 DEF IInv, ExactlyOneOwner
    <3>. QED BY <3>1, <3>2
  <2>. QED BY <1>7, <2>1 DEF ExactlyOneOwner
<1>10. OwnerIsActive'
  <2>1. ASSUME NEW d \in live, NEW u \in Users, role'[d][u] = "owner"
        PROVE  u \in active
    <3>1. CASE d = c
      BY <1>2, <1>5, <1>7, <2>1, <3>1
    <3>2. CASE d # c
      <4>1. role'[d] = role[d]
        BY <1>5, <1>7, <3>2 DEF IInv, Typed
      <4>. QED BY <2>1, <4>1 DEF IInv, OwnerIsActive
    <3>. QED BY <3>1, <3>2
  <2>. QED BY <1>7, <2>1 DEF OwnerIsActive
<1>11. NoOrphans'
  BY <1>2, <1>5, <1>7 DEF IInv, NoOrphans
<1>. QED BY <1>7, <1>8, <1>9, <1>10, <1>11, WriteStep

\* set_account_status: nobody holds the account, and who is deactivated owns nothing.
LEMMA StatusStep ==
    ASSUME IInv, Typed', Path', NEW p \in Procs, CommitStatus(p)
    PROVE  Harmless(p)
<1>. DEFINE u == req[p].target
<1>1. /\ step[p] = "commit" /\ req[p].op \in ScriptOps
      /\ active' = IF req[p].op = "activate" THEN active \cup {u} ELSE active \ {u}
      /\ Finish(p, "ok") /\ UNCHANGED <<live, version, role>>
  BY DEF CommitStatus
<1>2. /\ u \in Users /\ userLock[u] = p
      /\ req[p].op = "deactivate" => \A c \in live : role[c][u] # "owner"
  BY <1>1, RequestFields DEF IInv, Path, Held, InAccount, Subject, ScriptOps
<1>3. Spares(p)
  BY <1>1, <1>2 DEF Spares, IInv, Typed
<1>4. ExactlyOneOwner' /\ NoOrphans'
  BY <1>1 DEF IInv, ExactlyOneOwner, NoOrphans
<1>5. OwnerIsActive'
  BY <1>1, <1>2 DEF IInv, OwnerIsActive, ScriptOps
<1>. QED BY <1>1, <1>3, <1>4, <1>5, WriteStep

\* Whatever a process does, it keeps the invariant and spares the others.
LEMMA ProcessStep ==
    ASSUME IInv, NEW p \in Procs, Begin(p) \/ Step(p) \/ LockTimeout(p) \/ Abort(p)
    PROVE  Harmless(p)
<1>1. Typed' /\ Path'
  BY TypeStep DEF IInv, Next
<1>2. CASE LockTimeout(p) \/ Abort(p)
  BY <1>1, <1>2, RefuseStep DEF LockTimeout, Abort
<1>3. CASE Begin(p) \/ Step(p)
  BY <1>1, <1>3, ReadingSteps, CreateStep, UpdateStep, DeleteStep, MemberStep,
     TransferStep, StatusStep DEF Step, Commit
<1>. QED BY <1>2, <1>3

\* The invariant is inductive: Keeps for the actor, Spares for the others.
LEMMA Inductive == IInv /\ [Next]_vars => IInv'
<1>. SUFFICES ASSUME IInv, [Next]_vars
              PROVE  IInv'
  OBVIOUS
<1>1. CASE UNCHANGED vars
  BY <1>1 DEF IInv, vars, tables, locks, local, Typed, Path, ExactlyOneOwner, OwnerIsActive,
              NoOrphans, BackstopSilent, Held, InCompany, InAccount
<1>. QED
  BY <1>1, ProcessStep DEF Next, Harmless

\* The inductive invariant holds in every reachable state.
LEMMA Invariant == Spec => []IInv
<1>1. Init => IInv
  BY MaxVersionIsPositive DEF Init, IInv, Typed, LockTable, Path, Access, Roles, ExactlyOneOwner,
     OwnerIsActive, NoOrphans, BackstopSilent, Held, InCompany, InAccount
<1>. QED
  BY <1>1, Inductive, PTL DEF Spec

-----------------------------------------------------------------------------
(* The theorems.                                                           *)

\* Only the processes hold rows.
OwnLocks ==
    /\ companyLock \in [Companies -> Procs \cup {None}]
    /\ accessLock \in [Access -> Procs \cup {None}]
    /\ userLock \in [Users -> Procs \cup {None}]

LEMMA TablesMove ==
    ASSUME NEW Rows, NEW t \in [Rows -> Procs \cup {None}], NEW r \in Rows, NEW p \in Procs
    PROVE  /\ Take(t, r, p) \in [Rows -> Procs \cup {None}]
           /\ Release(t, p) \in [Rows -> Procs \cup {None}]
BY DEF Take, Release

LEMMA OwnLocksStep ==
    ASSUME IInv, OwnLocks, NEW p \in Procs, Begin(p) \/ Step(p) \/ LockTimeout(p) \/ Abort(p)
    PROVE  OwnLocks'
<1>. USE DEF IInv
<1>1. ASSUME UNCHANGED locks PROVE OwnLocks'
  BY <1>1 DEF OwnLocks, locks
<1>2. ASSUME NEW a, Finish(p, a) PROVE OwnLocks'
  <2>1. /\ companyLock' = Release(companyLock, p) /\ accessLock' = Release(accessLock, p)
        /\ userLock' = Release(userLock, p)
    BY <1>2 DEF Finish
  <2>. QED BY <2>1 DEF OwnLocks, Release
<1>3. CASE Begin(p) \/ Find(p) \/ Authorize(p) \/ FindOwned(p) \/ Check(p) \/ LockTimeout(p) \/ Abort(p)
  BY <1>1, <1>2, <1>3 DEF Begin, Find, Authorize, FindOwned, Check, LockTimeout, Abort, Refuse
<1>4. CASE Commit(p)
  BY <1>2, <1>4 DEF Commit, CommitCreate, CommitUpdate, CommitDelete, CommitGrant,
     CommitChange, CommitTransfer, CommitStatus, Write, Refuse
<1>5. CASE LockCompany(p)
  <2>1. CASE Refuse(p)
    BY <1>2, <2>1 DEF Refuse
  <2>2. CASE ~ Refuse(p)
    <3>1. /\ companyLock' = Take(companyLock, req[p].company, p) /\ req[p].company \in live
          /\ UNCHANGED <<accessLock, userLock>>
      BY <1>5, <2>2 DEF LockCompany
    <3>. QED BY <3>1, TablesMove DEF OwnLocks, Typed
  <2>. QED BY <2>1, <2>2
<1>6. CASE LockPrevious(p) \/ LockTarget(p)
  <2>1. CASE Refuse(p)
    BY <1>2, <2>1 DEF Refuse
  <2>2. CASE ~ Refuse(p)
    <3>1. req[p] \in Requests /\ req[p].op \in {"transfer", "change", "revoke"}
          /\ (LockPrevious(p) => req[p].op = "transfer")
      BY <1>6 DEF LockPrevious, LockTarget, Path
    <3>2. /\ req[p].company \in Companies /\ req[p].target \in Users
          /\ req[p].actor \in Users
      BY <3>1, RequestFields DEF CompanyOps
    <3>3. PICK a \in Access : accessLock' = Take(accessLock, a, p)
                              /\ UNCHANGED <<companyLock, userLock>>
      BY <1>6, <2>2, <3>2 DEF LockPrevious, LockTarget, Access
    <3>. QED BY <3>3, TablesMove DEF OwnLocks
  <2>. QED BY <2>1, <2>2
<1>7. CASE LockOwned(p)
  <2>1. PICK c \in NextOwned(p) :
          /\ companyLock' = IF c \in live THEN Take(companyLock, c, p) ELSE companyLock
          /\ UNCHANGED <<accessLock, userLock>>
    BY <1>7 DEF LockOwned
  <2>2. c \in Companies
    BY DEF Typed, NextOwned
  <2>. QED BY <2>1, <2>2, TablesMove DEF OwnLocks
<1>8. CASE LockUser(p)
  <2>1. CASE Refuse(p)
    BY <1>2, <2>1 DEF Refuse
  <2>2. CASE ~ Refuse(p)
    <3>1. /\ userLock' = Take(userLock, Subject(req[p]), p) /\ step[p] = "lockUser"
          /\ UNCHANGED <<companyLock, accessLock>>
      BY <1>8, <2>2 DEF LockUser
    <3>2. Subject(req[p]) \in Users
      BY <3>1, RequestFields DEF Path, Subject
    <3>. QED BY <3>1, <3>2, TablesMove DEF OwnLocks
  <2>. QED BY <2>1, <2>2
<1>. QED BY <1>3, <1>4, <1>5, <1>6, <1>7, <1>8 DEF Step

\* Every variable keeps the type its column, lock or field has; versions stay
\* within the width of their integer column.
THEOREM TypeCorrect == Spec => []TypeOK
<1>1. Init => OwnLocks
  BY DEF Init, OwnLocks
<1>2. IInv /\ OwnLocks /\ [Next]_vars => OwnLocks'
  <2>1. UNCHANGED vars /\ OwnLocks => OwnLocks'
    BY DEF vars, locks, OwnLocks
  <2>. QED BY <2>1, OwnLocksStep DEF Next
<1>3. IInv /\ OwnLocks => TypeOK
  BY DEF IInv, OwnLocks, Typed, TypeOK
<1>. QED BY <1>1, <1>2, <1>3, Invariant, PTL DEF Spec

\* However creations, transfers, access changes, deletions and deactivations
\* interleave and fail, a company always has exactly one owner.
THEOREM OneOwner == Spec => []ExactlyOneOwner
BY Invariant, PTL DEF IInv

\* A deactivated account owns nothing, although services.py and accounts.py
\* reach the owner row and is_active from different tables.
THEOREM ActiveOwner == Spec => []OwnerIsActive
BY Invariant, PTL DEF IInv

\* The unique index, the keys and the ORM's row counts never refuse a write.
THEOREM Backstop == Spec => []BackstopSilent
BY Invariant, PTL DEF IInv

\* What p found under its locks is all that its checks are about.
LEMMA ChecksAreHeld == IInv => StillTrueAtCommit
<1>. SUFFICES ASSUME IInv, NEW p \in Procs, step[p] = "commit"
              PROVE  LET r == req[p] IN
        /\ r.op \in CompanyOps => r.company \in live /\ role[r.company][r.actor] \in Allowed(r.op)
        /\ r.op \in {"update", "delete"} => version[r.company] = r.version
        /\ r.op = "grant" => role[r.company][r.target] = "none"
        /\ r.op \in {"change", "revoke", "transfer"} => role[r.company][r.target] \in GrantedRoles
        /\ r.op \in {"create", "grant", "transfer"} => Subject(r) \in active
        /\ r.op = "deactivate" => \A c \in live : role[c][r.target] # "owner"
  BY DEF StillTrueAtCommit
<1>1. Held(p)
  BY DEF IInv
<1>. QED
  BY <1>1 DEF Held, InCompany, InAccount, CompanyOps, ScriptOps

\* What a use case checked is still so when it writes.
THEOREM ChecksHold == Spec => []StillTrueAtCommit
BY ChecksAreHeld, Invariant, PTL

\* Only p's own step moves p.
LEMMA OwnStep ==
    ASSUME Typed, NEW p \in Procs, NEW q \in Procs,
           Begin(q) \/ Step(q) \/ LockTimeout(q) \/ Abort(q), step'[p] # step[p]
    PROVE  p = q
<1>1. PICK s : Goto(q, s)
  BY DEF Begin, Step, LockTimeout, Abort, Refuse, Finish, Find, LockCompany, Authorize,
     LockPrevious, LockTarget, FindOwned, LockOwned, LockUser, Check, Commit, CommitCreate,
     CommitUpdate, CommitDelete, CommitGrant, CommitChange, CommitTransfer, CommitStatus, Write
<1>. QED BY <1>1 DEF Typed, Goto

\* Success is reported only for an update or a delete of the version named.
THEOREM Applied == Spec => AnsweredMeansApplied
<1>1. IInv /\ [Next]_vars => \A p \in Procs : AppliedIfOk(p)
  <2>. SUFFICES ASSUME IInv, [Next]_vars, NEW p \in Procs,
                       step[p] = "commit", step'[p] = "idle", reply'[p] = "ok"
                PROVE  LET r == req[p]  c == r.company IN
                       /\ r.op = "update" => version[c] = r.version /\ version'[c] = r.version + 1
                       /\ r.op = "delete" => version[c] = r.version /\ c \in live \ live'
    BY DEF AppliedIfOk
  <2>. USE DEF IInv
  <2>1. ~ UNCHANGED vars
    BY DEF vars, local
  <2>2. Begin(p) \/ Step(p) \/ LockTimeout(p) \/ Abort(p)
    BY <2>1, OwnStep DEF Next
  <2>3. ~ Refuse(p)
    BY FinishKeeps DEF Refuse
  <2>4. Commit(p)
    BY <2>2, <2>3 DEF Begin, Step, LockTimeout, Abort, Find, LockCompany, Authorize, LockPrevious,
       LockTarget, FindOwned, LockOwned, LockUser, Check
  <2>5. CASE req[p].op = "update"
    <3>1. /\ version' = IF version[req[p].company] = req[p].version
                          THEN [version EXCEPT ![req[p].company] = req[p].version + 1] ELSE version
      BY <2>3, <2>4, <2>5 DEF Commit, CommitCreate, CommitUpdate, CommitDelete, CommitGrant,
         CommitChange, CommitTransfer, CommitStatus, ScriptOps
    <3>2. req[p].company \in Companies /\ version[req[p].company] = req[p].version
      BY <2>5, AtCommit DEF CompanyOps
    <3>. QED BY <2>5, <3>1, <3>2 DEF Typed
  <2>6. CASE req[p].op = "delete"
    <3>1. live' = live \ {c \in live : c = req[p].company /\ version[c] = req[p].version}
      BY <2>4, <2>6 DEF Commit, CommitCreate, CommitUpdate, CommitDelete, CommitGrant,
         CommitChange, CommitTransfer, CommitStatus, ScriptOps
    <3>2. req[p].company \in live /\ version[req[p].company] = req[p].version
      BY <2>6, AtCommit DEF CompanyOps
    <3>. QED BY <2>6, <3>1, <3>2
  <2>. QED BY <2>5, <2>6
<1>. QED
  BY <1>1, Invariant, PTL DEF Spec, AnsweredMeansApplied

-----------------------------------------------------------------------------
(* Nobody waits in a circle.                                               *)

\* Which rows p can hold at each of its statements: a company and access rows
\* of it, or the companies before the one it locks next, or at last an account.
Grip(p) ==
    /\ \A c \in Companies : companyLock[c] = p =>
        \/ InCompany(p) /\ c = req[p].company
        \/ /\ step[p] \in {"lockOwned", "lockUser", "check", "commit"}
           /\ req[p].op = "deactivate"
           /\ step[p] = "lockOwned" => \A d \in todo[p] : c < d
    /\ \A a \in Access : accessLock[a] = p => InCompany(p) /\ a[1] = req[p].company
    /\ \A u \in Users : userLock[u] = p => step[p] \in {"check", "commit"}

Grips == \A p \in Procs : Grip(p)

\* A step of p gives no row to anybody else, and moves nobody else.
Alone(p) ==
    /\ \A q \in Procs \ {p} : step'[q] = step[q] /\ req'[q] = req[q] /\ todo'[q] = todo[q]
    /\ \A c \in Companies : companyLock'[c] \in {None, p, companyLock[c]}
    /\ \A a \in Access : accessLock'[a] \in {None, p, accessLock[a]}
    /\ \A u \in Users : userLock'[u] \in {None, p, userLock[u]}

LEMMA GripOfOthers ==
    ASSUME NEW p \in Procs, Alone(p), \A q \in Procs : Grip(q), Grip(p)'
    PROVE  \A q \in Procs : Grip(q)'
<1>. SUFFICES ASSUME NEW q \in Procs \ {p}
              PROVE  Grip(q)'
  OBVIOUS
<1>1. /\ step'[q] = step[q] /\ req'[q] = req[q] /\ todo'[q] = todo[q]
      /\ InCompany(q)' <=> InCompany(q)
  BY DEF Alone, InCompany
<1>2. /\ \A c \in Companies : companyLock'[c] = q => companyLock[c] = q
      /\ \A a \in Access : accessLock'[a] = q => accessLock[a] = q
      /\ \A u \in Users : userLock'[u] = q => userLock[u] = q
  BY NoneIsNoProc DEF Alone
<1>3. Grip(q)
  OBVIOUS
<1>. QED BY <1>1, <1>2, <1>3 DEF Grip

\* Who has ended its transaction holds nothing.
LEMMA FinishLetsGo ==
    ASSUME Typed, NEW p \in Procs, NEW answer, Finish(p, answer)
    PROVE  Alone(p) /\ Grip(p)'
<1>1. /\ companyLock' = Release(companyLock, p) /\ accessLock' = Release(accessLock, p)
      /\ userLock' = Release(userLock, p)
  BY DEF Finish
<1>2. ASSUME NEW Rows, NEW t, LockTable(Rows, t), NEW r \in Rows
      PROVE  Release(t, p)[r] \in {None, t[r]} /\ Release(t, p)[r] # p
  BY <1>2, NoneIsNoProc DEF Release, LockTable
<1>3. /\ \A c \in Companies : companyLock'[c] \in {None, companyLock[c]} /\ companyLock'[c] # p
      /\ \A a \in Access : accessLock'[a] \in {None, accessLock[a]} /\ accessLock'[a] # p
      /\ \A u \in Users : userLock'[u] \in {None, userLock[u]} /\ userLock'[u] # p
  BY <1>1, <1>2 DEF Typed
<1>4. \A q \in Procs \ {p} : step'[q] = step[q] /\ req'[q] = req[q] /\ todo'[q] = todo[q]
  BY DEF Finish, Goto, Typed
<1>. QED BY <1>3, <1>4 DEF Alone, Grip

\* A statement that takes no row.
LEMMA GripWithoutLock ==
    ASSUME Typed, NEW p \in Procs, Grip(p), UNCHANGED locks,
           \A q \in Procs \ {p} : step'[q] = step[q] /\ req'[q] = req[q] /\ todo'[q] = todo[q],
           \/ step[p] \in {"idle", "find", "lockCompany"}
           \/ step[p] = "findOwned" /\ req[p].op \notin CompanyOps
           \/ /\ step[p] = "authorize" /\ req'[p] = req[p]
              /\ step'[p] \in {"lockPrevious", "lockTarget", "lockUser", "commit"}
              /\ req[p].op \in CompanyOps
           \/ step[p] = "check" /\ req'[p] = req[p] /\ step'[p] = "commit"
    PROVE  Alone(p) /\ Grip(p)'
<1>1. Alone(p)
  BY DEF Alone, locks
<1>2. CASE \/ step[p] \in {"idle", "find", "lockCompany"}
           \/ step[p] = "findOwned" /\ req[p].op \notin CompanyOps
  <2>1. ~ InCompany(p)
    BY <1>2 DEF InCompany
  <2>. QED BY <1>1, <1>2, <2>1 DEF Grip, locks
<1>3. CASE /\ step[p] = "authorize" /\ req'[p] = req[p]
           /\ step'[p] \in {"lockPrevious", "lockTarget", "lockUser", "commit"}
           /\ req[p].op \in CompanyOps
  <2>1. InCompany(p) /\ InCompany(p)'
    BY <1>3 DEF InCompany
  <2>. QED BY <1>1, <1>3, <2>1 DEF Grip, locks
<1>4. CASE step[p] = "check" /\ req'[p] = req[p] /\ step'[p] = "commit"
  <2>1. InCompany(p) <=> InCompany(p)'
    BY <1>4 DEF InCompany
  <2>. QED BY <1>1, <1>4, <2>1 DEF Grip, locks
<1>. QED BY <1>2, <1>3, <1>4

\* Companies come first, by id, then access rows of one's company, then the
\* account: every statement of a use case keeps to that.
LEMMA GripStep ==
    ASSUME IInv, NEW p \in Procs, Grip(p),
           Begin(p) \/ Step(p) \/ LockTimeout(p) \/ Abort(p)
    PROVE  Alone(p) /\ Grip(p)'
<1>. USE DEF IInv
<1>1. ASSUME NEW r, req' = [req EXCEPT ![p] = r], NEW s, Goto(p, s)
      PROVE  /\ \A q \in Procs \ {p} : step'[q] = step[q] /\ req'[q] = req[q]
             /\ step'[p] = s /\ req'[p] = r
  BY <1>1 DEF Typed, Goto
<1>2. ASSUME UNCHANGED req, NEW s, Goto(p, s)
      PROVE  /\ \A q \in Procs \ {p} : step'[q] = step[q] /\ req'[q] = req[q]
             /\ step'[p] = s /\ req'[p] = req[p]
  BY <1>2 DEF Typed, Goto
<1>3. ASSUME Refuse(p)
      PROVE  Alone(p) /\ Grip(p)'
  BY <1>3, FinishLetsGo DEF Refuse
<1>4. CASE Commit(p)
  <2>1. PICK answer : Finish(p, answer)
    BY <1>4 DEF Commit, CommitCreate, CommitUpdate, CommitDelete, CommitGrant, CommitChange,
       CommitTransfer, CommitStatus, Write, Refuse
  <2>. QED BY <2>1, FinishLetsGo
<1>5. CASE Begin(p)
  <2>1. PICK r \in Requests : /\ step[p] = "idle" /\ req' = [req EXCEPT ![p] = r]
                              /\ Goto(p, FirstStep(r.op)) /\ UNCHANGED <<locks, todo>>
    BY <1>5 DEF Begin
  <2>. QED BY <1>1, <2>1, GripWithoutLock
<1>6. CASE Find(p) /\ ~ Refuse(p)
  <2>1. step[p] = "find" /\ Goto(p, "lockCompany") /\ UNCHANGED <<locks, req, todo>>
    BY <1>6 DEF Find
  <2>. QED BY <1>2, <2>1, GripWithoutLock
<1>7. CASE Authorize(p) /\ ~ Refuse(p)
  <2>1. /\ step[p] = "authorize" /\ Goto(p, AfterAuthorize(req[p].op))
        /\ UNCHANGED <<locks, req, todo>>
    BY <1>7 DEF Authorize
  <2>2. req[p].op \in CompanyOps
    BY <2>1 DEF Path
  <2>3. AfterAuthorize(req[p].op) \in {"lockPrevious", "lockTarget", "lockUser", "commit"}
    BY DEF AfterAuthorize
  <2>. QED BY <1>2, <2>1, <2>2, <2>3, GripWithoutLock
<1>8. CASE FindOwned(p)
  <2>1. PICK s : step[p] = "findOwned" /\ Goto(p, s) /\ UNCHANGED <<locks, req>>
    BY <1>8 DEF FindOwned
  <2>2. \A q \in Procs \ {p} : todo'[q] = todo[q]
    BY <1>8 DEF FindOwned, Typed
  <2>3. req[p].op \notin CompanyOps
    BY <2>1 DEF Path, CompanyOps
  <2>. QED BY <1>2, <2>1, <2>2, <2>3, GripWithoutLock
<1>9. CASE Check(p) /\ ~ Refuse(p)
  <2>1. step[p] = "check" /\ Goto(p, "commit") /\ UNCHANGED <<locks, req, todo>>
    BY <1>9 DEF Check
  <2>. QED BY <1>2, <2>1, GripWithoutLock
<1>10. ASSUME NEW Rows, NEW t, LockTable(Rows, t), NEW r \in Rows, NEW s \in Rows
       PROVE  Take(t, r, p)[s] = IF s = r THEN p ELSE t[s]
  BY <1>10 DEF LockTable, Take
<1>11. CASE LockCompany(p) /\ ~ Refuse(p)
  <2>1. /\ step[p] = "lockCompany" /\ Goto(p, "authorize") /\ UNCHANGED <<req, todo>>
        /\ companyLock' = Take(companyLock, req[p].company, p)
        /\ UNCHANGED <<accessLock, userLock>>
    BY <1>11 DEF LockCompany
  <2>2. req[p].op \in CompanyOps /\ req[p].company \in Companies
    BY <2>1, RequestFields DEF Path
  <2>3. \A c \in Companies : companyLock'[c] = IF c = req[p].company THEN p ELSE companyLock[c]
    BY <1>10, <2>1, <2>2 DEF Typed
  <2>4. Alone(p)
    BY <1>2, <2>1, <2>3 DEF Alone
  <2>5. ~ InCompany(p) /\ InCompany(p)' /\ req'[p] = req[p] /\ step'[p] = "authorize"
    BY <1>2, <2>1, <2>2 DEF InCompany
  <2>. QED BY <2>1, <2>3, <2>4, <2>5 DEF Grip
<1>12. CASE (LockPrevious(p) \/ LockTarget(p)) /\ ~ Refuse(p)
  <2>. DEFINE u == IF LockPrevious(p) THEN req[p].actor ELSE req[p].target
              row == <<req[p].company, u>>
  <2>2. PICK s \in {"lockTarget", "lockUser", "commit"} :
          /\ step[p] \in {"lockPrevious", "lockTarget"} /\ Goto(p, s) /\ UNCHANGED <<req, todo>>
          /\ accessLock' = Take(accessLock, row, p)
          /\ UNCHANGED <<companyLock, userLock>>
    BY <1>12 DEF LockPrevious, LockTarget
  <2>3. req[p].op \in {"transfer", "change", "revoke"} /\ (LockPrevious(p) => req[p].op = "transfer")
    BY <2>2 DEF Path, LockPrevious
  <2>4. req[p].company \in Companies /\ u \in Users /\ req[p].op \in CompanyOps
    BY <2>2, <2>3, RequestFields DEF Path, CompanyOps
  <2>5. row \in Access /\ row[1] = req[p].company
    BY <2>4 DEF Access
  <2>. HIDE DEF row
  <2>6. \A a \in Access : accessLock'[a] = IF a = row THEN p ELSE accessLock[a]
    BY <1>10, <2>2, <2>5 DEF Typed
  <2>7. Alone(p)
    BY <1>2, <2>2, <2>6 DEF Alone
  <2>8. /\ InCompany(p) /\ InCompany(p)' /\ req'[p] = req[p]
        /\ step[p] \notin {"lockOwned", "check", "commit"} /\ step'[p] # "lockOwned"
    BY <1>2, <2>2, <2>4 DEF InCompany
  <2>. QED BY <2>2, <2>5, <2>6, <2>7, <2>8 DEF Grip
<1>13. CASE LockOwned(p)
  <2>1. PICK c \in NextOwned(p), s \in {"lockOwned", "lockUser"} :
          /\ step[p] = "lockOwned" /\ Goto(p, s) /\ UNCHANGED req
          /\ companyLock' = IF c \in live THEN Take(companyLock, c, p) ELSE companyLock
          /\ todo' = [todo EXCEPT ![p] = @ \ {c}]
          /\ UNCHANGED <<accessLock, userLock>>
    BY <1>13 DEF LockOwned
  <2>2. /\ c \in Companies /\ todo[p] \subseteq Companies /\ c \in todo[p]
        /\ \A d \in todo[p] : c <= d
    BY DEF NextOwned, Typed
  <2>3. \A d \in Companies : companyLock'[d] \in {companyLock[d]} \cup (IF d = c THEN {p} ELSE {})
    BY <1>10, <2>1, <2>2 DEF Typed
  <2>4. /\ todo'[p] = todo[p] \ {c} /\ \A q \in Procs \ {p} : todo'[q] = todo[q]
        /\ step'[p] = s /\ req'[p] = req[p]
    BY <1>2, <2>1 DEF Typed
  <2>5. Alone(p)
    BY <1>2, <2>1, <2>3, <2>4 DEF Alone
  <2>6. req[p].op = "deactivate" /\ ~ InCompany(p)
    BY <2>1 DEF Path, InCompany, CompanyOps
  <2>7. ASSUME NEW d \in Companies, companyLock'[d] = p
        PROVE  \A e \in todo'[p] : d < e
    <3>1. companyLock[d] = p => \A e \in todo[p] : d < e
      BY <2>1, <2>6 DEF Grip
    <3>2. ASSUME NEW e \in todo[p], e # c
          PROVE  c < e
      <4>1. c \in Nat /\ e \in Nat /\ c <= e
        BY <2>2, CompaniesAreOrdered
      <4>. QED BY <3>2, <4>1
    <3>. QED BY <2>3, <2>4, <2>7, <3>1, <3>2
  <2>. QED BY <2>1, <2>4, <2>5, <2>6, <2>7 DEF Grip
<1>14. CASE LockUser(p) /\ ~ Refuse(p)
  <2>1. PICK s \in {"check", "commit"} :
          /\ step[p] = "lockUser" /\ Goto(p, s) /\ UNCHANGED <<req, todo>>
          /\ userLock' = Take(userLock, Subject(req[p]), p)
          /\ UNCHANGED <<companyLock, accessLock>>
    BY <1>14 DEF LockUser
  <2>2. Subject(req[p]) \in Users
    BY <2>1, RequestFields DEF Path, Subject
  <2>3. \A u \in Users : userLock'[u] = IF u = Subject(req[p]) THEN p ELSE userLock[u]
    BY <1>10, <2>1, <2>2 DEF Typed
  <2>4. Alone(p)
    BY <1>2, <2>1, <2>3 DEF Alone
  <2>5. /\ InCompany(p) <=> InCompany(p)'
        /\ req'[p] = req[p] /\ step'[p] = s
    BY <1>2, <2>1 DEF InCompany
  <2>. QED BY <2>1, <2>3, <2>4, <2>5 DEF Grip
<1>. QED
  BY <1>3, <1>4, <1>5, <1>6, <1>7, <1>8, <1>9, <1>11, <1>12, <1>13, <1>14
  DEF Step, LockTimeout, Abort

\* Among finitely many there is one with the highest rank.
LEMMA Highest ==
    ASSUME NEW T, IsFiniteSet(T), T # {}, NEW rank \in [T -> Nat]
    PROVE  \E p \in T : \A q \in T : rank[q] <= rank[p]
<1>. DEFINE above(p) == {q \in T : rank[q] > rank[p]}
            R == StrictSubsetOrdering(T)
            all == {above(p) : p \in T}
<1>1. IsWellFoundedOn(R, SUBSET T)
  BY FS_StrictSubsetOrderingWellFounded, FS_FiniteSubsetsOfFinite
<1>2. all \subseteq SUBSET T /\ all # {}
  <2>1. PICK p \in T : TRUE
    OBVIOUS
  <2>2. above(p) \in all
    OBVIOUS
  <2>. QED BY <2>2
<1>. HIDE DEF R, all
<1>3. PICK x \in all : \A y \in all : ~ (<<y, x>> \in R)
  BY <1>1, <1>2, WFMin
<1>. USE DEF R, all
<1>4. PICK p \in T : x = above(p)
  OBVIOUS
<1>5. ASSUME NEW q \in T, rank[q] > rank[p]
      PROVE  FALSE
  <2>1. above(q) \subseteq above(p) /\ q \in above(p) /\ q \notin above(q)
    BY <1>5
  <2>2. <<above(q), above(p)>> \in R
    BY <2>1 DEF StrictSubsetOrdering
  <2>3. above(q) \in all
    OBVIOUS
  <2>. QED BY <1>3, <1>4, <2>2, <2>3
<1>. QED BY <1>5

\* Row locks are taken in one order, companies by id, then access rows, then
\* accounts, so that no requests wait for each other in a circle.
THEOREM NoCircle == Spec => []NoWaitCycle
<1>1. Init => Grips
  BY NoneIsNoProc DEF Init, Grip, Grips
<1>2. IInv /\ Grips /\ [Next]_vars => Grips'
  <2>1. UNCHANGED vars /\ Grips => Grips'
    BY DEF vars, locks, local, Grip, Grips, InCompany
  <2>. QED BY <2>1, GripStep, GripOfOthers DEF Next, Grips
<1>3. IInv /\ Grips => NoWaitCycle
  <2>. SUFFICES ASSUME IInv, \A p \in Procs : Grip(p),
                       NEW S \in SUBSET Procs, S # {},
                       \A p \in S : Blockers(p) \cap (S \ {p}) # {}
                PROVE  FALSE
    BY DEF NoWaitCycle, Grips
  <2>1. ASSUME NEW p \in S
        PROVE  \E q \in S \ {p} : q \in Blockers(p)
    OBVIOUS
  <2>2. ASSUME NEW p \in S
        PROVE  step[p] \notin {"check", "commit"}
    BY <2>1, <2>2 DEF Blockers
  <2>3. ASSUME NEW p \in S, step[p] \in {"lockPrevious", "lockTarget"}
        PROVE  FALSE
    <3>1. req[p] \in Requests /\ req[p].op \in {"transfer", "change", "revoke"}
          /\ (step[p] = "lockPrevious" => req[p].op = "transfer")
      BY <2>3 DEF IInv, Path
    <3>2. /\ req[p].company \in Companies /\ req[p].target \in Users
          /\ req[p].actor \in Users /\ InCompany(p)
      BY <2>3, <3>1, RequestFields DEF CompanyOps, InCompany
    <3>3. PICK q \in S \ {p}, u \in Users : q = accessLock[<<req[p].company, u>>]
      <4>1. CASE step[p] = "lockPrevious"
        BY <2>1, <3>2, <4>1 DEF Blockers
      <4>2. CASE step[p] = "lockTarget"
        BY <2>1, <3>2, <4>2 DEF Blockers
      <4>. QED BY <2>3, <4>1, <4>2
    <3>4. InCompany(q) /\ req[q].company = req[p].company
      <4>1. <<req[p].company, u>> \in Access /\ q \in Procs
        BY <3>2 DEF Access
      <4>. QED BY <3>3, <4>1 DEF Grip
    <3>5. companyLock[req[p].company] = p /\ companyLock[req[p].company] = q
      BY <3>2, <3>4 DEF IInv, Held
    <3>. QED BY <3>3, <3>5
  <2>4. ASSUME NEW p \in S, step[p] = "lockUser"
        PROVE  FALSE
    <3>1. Subject(req[p]) \in Users
      BY <2>4, RequestFields DEF IInv, Path, Subject
    <3>2. PICK q \in S : q = userLock[Subject(req[p])]
      BY <2>1, <2>4 DEF Blockers
    <3>. QED BY <2>2, <3>1, <3>2 DEF Grip
  <2>5. \A p \in S : step[p] \in {"lockCompany", "lockOwned"}
    BY <2>1, <2>3, <2>4 DEF Blockers
  <2>. DEFINE T == {p \in S : step[p] = "lockOwned"}
              next == [p \in T |-> CHOOSE c \in NextOwned(p) : TRUE]
  <2>6. ASSUME NEW p \in T
        PROVE  /\ next[p] \in NextOwned(p) /\ next[p] \in Nat /\ next[p] \in Companies
               /\ \A c \in NextOwned(p) : c = next[p]
    <3>1. NextOwned(p) # {}
      BY <2>1 DEF Blockers
    <3>2. \A c \in NextOwned(p) : c \in Companies /\ c \in Nat /\ c \in todo[p]
      BY CompaniesAreOrdered DEF NextOwned, IInv, Typed
    <3>3. \A c, d \in NextOwned(p) : c <= d
      BY DEF NextOwned
    <3>4. next[p] \in NextOwned(p)
      BY <3>1
    <3>5. ASSUME NEW c \in NextOwned(p)
          PROVE  c = next[p]
      BY <3>2, <3>3, <3>4
    <3>. QED BY <3>2, <3>4, <3>5
  <2>7. ASSUME NEW p \in S
        PROVE  \E q \in T : p \in T => next[q] > next[p]
    <3>1. PICK q \in S \ {p}, c \in Companies :
            companyLock[c] = q /\ (p \in T => c = next[p])
      <4>1. CASE p \in T
        <5>1. PICK q \in S \ {p} : q \in {companyLock[c] : c \in NextOwned(p)}
          BY <2>1, <4>1 DEF Blockers
        <5>2. q = companyLock[next[p]] /\ next[p] \in Companies
          BY <2>6, <4>1, <5>1
        <5>. QED BY <5>1, <5>2
      <4>2. CASE p \notin T
        <5>1. step[p] = "lockCompany"
          BY <2>5, <4>2
        <5>2. req[p].company \in Companies
          BY <5>1, RequestFields DEF IInv, Path
        <5>. QED BY <2>1, <4>2, <5>1, <5>2 DEF Blockers
      <4>. QED BY <4>1, <4>2
    <3>2. q \in T /\ \A d \in todo[q] : c < d
      <4>1. q \in Procs /\ step[q] \in {"lockCompany", "lockOwned"} /\ ~ InCompany(q)
        BY <2>5 DEF IInv, Path, InCompany, CompanyOps
      <4>2. /\ step[q] \in {"lockOwned", "lockUser", "check", "commit"}
            /\ step[q] = "lockOwned" => \A d \in todo[q] : c < d
        BY <3>1, <4>1 DEF Grip
      <4>. QED BY <4>1, <4>2
    <3>3. next[q] \in todo[q]
      BY <2>6, <3>2 DEF NextOwned
    <3>4. c < next[q]
      BY <3>2, <3>3
    <3>5. p \in T => next[q] > next[p]
      BY <3>1, <3>2, <3>4, <2>6
    <3>. QED BY <3>2, <3>5
  <2>8. IsFiniteSet(T) /\ T # {}
    BY <2>7, ProcsAreFinite, FS_Subset
  <2>9. next \in [T -> Nat]
    BY <2>6
  <2>. HIDE DEF next
  <2>10. PICK p \in T : \A q \in T : next[q] <= next[p]
    BY <2>8, <2>9, Highest
  <2>11. PICK q \in T : next[q] > next[p]
    BY <2>7
  <2>. QED BY <2>9, <2>10, <2>11
<1>. QED BY <1>1, <1>2, <1>3, Invariant, PTL DEF Spec

-----------------------------------------------------------------------------
(* The use cases implement the atomic ones.                                *)

\* A commit that is not refused applies its request, which is allowed at this
\* very moment, and answers it.
LEMMA CommitIsAtomic ==
    ASSUME IInv, BackstopSilent', NEW p \in Procs, Commit(p), ~ Refuse(p)
    PROVE  Finish(p, "ok") /\ Atomic!Apply(req[p])
<1>. USE DEF IInv
<1>. DEFINE r == req[p]  c == r.company
<1>1. CASE CommitCreate(p)
  <2>1. r.actor \in Users /\ r.actor \in active
    BY <1>1, RequestFields DEF CommitCreate, Path, Held, InAccount, Subject, ScriptOps
  <2>2. Atomic!Create(r)
    BY <1>1, <2>1 DEF CommitCreate, Atomic!Create
  <2>. QED BY <1>1, <2>2 DEF CommitCreate, Atomic!Apply
<1>2. ASSUME step[p] = "commit", r.op \in CompanyOps
      PROVE  r.actor \in Users /\ c \in Companies /\ Atomic!Authorized(r)
  BY <1>2, AtCommit DEF Allowed, OwnerIsActive, Atomic!Authorized, Atomic!Allowed
<1>3. CASE CommitUpdate(p)
  <2>1. /\ step[p] = "commit" /\ r.op = "update" /\ r.version # MaxVersion
        /\ version' = IF version[c] = r.version
                        THEN [version EXCEPT ![c] = r.version + 1] ELSE version
        /\ Finish(p, "ok") /\ UNCHANGED <<live, role, active>>
    BY <1>3 DEF CommitUpdate
  <2>2. version[c] = r.version /\ r \in Requests
    BY <2>1, AtCommit DEF CompanyOps
  <2>3. r.version < MaxVersion
    BY <2>1, <2>2, RequestFields, MaxVersionIsPositive
  <2>4. Atomic!Update(r)
    BY <1>2, <2>1, <2>2, <2>3 DEF Atomic!Update, CompanyOps
  <2>. QED BY <2>1, <2>4 DEF Atomic!Apply
<1>4. CASE CommitDelete(p)
  <2>1. /\ step[p] = "commit" /\ r.op = "delete"
        /\ Finish(p, "ok") /\ UNCHANGED <<version, active>>
    BY <1>4 DEF CommitDelete
  <2>2. {d \in live : d = c /\ version[d] = r.version} = {c} /\ version[c] = r.version
    BY <2>1, AtCommit DEF CompanyOps
  <2>3. /\ live' = live \ {c}
        /\ role' = [d \in Companies |-> IF d \in {c} THEN [u \in Users |-> "none"] ELSE role[d]]
    BY <1>4, <2>2, Zenon DEF CommitDelete
  <2>4. role' = [role EXCEPT ![c] = [u \in Users |-> "none"]]
    BY <2>3 DEF Typed
  <2>5. Atomic!Delete(r)
    BY <1>2, <2>1, <2>2, <2>3, <2>4 DEF Atomic!Delete, CompanyOps
  <2>. QED BY <2>1, <2>5 DEF Atomic!Apply
<1>5. ASSUME NEW roles, NEW b, Write(p, roles, b)
      PROVE  role' = roles /\ Finish(p, "ok") /\ UNCHANGED <<live, version, active>>
  <2>1. Finish(p, IF b THEN "conflict" ELSE "ok")
    BY <1>5 DEF Write
  <2>2. ~ b
    BY <2>1 DEF Finish, BackstopSilent, Typed
  <2>. QED BY <1>5, <2>1, <2>2 DEF Write
<1>6. CASE CommitGrant(p)
  <2>1. /\ step[p] = "commit" /\ r.op = "grant"
        /\ role' = [role EXCEPT ![c][r.target] = r.role]
        /\ Finish(p, "ok") /\ UNCHANGED <<live, version, active>>
    BY <1>5, <1>6 DEF CommitGrant
  <2>2. r.target \in active /\ role[c][r.target] = "none"
    BY <2>1, AtCommit, RequestFields DEF CompanyOps
  <2>3. Atomic!Grant(r)
    BY <1>2, <2>1, <2>2 DEF Atomic!Grant, CompanyOps
  <2>. QED BY <2>1, <2>3 DEF Atomic!Apply
<1>7. CASE CommitChange(p)
  <2>1. /\ step[p] = "commit" /\ r.op \in {"change", "revoke"}
        /\ role' = [role EXCEPT ![c][r.target] = IF r.op = "revoke" THEN "none" ELSE r.role]
        /\ Finish(p, "ok") /\ UNCHANGED <<live, version, active>>
    BY <1>5, <1>7 DEF CommitChange
  <2>2. role[c][r.target] \in GrantedRoles
    BY <2>1, AtCommit DEF CompanyOps
  <2>3. Atomic!Change(r)
    BY <1>2, <2>1, <2>2 DEF Atomic!Change, Atomic!GrantedRoles, GrantedRoles, CompanyOps
  <2>. QED BY <2>1, <2>3 DEF Atomic!Apply
<1>8. CASE CommitTransfer(p)
  <2>1. /\ step[p] = "commit" /\ r.op = "transfer"
        /\ role' = [role EXCEPT ![c][r.actor] = r.role, ![c][r.target] = "owner"]
        /\ Finish(p, "ok") /\ UNCHANGED <<live, version, active>>
    BY <1>5, <1>8 DEF CommitTransfer
  <2>2. r.target \in active /\ role[c][r.target] \in GrantedRoles
    BY <2>1, AtCommit, RequestFields DEF CompanyOps
  <2>3. Atomic!Transfer(r)
    BY <1>2, <2>1, <2>2 DEF Atomic!Transfer, Atomic!GrantedRoles, GrantedRoles, CompanyOps
  <2>. QED BY <2>1, <2>3 DEF Atomic!Apply
<1>9. CASE CommitStatus(p)
  <2>1. /\ step[p] = "commit" /\ r.op \in ScriptOps
        /\ active' = IF r.op = "activate" THEN active \cup {r.target} ELSE active \ {r.target}
        /\ Finish(p, "ok") /\ UNCHANGED <<live, version, role>>
    BY <1>9 DEF CommitStatus
  <2>2. r.op = "deactivate" => \A d \in live : role[d][r.target] # "owner"
    BY <2>1 DEF Path, Held, ScriptOps
  <2>3. Atomic!Activate(r) \/ Atomic!Deactivate(r)
    BY <2>1, <2>2 DEF Atomic!Activate, Atomic!Deactivate, ScriptOps
  <2>. QED BY <2>1, <2>3 DEF Atomic!Apply
<1>. QED
  BY <1>1, <1>3, <1>4, <1>6, <1>7, <1>8, <1>9 DEF Commit

\* Each step of a request is a step of the atomic specification, or none.
LEMMA StepIsAtomic ==
    IInv /\ IInv' /\ [Next]_vars => [Atomic!Next]_Atomic!vars
<1>. SUFFICES ASSUME IInv, IInv', [Next]_vars
              PROVE  [Atomic!Next]_Atomic!vars
  OBVIOUS
<1>. USE DEF IInv
<1>1. CASE UNCHANGED <<tables, req, reply>>
  BY <1>1 DEF tables, Atomic!vars, Atomic!tables
<1>2. ASSUME NEW p \in Procs, Begin(p)
      PROVE  Atomic!Ask(p)
  BY <1>2 DEF Begin, Path, Atomic!Ask, Atomic!tables, tables, Atomic!Requests, Requests,
     Atomic!ScriptOps, ScriptOps, Atomic!GrantedRoles, GrantedRoles
<1>3. ASSUME NEW p \in Procs, step[p] # "idle"
      PROVE  req[p] # None
  BY <1>3, NoneIsNoRequest DEF Path
<1>4. ASSUME NEW p \in Procs, step[p] # "idle", Refuse(p)
      PROVE  Atomic!Fail(p)
  BY <1>3, <1>4 DEF Refuse, Finish, tables, Atomic!Fail, Atomic!Answer, Atomic!tables
<1>5. ASSUME NEW p \in Procs, Commit(p), ~ Refuse(p)
      PROVE  Atomic!Serve(p)
  <2>1. step[p] # "idle"
    BY <1>5 DEF Commit, CommitCreate, CommitUpdate, CommitDelete, CommitGrant,
                CommitChange, CommitTransfer, CommitStatus
  <2>2. Finish(p, "ok") /\ Atomic!Apply(req[p])
    BY <1>5, CommitIsAtomic
  <2>. QED BY <1>3, <2>1, <2>2 DEF Finish, Atomic!Serve, Atomic!Answer
<1>6. ASSUME NEW p \in Procs, Step(p) \/ LockTimeout(p) \/ Abort(p)
      PROVE  \/ Commit(p)
             \/ step[p] # "idle" /\ Refuse(p)
             \/ UNCHANGED <<tables, req, reply>>
  BY <1>6 DEF Step, LockTimeout, Waiting, Blockers, Abort, Find, LockCompany, Authorize,
     LockPrevious, LockTarget, FindOwned, LockOwned, LockUser, Check
<1>7. \/ UNCHANGED vars
      \/ \E p \in Procs : Begin(p) \/ Step(p) \/ LockTimeout(p) \/ Abort(p)
  BY DEF Next
<1>8. UNCHANGED vars => UNCHANGED <<tables, req, reply>>
  BY DEF vars, local
<1>9. ASSUME NEW p \in Procs, Commit(p)
      PROVE  step[p] # "idle"
  BY <1>9 DEF Commit, CommitCreate, CommitUpdate, CommitDelete, CommitGrant,
              CommitChange, CommitTransfer, CommitStatus
<1>. QED
  BY <1>1, <1>2, <1>4, <1>5, <1>6, <1>7, <1>8, <1>9 DEF Atomic!Next

\* Statement-by-statement transactions behave as if every request that is
\* answered with success were one indivisible step, authorized at the moment
\* it takes effect, and every other request had never been made.
THEOREM Implements == Spec => ImplementsAtomic
<1>1. Init => Atomic!Init
  BY DEF Init, Atomic!Init
<1>. QED
  BY <1>1, StepIsAtomic, Invariant, PTL DEF Spec, ImplementsAtomic, Atomic!Spec

=============================================================================
