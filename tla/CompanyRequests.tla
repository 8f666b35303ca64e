-------------------------- MODULE CompanyRequests ---------------------------
(***************************************************************************)
(* What clients ask of the companies component, and account scripts of     *)
(* accounts: the vocabulary that CompanyAccess and its abstract            *)
(* specification CompanyAccessAtomic share.                                *)
(***************************************************************************)
EXTENDS Integers

CONSTANTS
    Companies,      \* company ids; uuid4 values, which PostgreSQL can order
    Users,          \* provisioned accounts
    MaxVersion      \* largest value of the integer column "version"

GrantedRoles == {"admin", "viewer"}
Roles == GrantedRoles \cup {"owner"}

\* What a client, or an account script, can ask for.
Requests ==
         [op : {"create"}, actor : Users]
    \cup [op : {"update", "delete"}, actor : Users, company : Companies,
          version : 1..MaxVersion]
    \cup [op : {"grant", "change", "transfer"}, actor : Users,
          company : Companies, target : Users, role : GrantedRoles]
    \cup [op : {"revoke"}, actor : Users, company : Companies, target : Users]
    \cup [op : {"activate", "deactivate"}, target : Users]

ScriptOps == {"activate", "deactivate"}
CompanyOps == {"update", "delete", "grant", "change", "revoke", "transfer"}

\* The roles require_role, or the owner test of a transfer, lets through.
Allowed(op) == IF op = "update" THEN {"owner", "admin"} ELSE {"owner"}

=============================================================================
