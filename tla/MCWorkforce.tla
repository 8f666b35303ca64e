---------------------------- MODULE MCWorkforce -----------------------------
(* Small instances of Workforce for TLC. *)
EXTENDS Workforce, TLC

\* The bodies of PATCH requests that are tried.
StatusPatches ==
    {[status |-> "active", ended |-> FALSE, email |-> Keep],
     [status |-> "terminated", ended |-> TRUE, email |-> Keep],
     [status |-> "terminated", ended |-> Keep, email |-> Keep]}

EmailPatches ==
    {[status |-> Keep, ended |-> Keep, email |-> m] : m \in Emails \cup {None}}

TenantPatches ==
    {[status |-> "terminated", ended |-> TRUE, email |-> Keep],
     [status |-> "leave", ended |-> Keep, email |-> Keep]}

Symmetry == Permutations(Procs) \cup Permutations(Users) \cup Permutations(Employees)

=============================================================================
