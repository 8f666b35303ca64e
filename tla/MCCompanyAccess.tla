-------------------------- MODULE MCCompanyAccess ---------------------------
(* Small instances of CompanyAccess for TLC. *)
EXTENDS CompanyAccess, TLC

\* Accounts, and units of work, are interchangeable.
Symmetry == Permutations(Users) \cup Permutations(Procs)

=============================================================================
