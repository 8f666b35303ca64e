----------------------------- MODULE MCSessions ------------------------------
(* Small instances of Sessions for TLC. *)
EXTENDS Sessions, TLC

\* Session ids, passwords and units of work are interchangeable.
Symmetry == Permutations(Ids) \cup Permutations(Procs) \cup Permutations(Secrets)

=============================================================================
