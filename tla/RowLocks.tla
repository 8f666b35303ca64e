------------------------------ MODULE RowLocks ------------------------------
(***************************************************************************)
(* The part of PostgreSQL the services lean on: the exclusive row lock     *)
(* taken by SELECT ... FOR UPDATE and kept until the transaction ends.     *)
(* A lock table is a function from the rows of one table to the process    *)
(* whose transaction holds the row, or to None.                            *)
(***************************************************************************)

CONSTANT None                   \* no process: the row is free

\* p may lock row r: nobody holds it, or p's own transaction already does.
Granted(locks, r, p) == locks[r] \in {None, p}

\* p's transaction now holds row r.
Take(locks, r, p) == [locks EXCEPT ![r] = p]

\* COMMIT or ROLLBACK of p's transaction frees every row it holds.
Release(locks, p) == [r \in DOMAIN locks |-> IF locks[r] = p THEN None ELSE locks[r]]

=============================================================================
