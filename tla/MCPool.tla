------------------------------ MODULE MCPool --------------------------------
(* A small instance of Pool for TLC: the constants are given in the cfg. *)
EXTENDS Pool

=============================================================================
