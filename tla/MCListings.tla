---------------------------- MODULE MCListings ------------------------------
(* Small instances of Listings for TLC. *)
EXTENDS Listings, TLC

Symmetry == Permutations(Writers) \cup Permutations(Labels) \cup Permutations(Groups)

=============================================================================
