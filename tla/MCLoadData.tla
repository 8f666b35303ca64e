----------------------------- MODULE MCLoadData -----------------------------
EXTENDS LoadData, TLC

\* Counts with companies of several sizes, rounds of assignments that are whole
\* and that are not, accesses that do not divide by the companies, and few users.
MCProfiles ==
    {[users |-> 50, companies |-> 10, access |-> 50, employees |-> 10,
      projects |-> 10, assignments |-> 9, sessions |-> 50],
     [users |-> 60, companies |-> 10, access |-> 75, employees |-> 100,
      projects |-> 40, assignments |-> 300, sessions |-> 30],
     [users |-> 56, companies |-> 11, access |-> 62, employees |-> 73,
      projects |-> 25, assignments |-> 64, sessions |-> 56],
     [users |-> 40, companies |-> 17, access |-> 130, employees |-> 7,
      projects |-> 52, assignments |-> 17, sessions |-> 40]}

Symmetry == Permutations(Generators)

=============================================================================
