---------------------------- MODULE MCRateLimit -----------------------------
EXTENDS RateLimit, TLC

CONSTANT anna

\* Two spellings of one login.
MCNormal == [n \in Names |-> anna]
MCAmount == [c \in Categories |-> IF c = "login.ip" THEN 2 ELSE 1]
MCWindow == [c \in Categories |-> 2]
Symmetry == Permutations(Tasks)

=============================================================================
