--------------------------- MODULE MCAccountBroker ---------------------------
(* Small instances of AccountBroker for TLC. *)
EXTENDS AccountBroker, TLC

CONSTANTS p1, p2, a1, a2, n1, n2, u1, u2, b1, b2, s1, s2, i1, i2, i3

Symmetry == Permutations(Principals) \cup Permutations(AccountIds)
              \cup Permutations(Names) \cup Permutations(Subjects)
              \cup Permutations(Browsers) \cup Permutations(States)
              \cup Permutations(IntentIds)

=============================================================================
