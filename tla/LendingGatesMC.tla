--------------------------- MODULE LendingGatesMC ---------------------------
EXTENDS LendingGates, TLC

Symmetry == Permutations(Applicant)

=============================================================================
