--------------------------- MODULE MCUserService ---------------------------
EXTENDS UserService, TLC

CONSTANTS p1, p2

MCSymmetry == Permutations({p1, p2})

=============================================================================
