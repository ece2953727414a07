----------------------------- MODULE MCDaemon -----------------------------
(* Model values and symmetry for checking Daemon. *)
EXTENDS Daemon, TLC

CONSTANTS c1, c2, c3, p1, p2

MCSymmetry == Permutations(Callers) \cup Permutations(Payloads)

============================================================================
