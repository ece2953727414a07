---------------------------- MODULE MCSelection ----------------------------
(* Model values and symmetry for checking Selection. *)
EXTENDS Selection, TLC

CONSTANTS c1, c2, g1, g2, p1, p2, h1, h2

\* Revision h2 has lost the group g2.
MCOffers == [h \in Heads |-> (IF h = h2 THEN {g1} ELSE Groups) \X Proxies]

MCSymmetry == Permutations(Clients) \cup Permutations(Proxies)

============================================================================
