------------------------------ MODULE MCStore ------------------------------
(* Instances of Store for TLC.                                             *)
EXTENDS Store, TLC

CONSTANTS k1, k2, raw, full, slim, g1, p1, p2, c1, c2, s1, s2

\* raw carries a plugin and is not runtime ready; slim drops a member of full.
\* The selection of the legacy profile is one its head no longer accepts.
MCMembers ==
    [b \in Bundles |-> IF b = full THEN {<<g1, p1>>, <<g1, p2>>}
                       ELSE IF b = slim THEN {<<g1, p1>>} ELSE {}]
MCSelectable == [b \in Bundles |-> IF b = full THEN {<<g1, p1>>} ELSE {}]
MCLegacyBundle == [k \in Keys |-> IF k = k1 THEN full ELSE NONE]
MCLegacySelections == [k \in Keys |-> IF k = k1 THEN {<<g1, p2>>} ELSE {}]
MCSymmetry == Permutations(Clients)
=============================================================================
