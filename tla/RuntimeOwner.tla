--------------------------- MODULE RuntimeOwner ---------------------------
(***************************************************************************)
(* What the daemon's locks and files promise to everybody who looks: the   *)
(* runtime directory has at most one owner, an owner comes once, and the   *)
(* announcement that an instance is ready is made and withdrawn by the     *)
(* owner alone.  An owner that dies leaves a stale announcement, which is  *)
(* removed before the next owner comes.                                    *)
(***************************************************************************)
CONSTANTS Instances, NONE

VARIABLES owner, past, announced

vars == <<owner, past, announced>>

Init ==
    /\ owner = NONE
    /\ past = {}
    /\ announced = NONE

Acquire(i) ==
    /\ owner = NONE
    /\ announced = NONE
    /\ i \notin past
    /\ owner' = i
    /\ past' = past \cup {i}
    /\ UNCHANGED announced

Announce ==
    /\ owner # NONE
    /\ announced = NONE
    /\ announced' = owner
    /\ UNCHANGED <<owner, past>>

Withdraw ==
    /\ announced \in {owner, NONE}
    /\ announced' = NONE
    /\ UNCHANGED <<owner, past>>

Leave ==
    /\ owner' = NONE
    /\ UNCHANGED <<past, announced>>

Sweep ==
    /\ owner = NONE
    /\ announced' = NONE
    /\ UNCHANGED <<owner, past>>

Next == (\E i \in Instances : Acquire(i)) \/ Announce \/ Withdraw \/ Leave \/ Sweep

Spec == Init /\ [][Next]_vars

============================================================================
