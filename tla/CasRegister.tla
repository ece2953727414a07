---------------------------- MODULE CasRegister ----------------------------
(***************************************************************************)
(* What the catalog promises its clients: a register that is read whole,   *)
(* replaced only by a client that has seen its present value, versioned by *)
(* a sequence that grows by one with every replacement, and that falls     *)
(* back, when power is lost, to a value replaced since the last flush.     *)
(* The single exception to compare-and-swap is the conversion of a legacy  *)
(* root, which no client can have seen as a catalog.                       *)
(***************************************************************************)
EXTENDS Naturals

CONSTANTS Clients, Initial, NONE

VARIABLES
    value,      \* the register
    survivors,  \* the values a crash may leave
    seen        \* seen[c]: the value client c last read, or NONE

registerVars == <<value, survivors, seen>>

RegisterInit ==
    /\ value \in Initial
    /\ survivors = {value}
    /\ seen = [c \in Clients |-> NONE]

Read(c) == seen' = [seen EXCEPT ![c] = value] /\ UNCHANGED <<value, survivors>>

Swap(c) ==
    /\ seen[c] = value \/ value.format = "legacy"
    /\ value'.format = "v2"
    /\ value'.sequence = value.sequence + 1
    /\ survivors' = survivors \cup {value'}
    /\ UNCHANGED seen

\* A flush may tell the client the value it has just stored.
Flush(c) ==
    /\ survivors' = {value}
    /\ seen' \in {seen, [seen EXCEPT ![c] = value]}
    /\ UNCHANGED value

Forget(c) == seen' = [seen EXCEPT ![c] = NONE] /\ UNCHANGED <<value, survivors>>

Crash ==
    /\ value' \in survivors
    /\ survivors' = {value'}
    /\ seen' = [c \in Clients |-> NONE]

RegisterNext ==
    \/ \E c \in Clients : Read(c) \/ Swap(c) \/ Flush(c) \/ Forget(c)
    \/ Crash

RegisterSpec == RegisterInit /\ [][RegisterNext]_registerVars
=============================================================================
