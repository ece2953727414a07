---------------------------- MODULE Configuration ----------------------------
(***************************************************************************)
(* The processes that work on configurations: the `config` commands        *)
(* (module Update), and the preparation of an instance with its override   *)
(* script and its provider caches (module Preparation).  They have no      *)
(* state in common but the catalog, of which a preparation only reads a    *)
(* snapshot here, so a behaviour is one of the one or one of the other.    *)
(***************************************************************************)
EXTENDS Update, Preparation

VARIABLE part   \* which of the two

configurationVars == <<part, updateVars, prepareVars>>

ConfigurationInit ==
    /\ part \in {"commands", "preparation"}
    /\ UpdateInit /\ PrepareInit
    /\ part = "commands" => layout = "apart" /\ ~script /\ \A r \in Remote : ~Exists(r)
    /\ part = "preparation" => catalog.token = 0

CommandsStep == part = "commands" /\ UpdateNext /\ UNCHANGED <<part, prepareVars>>
PreparationStep == part = "preparation" /\ PrepareNext /\ UNCHANGED <<part, updateVars>>

ConfigurationNext == CommandsStep \/ PreparationStep

ConfigurationSpec == ConfigurationInit /\ [][ConfigurationNext]_configurationVars

\* Neither the commands nor the provider syncs overwrite or undo what another of
\* them, or they themselves, have just written.
NothingIsOverwritten == ConfigCommandsAreExact /\ OwnOutputKept

=============================================================================
