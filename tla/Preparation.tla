----------------------------- MODULE Preparation -----------------------------
(***************************************************************************)
(* service::prepare_loaded, src/src/service.rs, up to what it commits      *)
(* (module Store has that): the source is held, a one-shot override script *)
(* runs (module OverrideChild), the patched declarations are checked, and  *)
(* the provider caches of an unmanaged source are synchronized (module     *)
(* ProviderSync).  A managed revision is immutable: its deferred remote    *)
(* providers are dropped or refused, never fetched.                        *)
(*                                                                         *)
(* Either one process prepares with a script, or several prepare without.  *)
(***************************************************************************)
EXTENDS OverrideChild, ProviderSync

VARIABLES
    script,  \* options.override_options.script_path is given
    prep     \* the progress of each preparation

prepareVars == <<script, prep, childVars, syncVars>>

PrepareStages == {"idle", "script", "check", "sync", "settle", "prepared", "refused"}
\* Syncs are numbered in the order in which they begin; the first has the script.
Scripted == Min(Syncs)

PrepareTypeOK ==
    /\ ChildTypeOK /\ SyncTypeOK
    /\ script \in BOOLEAN
    /\ prep \in [Syncs -> [pc : PrepareStages, managed : BOOLEAN, eager : BOOLEAN, remotes : BOOLEAN]]

Unprepared == [pc |-> "idle", managed |-> FALSE, eager |-> FALSE, remotes |-> FALSE]

PrepareInit ==
    /\ ChildInit /\ SyncInit
    /\ script \in BOOLEAN
    /\ script => layout = "apart" /\ \A r \in Remote : ~Exists(r)
    /\ ~script => parent.worker
    /\ prep = [s \in Syncs |-> Unprepared]

PrepareAt(s, stage) == prep[s].pc = stage
PrepareGoto(s, stage) == prep' = [prep EXCEPT ![s].pc = stage]
PrepareEnds(s, stage) == prep' = [prep EXCEPT ![s] = [Unprepared EXCEPT !.pc = stage]]

\* The loaded bundle: managed, or a file whose directory and descriptor are held
\* before any await.  It may not be ready, or not be held.
HoldSource(s) ==
    /\ PrepareAt(s, "idle") /\ (script => s = Scripted)
    /\ \A t \in Syncs : t < s => ~PrepareAt(t, "idle")
    /\ \/ PrepareEnds(s, "refused")
       \/ \E managed, eager, remotes \in BOOLEAN :
              /\ script => ~eager /\ ~remotes
              /\ prep' = [prep EXCEPT ![s] = [pc |-> IF script THEN "script" ELSE "check",
                              managed |-> managed, eager |-> eager, remotes |-> remotes]]
    /\ UNCHANGED <<script, childVars, syncVars>>

\* override_script::execute ran: the patch may declare remote providers.
\* What the script has left behind is no longer looked at.
PatchTaken ==
    /\ PrepareAt(Scripted, "script") /\ ParentAt("ok")
    /\ \/ PrepareEnds(Scripted, "refused")
       \/ \E remotes \in BOOLEAN :
              prep' = [prep EXCEPT ![Scripted].pc = "check", ![Scripted].remotes = remotes]
    /\ pipes' = [o \in Outs |-> [pipes[o] EXCEPT !.written = 0, !.read = 0]]
    /\ helper' = [helper EXCEPT !.state = "none", !.group = TRUE]
    /\ stranger' = "none" /\ late' = FALSE
    /\ UNCHANGED <<parent, leader, tmp, script, syncVars>>
ScriptFails ==
    /\ PrepareAt(Scripted, "script") /\ parent.pc \in {"failed", "dropped"}
    /\ PrepareEnds(Scripted, "refused")
    /\ UNCHANGED <<script, childVars, syncVars>>

\* Listeners, ports and declarations are checked, then a managed revision's
\* remote providers: one that a rule refers to is refused, the others are pruned.
CheckDeclarations(s) ==
    /\ PrepareAt(s, "check")
    /\ \/ PrepareEnds(s, "refused")
       \/ IF ~prep[s].managed /\ prep[s].remotes
          THEN PrepareGoto(s, "sync")
          ELSE PrepareEnds(s, "settle")
    /\ UNCHANGED <<script, childVars, syncVars>>

\* sync_http_assets, with the policy of the command.
Synchronize(s) ==
    /\ PrepareAt(s, "sync")
    /\ \/ StartSync(s, prep[s].eager)
       \/ CheckCache(s) \/ Downloaded(s) \/ DownloadFails(s) \/ DownloadTooLarge(s)
       \/ Parse(s) \/ Publish(s) \/ PublishFails(s) \/ PublishUnheld(s)
    /\ UNCHANGED <<script, prep, childVars>>
Synchronized(s) ==
    /\ PrepareAt(s, "sync")
    /\ \/ StageOf(s) = "ok" /\ PrepareEnds(s, "settle")
       \/ StageOf(s) = "failed" /\ PrepareEnds(s, "refused")
    /\ sync' = [sync EXCEPT ![s] = [IdleSync EXCEPT !.pc = StageOf(s)]]
    /\ UNCHANGED <<script, childVars, layout, disk, used>>

\* Config::parse_with_assets, the selections, the ports and the controller's secret.
Settle(s) ==
    /\ PrepareAt(s, "settle")
    /\ PrepareEnds(s, "prepared") \/ PrepareEnds(s, "refused")
    /\ UNCHANGED <<script, childVars, syncVars>>

RunScript ==
    /\ PrepareAt(Scripted, "script")
    /\ ParentStep
    /\ UNCHANGED <<script, prep, syncVars>>
ScriptRuns ==
    /\ PrepareAt(Scripted, "script")
    /\ Dropped \/ ScriptStep
    /\ UNCHANGED <<script, prep, syncVars>>

RemoveFile ==
    /\ ~script
    /\ \E slot \in Slots : RemoveCache(slot)
    /\ UNCHANGED <<script, prep, childVars>>

PrepareNext ==
    \/ \E s \in Syncs :
           HoldSource(s) \/ CheckDeclarations(s) \/ Synchronize(s) \/ Synchronized(s) \/ Settle(s)
    \/ PatchTaken \/ ScriptFails \/ RunScript \/ ScriptRuns \/ RemoveFile

-----------------------------------------------------------------------------

\* A managed revision is prepared without a request and without a cache written,
\* also when a one-shot script patches remote providers into it.
ManagedIsNotFetched == \A s \in Syncs : prep[s].managed => StageOf(s) = "idle"

\* A preparation that was given a script goes on only with the patch of one that
\* ended well: no timeout, no killed or failed script leaves its source unpatched.
PatchIsApplied ==
    script => (prep[Scripted].pc \in {"check", "sync", "settle", "prepared"} => ParentAt("ok"))

\* A preparation writes only caches, whole and within the budget, fetches nothing
\* for a managed revision and never leaves out the patch.
PreparationIsSound ==
    /\ PrepareTypeOK
    /\ WholeBeforeWrite /\ SourcesKept /\ BudgetHolds
    /\ ManagedIsNotFetched /\ PatchIsApplied
=============================================================================
