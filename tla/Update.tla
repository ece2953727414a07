------------------------------- MODULE Update -------------------------------
(***************************************************************************)
(* The `config` commands of src/src/cli.rs: load, download, use, delete,   *)
(* update and override.  Each is a process of its own.  It reads a         *)
(* snapshot of the catalog, works outside every lock (a download, a        *)
(* script), and commits by compare-and-swap on the snapshot's token.       *)
(* Then it rewrites the legacy mirror.  Update and override last restart   *)
(* the daemon, if it runs exactly the revision they have replaced.         *)
(*                                                                         *)
(* The catalog is one register: module Store and its theorem               *)
(* StoreImplementsRegister are about how the files come to behave as one.  *)
(* A revision is the digest of what it holds, so it is modelled by that:   *)
(* equal contents are the same revision.                                   *)
(***************************************************************************)
EXTENDS Integers, FiniteSets, FiniteSetsExt

CONSTANTS
    Commands,   \* processes, each runs one command, numbered as they start
    Keys,       \* profile keys, numbers: the mirror is written in their order
    Sources,    \* configuration documents
    Incoming,   \* the ones in local files and on servers
    Unready,    \* the documents the runtime cannot run unless a script patches them
    Scripts,    \* override scripts
    Restarts,   \* bound: daemon starts and stops by other processes
    NONE, ERROR

ASSUME KeysAssumption == Keys \subseteq Nat /\ Commands \subseteq Nat \ {0}
ASSUME SourcesAssumption == Incoming \cup Unready \subseteq Sources
ASSUME NoneOutside == {NONE, ERROR} \cap (Keys \cup Sources \cup Scripts \cup Nat) = {}

VARIABLES
    catalog,  \* the committed catalog
    daemon,   \* the daemon's descriptor
    mirror,   \* the files under configs/, meta.json, and the token of the last
              \* catalog that a command reported as mirrored
    lock,     \* holder of legacy-mirror.lock, or 0
    cmd       \* the state of each command

updateVars == <<catalog, daemon, mirror, lock, cmd>>

Revision == [src : Sources, script : Scripts \cup {NONE}, url : BOOLEAN]
ReadyAlways(revision) == TRUE
\* Bundle::catalog_ready judges what a script made of the document, and that was
\* taken only because the runtime can run it.
Ready(revision) == revision.script # NONE \/ revision.src \notin Unready

Catalog == [token : Nat, heads : [Keys -> Revision \cup {NONE}],
            active : Keys \cup {NONE}, saved : Nat]
Instance == [number : Nat, key : Keys, revision : Revision, foreground : BOOLEAN]
Ops == {"load", "download", "use", "delete", "update", "override", "clear"}
\* "told" stands for every answer that says what has persisted: success, applied
\* or not, CONFIG_*_APPLY_FAILED and RESTART_CONTENDED.
Outcomes == {"none", "told", "failed"}
Stages == {"idle", "capture", "fetch", "script", "reload", "commit", "read", "lock", "files",
           "check", "apply", "prepare", "restart", "done"}

Command ==
    [pc : Stages, op : Ops \cup {NONE}, key : Keys \cup {NONE}, activate : BOOLEAN,
     token : Nat, old : Revision \cup {NONE}, new : Revision \cup {NONE},
     captured : Instance \cup {NONE, ERROR},
     todo : SUBSET Keys, view : Catalog \cup {NONE},
     committed : BOOLEAN,
     outcome : Outcomes]

UpdateTypeOK ==
    /\ catalog \in Catalog
    /\ daemon \in [running : Instance \cup {NONE}, starts : Nat]
    /\ mirror \in [files : [Keys -> Revision \cup {NONE}], meta : Catalog \cup {NONE},
                   reported : Nat]
    /\ lock \in Commands \cup {0}
    /\ cmd \in [Commands -> Command]

Idle == [pc |-> "idle", op |-> NONE, key |-> NONE, activate |-> FALSE, token |-> 0,
         old |-> NONE, new |-> NONE, captured |-> NONE, todo |-> {}, view |-> NONE,
         committed |-> FALSE, outcome |-> "none"]

Existing == {k \in Keys : catalog.heads[k] # NONE}
Head(k) == catalog.heads[k]

-----------------------------------------------------------------------------
(* Where a command goes. *)

Goto(c, stage) == cmd' = [cmd EXCEPT ![c].pc = stage]

\* The command prints its result and exits.  What it no longer needs is dropped.
End(c, result) ==
    cmd' = [cmd EXCEPT ![c] = [Idle EXCEPT !.pc = "done", !.outcome = result]]

At(c, stage) == cmd[c].pc = stage

\* Which of the commands restart the daemon, and which run a script.
Applies(op) == op \in {"update", "override", "clear"}

-----------------------------------------------------------------------------
(* Up to the commit. *)

\* config_command and update read their snapshot; `load` has captured its file
\* before.  A command that finds nothing to do, or may not go on, ends here.
BeginLoad(c, k, s) ==
    /\ At(c, "idle")
    /\ IF s \in Unready \/ k \in Existing
       THEN End(c, "failed")
       ELSE cmd' = [cmd EXCEPT ![c] = [Idle EXCEPT !.pc = "commit", !.op = "load", !.key = k,
                        !.activate = TRUE, !.token = catalog.token,
                        !.new = [src |-> s, script |-> NONE, url |-> FALSE]]]
    /\ UNCHANGED <<catalog, daemon, mirror, lock>>

BeginDownload(c, k, default) ==
    /\ At(c, "idle")
    /\ IF k \in Existing
       THEN End(c, "failed")
       ELSE cmd' = [cmd EXCEPT ![c] = [Idle EXCEPT !.pc = "fetch", !.op = "download", !.key = k,
                        !.activate = default]]
    /\ UNCHANGED <<catalog, daemon, mirror, lock>>

BeginUse(c, k) ==
    /\ At(c, "idle")
    /\ IF k \notin Existing
       THEN End(c, "failed")
       ELSE IF ~Ready(Head(k))
       THEN End(c, "failed")
       ELSE cmd' = [cmd EXCEPT ![c] = [Idle EXCEPT !.pc = "commit", !.op = "use", !.key = k,
                        !.token = catalog.token]]
    /\ UNCHANGED <<catalog, daemon, mirror, lock>>

BeginDelete(c, k) ==
    /\ At(c, "idle")
    /\ IF k \notin Existing
       THEN End(c, "failed")
       ELSE cmd' = [cmd EXCEPT ![c] = [Idle EXCEPT !.pc = "commit", !.op = "delete", !.key = k,
                        !.token = catalog.token, !.old = Head(k)]]
    /\ UNCHANGED <<catalog, daemon, mirror, lock>>

BeginUpdate(c, k) ==
    /\ At(c, "idle")
    /\ IF k \notin Existing
       THEN End(c, "failed")
       ELSE IF ~Head(k).url
       THEN End(c, "failed")
       ELSE cmd' = [cmd EXCEPT ![c] = [Idle EXCEPT !.pc = "capture", !.op = "update", !.key = k,
                        !.token = catalog.token, !.old = Head(k)]]
    /\ UNCHANGED <<catalog, daemon, mirror, lock>>

\* persisted_override is about the active profile.
BeginOverride(c, op) ==
    /\ At(c, "idle")
    /\ op \in {"override", "clear"}
    /\ IF catalog.active = NONE
       THEN End(c, "failed")
       ELSE IF op = "clear" /\ Head(catalog.active).script = NONE
       THEN End(c, "told")
       ELSE cmd' = [cmd EXCEPT ![c] = [Idle EXCEPT !.pc = "capture", !.op = op,
                        !.key = catalog.active, !.token = catalog.token,
                        !.old = Head(catalog.active)]]
    /\ UNCHANGED <<catalog, daemon, mirror, lock>>

\* daemon::capture_restart, whose error is kept until the commit is made.
Capture(c) ==
    /\ At(c, "capture")
    /\ \E seen \in {daemon.running, ERROR} :
           cmd' = [cmd EXCEPT ![c].captured = seen,
                              ![c].pc = IF cmd[c].op = "update" THEN "fetch" ELSE "script"]
    /\ UNCHANGED <<catalog, daemon, mirror, lock>>

FetchRebased(c) ==
    /\ At(c, "fetch")
    /\ \E s \in Incoming :
           IF cmd[c].op = "update"
           THEN cmd' = [cmd EXCEPT ![c].pc = "commit", ![c].token = catalog.token,
                            ![c].old = Head(cmd[c].key), ![c].new = [cmd[c].old EXCEPT !.src = s]]
           ELSE End(c, "failed")
    /\ UNCHANGED <<catalog, daemon, mirror, lock>>
\* download and Bundle::from_memory: the document, or a failure that ends the command.
Fetch(c) ==
    /\ At(c, "fetch")
    /\ \/ End(c, "failed")
       \/ \E s \in Incoming :
              IF cmd[c].op = "update"
              THEN cmd' = [cmd EXCEPT ![c].new = [cmd[c].old EXCEPT !.src = s],
                                      ![c].pc = IF cmd[c].old.script = NONE
                                                THEN "commit" ELSE "script"]
              ELSE IF cmd[c].activate /\ s \in Unready
              THEN End(c, "failed")
              ELSE cmd' = [cmd EXCEPT ![c].pc = "reload",
                               ![c].new = [src |-> s, script |-> NONE, url |-> TRUE]]
    /\ UNCHANGED <<catalog, daemon, mirror, lock>>

\* The frozen script of the old revision, a new one, or none for --clear.
ScriptFor(c) ==
    CASE cmd[c].op = "update" -> {cmd[c].old.script}
      [] cmd[c].op = "override" -> Scripts
      [] cmd[c].op = "clear" -> {NONE}

\* override_script::execute, materialize_source and from_memory, which may all
\* fail: for a patched document that the runtime cannot run they do.  An override
\* is cleared only if the runtime can run the document without it.
Script(c) ==
    /\ At(c, "script")
    /\ \/ End(c, "failed")
       \/ \E f \in ScriptFor(c) :
              LET base == IF cmd[c].op = "update" THEN cmd[c].new ELSE cmd[c].old
                  new == [base EXCEPT !.script = f]
              IN  /\ cmd[c].op = "update" \/ Ready(new)
                  /\ cmd' = [cmd EXCEPT ![c].new = new, ![c].pc = "commit"]
    /\ UNCHANGED <<catalog, daemon, mirror, lock>>

\* The download is over: download reads the catalog again.
Reload(c) ==
    /\ At(c, "reload")
    /\ IF cmd[c].key \in Existing
       THEN End(c, "failed")
       ELSE cmd' = [cmd EXCEPT ![c].pc = "commit", ![c].token = catalog.token,
                        ![c].activate = @ \/ (catalog.active = NONE /\ Ready(cmd[c].new))]
    /\ UNCHANGED <<catalog, daemon, mirror, lock>>

-----------------------------------------------------------------------------
(* The commit. *)

\* Store::expected
Expected(token) == catalog.token = token

\* publish_frozen.  `old` is the head the caller expects, NONE for a new key.
Publishes(c) ==
    LET new == cmd[c].new
        active == cmd[c].activate \/ catalog.active = cmd[c].key
    IN  /\ Head(cmd[c].key) = cmd[c].old
        /\ ~active \/ Ready(new)
        /\ catalog' = [catalog EXCEPT !.token = @ + 1, !.heads[cmd[c].key] = new,
                           !.active = IF active THEN cmd[c].key ELSE @]

\* Store::activate
Activates(c) ==
    /\ IF cmd[c].key \in Existing THEN Ready(Head(cmd[c].key)) ELSE FALSE
    /\ catalog' = [catalog EXCEPT !.token = @ + 1, !.active = cmd[c].key]

\* Store::delete
Deletes(c) ==
    /\ cmd[c].key \in Existing
    /\ Head(cmd[c].key) = cmd[c].old
    /\ catalog' = [catalog EXCEPT !.token = @ + 1, !.heads[cmd[c].key] = NONE,
                       !.active = IF @ = cmd[c].key THEN NONE ELSE @]

\* Update and override ask for a ready revision before they call the store: the
\* active profile of their snapshot is the catalog's, as the tokens are equal.
Mutation(c) ==
    CASE cmd[c].op = "use" -> Activates(c)
      [] cmd[c].op = "delete" -> Deletes(c)
      [] Applies(cmd[c].op) ->
             (catalog.active = cmd[c].key => Ready(cmd[c].new)) /\ Publishes(c)
      [] OTHER -> Publishes(c)

Commit(c) ==
    /\ At(c, "commit")
    /\ Expected(cmd[c].token)
    /\ Mutation(c)
    /\ cmd' = [cmd EXCEPT ![c].committed = TRUE, ![c].token = 0,
                   ![c].pc = IF cmd[c].op \in {"use", "delete", "download"}
                             THEN "lock" ELSE "read"]
    /\ UNCHANGED <<daemon, mirror, lock>>

\* A conflict, a profile that is not ready, or an I/O error before the rename.
Refused(c) ==
    /\ At(c, "commit")
    /\ End(c, "failed")
    /\ UNCHANGED <<catalog, daemon, mirror, lock>>

\* store.get(name)?.head: what the catalog holds now, not what was committed.
\* Download reads it last, the others before the mirror.
ReadBack(c) ==
    /\ At(c, "read")
    /\ IF cmd[c].key \notin Existing
       THEN End(c, "failed")
       ELSE IF cmd[c].op = "download"
       THEN End(c, "told")
       ELSE cmd' = [cmd EXCEPT ![c].pc = "lock", ![c].new = Head(cmd[c].key)]
    /\ UNCHANGED <<catalog, daemon, mirror, lock>>

-----------------------------------------------------------------------------
(* refresh_mirror, called by health_data: its failure is a flag in the answer. *)

\* After the mirror: apply_revision, the head a download reports, or the answer.
Then(c) ==
    IF Applies(cmd[c].op) \/ cmd[c].op = "download"
    THEN cmd' = [cmd EXCEPT ![c].pc = IF Applies(cmd[c].op) THEN "apply" ELSE "read",
                            ![c].view = NONE, ![c].todo = {}]
    ELSE End(c, "told")

MirrorLock(c) ==
    /\ At(c, "lock") /\ lock = 0
    /\ lock' = c
    /\ cmd' = [cmd EXCEPT ![c].pc = "files", ![c].view = catalog, ![c].todo = Existing]
    /\ UNCHANGED <<catalog, daemon, mirror>>

MirrorFile(c) ==
    /\ At(c, "files") /\ cmd[c].todo # {}
    /\ LET k == Min(cmd[c].todo)
       IN  /\ mirror' = [mirror EXCEPT !.files[k] = cmd[c].view.heads[k]]
           /\ cmd' = [cmd EXCEPT ![c].todo = @ \ {k}]
    /\ UNCHANGED <<catalog, daemon, lock>>

\* Stale files go one by one; then the tree is verified and meta.json written.
Stale(c) == {k \in Keys : mirror.files[k] # NONE /\ cmd[c].view.heads[k] = NONE}
MirrorPrune(c) ==
    /\ At(c, "files") /\ cmd[c].todo = {} /\ Stale(c) # {}
    /\ mirror' = [mirror EXCEPT !.files[Min(Stale(c))] = NONE]
    /\ UNCHANGED <<catalog, daemon, lock, cmd>>
MirrorMeta(c) ==
    /\ At(c, "files") /\ cmd[c].todo = {} /\ Stale(c) = {}
    /\ mirror' = [mirror EXCEPT !.meta = cmd[c].view]
    /\ Goto(c, "check")
    /\ UNCHANGED <<catalog, daemon, lock>>

MirrorCheck(c) ==
    /\ At(c, "check") /\ catalog.token = cmd[c].view.token
    /\ lock' = 0
    /\ mirror' = [mirror EXCEPT !.reported = catalog.token]
    /\ Then(c)
    /\ UNCHANGED <<catalog, daemon>>

\* The lock is not had in five seconds, a write fails, or the token has moved.
MirrorFails(c) ==
    /\ cmd[c].pc \in {"lock", "files", "check"}
    /\ lock' = IF lock = c THEN 0 ELSE lock
    /\ Then(c)
    /\ UNCHANGED <<catalog, daemon, mirror>>

-----------------------------------------------------------------------------
(* apply_revision. *)

\* The captured daemon is one that apply_revision may replace, and the head is
\* still the revision to run.  Otherwise the answer says that it is not applied.
MayApply(c) ==
    LET seen == cmd[c].captured
    IN  /\ seen \notin {NONE, ERROR}
        /\ seen.key = cmd[c].key /\ seen.revision = cmd[c].old
        /\ ~seen.foreground
        /\ Head(cmd[c].key) = cmd[c].new

Apply(c) ==
    /\ At(c, "apply")
    /\ IF MayApply(c)
       THEN cmd' = [cmd EXCEPT ![c].pc = "prepare", ![c].token = catalog.token]
       ELSE End(c, "told")
    /\ UNCHANGED <<catalog, daemon, mirror, lock>>

\* service::prepare_loaded: a script, ports and rules may fail; selections that
\* no longer exist, and a generated secret, are committed on the token read.
Prepare(c) ==
    /\ At(c, "prepare")
    /\ \/ End(c, "told") /\ UNCHANGED catalog
       \/ Goto(c, "restart") /\ UNCHANGED catalog
       \/ /\ Expected(cmd[c].token)
          /\ Head(cmd[c].key) = cmd[c].new
          /\ catalog' = [catalog EXCEPT !.token = @ + 1, !.saved = @ + 1]
          /\ Goto(c, "restart")
    /\ UNCHANGED <<daemon, mirror, lock>>

\* The descriptor is the captured one, under the launch lock.
SameInstance(c) == daemon.running = cmd[c].captured

Start(k, revision) ==
    daemon' = [running |-> [number |-> daemon.starts + 1, key |-> k, revision |-> revision,
                            foreground |-> FALSE],
               starts |-> daemon.starts + 1]

\* daemon::restart_checked, whose steps module Daemon has: the target runs, the
\* old snapshot runs again, the rollback fails too, or the stop fails.
Restart(c) ==
    /\ At(c, "restart")
    /\ IF ~SameInstance(c)
       THEN End(c, "told") /\ UNCHANGED daemon
       ELSE \/ Start(cmd[c].key, cmd[c].new) /\ End(c, "told")
            \/ Start(cmd[c].captured.key, cmd[c].captured.revision) /\ End(c, "told")
            \/ daemon' = [daemon EXCEPT !.running = NONE] /\ End(c, "told")
            \/ UNCHANGED daemon /\ End(c, "told")
    /\ UNCHANGED <<catalog, mirror, lock>>

-----------------------------------------------------------------------------
(* The rest of the machine. *)

\* Another process starts, restarts or stops the daemon.
Elsewhere ==
    /\ daemon.starts < Restarts
    /\ \/ catalog.active # NONE /\ Start(catalog.active, Head(catalog.active))
       \/ daemon.running # NONE /\ daemon' = [daemon EXCEPT !.running = NONE]
    /\ UNCHANGED <<catalog, mirror, lock, cmd>>

\* The command's process is killed: the kernel releases its lock.  Before the
\* commit that is the same as a failure, and later the same as a failed apply.
Crash(c) ==
    /\ cmd[c].pc \in {"read", "lock", "files", "check"}
    /\ lock' = IF lock = c THEN 0 ELSE lock
    /\ End(c, "none")
    /\ UNCHANGED <<catalog, daemon, mirror>>

Begin(c) ==
    /\ \A d \in Commands : d < c => ~At(d, "idle")
    /\ \/ \E k \in Keys, s \in Incoming : BeginLoad(c, k, s)
       \/ \E k \in Keys, default \in BOOLEAN : BeginDownload(c, k, default)
       \/ \E k \in Keys : BeginUse(c, k) \/ BeginDelete(c, k) \/ BeginUpdate(c, k)
       \/ \E op \in Ops : BeginOverride(c, op)

Continue(c) ==
    \/ Capture(c) \/ Fetch(c) \/ Script(c) \/ Reload(c)
    \/ Commit(c) \/ Refused(c) \/ ReadBack(c)
    \/ MirrorLock(c) \/ MirrorFile(c) \/ MirrorPrune(c) \/ MirrorMeta(c)
    \/ MirrorCheck(c) \/ MirrorFails(c)
    \/ Apply(c) \/ Prepare(c) \/ Restart(c)

Profile(script) == [src |-> Min(Sources), script |-> script, url |-> TRUE]

\* An empty catalog, or one active subscription that the daemon runs or not (bound:
\* an override comes to a running instance by a command or by another process).
UpdateInit ==
    /\ catalog \in
           {[token |-> 0, saved |-> 0, active |-> NONE, heads |-> [j \in Keys |-> NONE]]} \cup
           {[token |-> 1, saved |-> 0, active |-> k,
             heads |-> [j \in Keys |-> IF j = k THEN Profile(script) ELSE NONE]] :
                k \in {Min(Keys)}, script \in Scripts \cup {NONE}}
    /\ daemon \in
           {[starts |-> 0, running |-> NONE]} \cup
           {[starts |-> 0, running |-> [number |-> 0, key |-> k, revision |-> Head(k),
                                        foreground |-> fg]] :
                k \in {j \in Existing : Head(j).script = NONE}, fg \in BOOLEAN}
    /\ mirror = [files |-> catalog.heads,
                 meta |-> IF catalog.token = 0 THEN NONE ELSE catalog, reported |-> 0]
    /\ lock = 0
    /\ cmd = [c \in Commands |-> Idle]

UpdateNext ==
    \/ \E c \in Commands : Begin(c) \/ Continue(c) \/ Crash(c)
    \/ Elsewhere

-----------------------------------------------------------------------------
(* Properties. *)

\* The active profile can run, whatever the commands that change it and the
\* ones that activate it do at the same time.
ActiveCanRun ==
    catalog.active # NONE =>
        /\ Head(catalog.active) # NONE
        /\ Head(catalog.active).script # NONE \/ Head(catalog.active).src \notin Unready

Committing(c) == ~cmd[c].committed /\ cmd'[c].committed

\* An update commits the script that is the head's when it commits, an override
\* the head's document: neither undoes what was committed while it worked.
NothingLost ==
    [][\A c \in Commands : Committing(c) =>
           LET k == cmd[c].key
           IN  Applies(cmd[c].op) =>
                   /\ Head(k) # NONE
                   /\ IF cmd[c].op = "update"
                      THEN catalog'.heads[k].script = Head(k).script
                      ELSE catalog'.heads[k].src = Head(k).src]_updateVars

\* Load and download take only names that are free, also after a long download,
\* and a download that was not told to leaves an active profile active.
NewNamesOnly ==
    [][\A c \in Commands : Committing(c) =>
           /\ cmd[c].op \in {"load", "download"} => Head(cmd[c].key) = NONE
           /\ (cmd[c].op = "download" /\ catalog.active # NONE /\ catalog'.active # catalog.active)
                  => cmd[c].activate]_updateVars

\* A command stops a daemon only if it runs the very revision the command has
\* replaced, and starts nothing but that one or the one it read back.
RestartsItsOwn ==
    [][\A c \in Commands :
           (At(c, "restart") /\ cmd'[c].pc = "done" /\ daemon' # daemon) =>
               /\ daemon.running # NONE
               /\ daemon.running.key = cmd[c].key /\ daemon.running.revision = cmd[c].old
               /\ daemon'.running # NONE =>
                      /\ daemon'.running.key = cmd[c].key
                      /\ daemon'.running.revision \in {cmd[c].old, cmd[c].new}]_updateVars

\* A command that reports a failure without saying that its revision persisted
\* has committed nothing, or its profile was deleted before it read it back.
FailureChangesNothing ==
    [][\A c \in Commands :
           (cmd'[c].outcome = "failed" /\ cmd[c].committed) =>
               Head(cmd[c].key) = NONE]_updateVars

\* A mirror reported as in sync is the catalog's, file by file, until the
\* catalog changes again, whoever else is rewriting it.
MirrorReport ==
    mirror.reported = catalog.token =>
        (catalog.token = 0 \/ (mirror.files = catalog.heads /\ mirror.meta = catalog))

\* The active profile can run and a mirror in sync is the catalog's.
CatalogIsUsable == UpdateTypeOK /\ ActiveCanRun /\ MirrorReport

\* The commands lose, overwrite and restart nothing that is not theirs, and a
\* failure they report has changed nothing.
ConfigCommandsAreExact == NothingLost /\ NewNamesOnly /\ RestartsItsOwn /\ FailureChangesNothing
=============================================================================
