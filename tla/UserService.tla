---------------------------- MODULE UserService ----------------------------
(***************************************************************************)
(* The user service (src/src/user_service.rs): a daemon that the login     *)
(* session's service manager runs, the zc service commands that register,  *)
(* start, stop, restart, enable and inspect it, and the installer that     *)
(* replaces the binary under it and rolls back when that fails.            *)
(*                                                                         *)
(* Every command holds the operation lock from beginning to end, so at     *)
(* most one is under way: `cmd`.  What it races with is the manager, which *)
(* restarts a service that dies, and the service process itself.  Payloads *)
(* stand for frozen configurations; the name of a snapshot is a digest of  *)
(* its payload.  The manager answers for the unit it has loaded; commands  *)
(* to it may fail after or before they take effect.                        *)
(***************************************************************************)
EXTENDS Integers, FiniteSets

CONSTANTS
    Payloads,     \* frozen configurations
    MaxPids,      \* bound: service processes the manager starts
    MaxVersions,  \* bound: binaries that are installed
    Operations,   \* what is run: see Commands
    Installs,     \* bound: the platforms install is run on; the start in it takes no
                  \* step that the start in the recovery of a restart does not
    Faults,       \* what may go wrong: see FaultKinds
    NONE

Commands == {"start", "stop", "restart", "enable", "disable", "status", "install"}

ASSUME BoundsAssumption == MaxPids \in Nat /\ MaxVersions \in Nat \ {0}
ASSUME OperationsAssumption == Operations \subseteq Commands

\* The manager or a helper command fails, the process dies, a command is killed or
\* the machine restarts, an install is interrupted or its publisher fails.
FaultKinds == {"manager", "process", "kill", "install"}
ASSUME FaultsAssumption == Faults \subseteq FaultKinds

VARIABLES
    record,       \* registration.json, or NONE
    definitions,  \* the service definitions have been written
    files,        \* the snapshots in the service directory
    platform,     \* whose manager it is
    login,        \* the login definition is there (launchd), the unit enabled
    disabled,     \* launchctl disable is in force
    wanted,       \* the manager has been told to run the service
    proc,         \* the manager's main process, or NONE
    pids,         \* processes started so far
    manual,       \* an instance that was started by hand owns the runtime
    launchLock,   \* zc.launch.lock: "cmd", "proc" or NONE
    version,      \* the installed binary, or NONE
    backups,      \* the .zc.recovery.* files
    cmd,          \* the command under way, or NONE
    outcome,      \* history: how the last command ended
    committed,    \* history: the binary of the last install that was not undone
    damaged       \* history: a command was killed or reported a failed recovery

service == <<record, definitions, files>>
manager == <<login, disabled, wanted, proc, pids>>
binary == <<version, backups, committed>>
vars == <<platform, service, manager, manual, launchLock, binary, cmd, outcome, damaged>>

Registration == [snapshot : Payloads, allowed : BOOLEAN]
Pids == 1 .. MaxPids
Versions == 1 .. MaxVersions

\* A process waits for the launch lock, is authorized under it, owns zc.lock, has
\* taken the binary's lease and published its descriptor, is on its way out, or has
\* withdrawn its descriptor and not yet released its locks.
Phases == {"spawned", "loading", "owner", "announced", "draining", "leaving"}
Process == [pid : Pids, phase : Phases, ready : BOOLEAN,
            payload : Payloads \cup {NONE}, version : Versions]

\* ServiceCapture
Capture == [pid : Pids, ready : BOOLEAN, payload : Payloads]

Outcomes == {"ok", "failed", "stop_failed", "start_failed", "rolled_back",
             "recovery_failed", "installed"}

Command ==
    [pc : {"register", "record", "inspect", "capture", "verify", "write", "enable", "backup",
           "recheck", "gate", "stop", "stopping", "allow", "start", "reload", "starting",
           "poll",
           "lease", "publish", "check", "recover", "restore", "after"},
     op : Commands,
     explicit : Payloads \cup {NONE},           \* the configuration it was given
     current : Pids \cup {NONE},                \* ManagerState.pid
     captured : Capture \cup {NONE},
     original : Registration \cup {NONE},
     previous : Registration \cup {NONE},
     record : Registration \cup {NONE},
     recovering : BOOLEAN,
     enabled : BOOLEAN,                         \* ManagerState.enabled, to start_ready
     started : Pids \cup {NONE},                \* started_pid
     progress : {"NotRequested", "Unconfirmed", "Acknowledged", "Complete"},
     attempted : BOOLEAN,                       \* publication_attempted
     was : Versions \cup {NONE}]                \* the binary that was backed up

TypeOK ==
    /\ record \in Registration \cup {NONE}
    /\ definitions \in BOOLEAN
    /\ files \subseteq Payloads
    /\ platform \in {"Launchd", "Systemd"}
    /\ login \in BOOLEAN /\ disabled \in BOOLEAN /\ wanted \in BOOLEAN /\ manual \in BOOLEAN
    /\ proc \in Process \cup {NONE}
    /\ pids \in 0 .. MaxPids
    /\ launchLock \in {"cmd", "proc", NONE}
    /\ version \in Versions \cup {NONE} /\ committed \in Versions \cup {NONE}
    /\ backups \subseteq Versions
    /\ cmd \in Command \cup {NONE}
    /\ outcome \in Outcomes \cup {NONE}
    /\ damaged \in BOOLEAN

Init ==
    /\ record = NONE /\ definitions = FALSE /\ files = {}
    /\ platform \in {"Launchd", "Systemd"}
    /\ login = FALSE /\ disabled = FALSE /\ wanted = FALSE /\ proc = NONE /\ pids = 0
    /\ manual = FALSE
    /\ launchLock = NONE
    /\ version \in {NONE, 1} /\ committed = version /\ backups = {}
    /\ cmd = NONE /\ outcome = NONE /\ damaged = FALSE

-----------------------------------------------------------------------------
(* The command under way. *)

At(pc) == cmd # NONE /\ cmd.pc = pc

Go(next) == cmd' = next /\ UNCHANGED outcome
Goto(pc) == Go([cmd EXCEPT !.pc = pc])

\* Leaving the function gives the locks back.
Unlocked == IF launchLock = "cmd" THEN NONE ELSE launchLock

End(result) ==
    /\ cmd' = NONE
    /\ outcome' = result
    /\ launchLock' = Unlocked
    /\ damaged' = (damaged \/ result = "recovery_failed")

\* An error return that leaves everything as it is.
Fails(result) ==
    /\ End(result)
    /\ UNCHANGED <<service, manager, manual, binary>>

NewVersion == IF version = NONE THEN 1 ELSE version + 1

\* ManagerState.enabled: the service is started at the next login.
Enabled == login /\ ~disabled

PidOf(p) == IF p = NONE THEN NONE ELSE p.pid

\* capture_service: the descriptor of the process, NONE when nobody holds zc.lock,
\* and an error when somebody does who has not published one.
Captures ==
    CASE proc = NONE \/ (proc # NONE /\ proc.phase \in {"spawned", "loading"}) -> {NONE}
      [] proc # NONE /\ proc.phase \in {"announced", "draining"} ->
             {[pid |-> proc.pid, ready |-> proc.ready, payload |-> proc.payload]}
      [] OTHER -> {}

\* SERVICE_MANAGER_FAILED: a command to the manager fails.
ManagerFails == "manager" \in Faults

\* The other commands return at once while nothing is registered.
Begin(op, e) ==
    /\ cmd = NONE
    /\ op = "install" \/ version # NONE
    /\ definitions => record # NONE
    /\ record = NONE => op \in {"start", "enable", "install"}
    /\ e # NONE => op \in {"start", "restart", "enable"}
    /\ op = "install" => platform \in Installs /\ launchLock = NONE /\ NewVersion <= MaxVersions
    /\ launchLock' = IF op = "install" THEN "cmd" ELSE launchLock
    /\ outcome' = NONE
    /\ cmd' =
          [pc |-> IF record = NONE /\ op # "install" THEN "register" ELSE "inspect",
           op |-> op, explicit |-> e, current |-> NONE, captured |-> NONE,
           original |-> record, previous |-> record, record |-> record,
           recovering |-> FALSE, enabled |-> FALSE, started |-> NONE,
           progress |-> "NotRequested", attempted |-> FALSE, was |-> NONE]
    /\ UNCHANGED <<service, manager, manual, binary, damaged>>

-----------------------------------------------------------------------------
(* Registration, inspection and capture. *)

\* A first start or enable writes snapshot and definitions before the record.
Register ==
    /\ At("register")
    /\ \/ manual /\ Fails("failed")
       \/ /\ ~manual
          /\ \E p \in IF cmd.explicit = NONE THEN Payloads ELSE {cmd.explicit} :
                /\ files' = {p}
                /\ Go([cmd EXCEPT !.pc = "record", !.explicit = NONE,
                                  !.record = [snapshot |-> p, allowed |-> TRUE]])
          /\ definitions' = TRUE
          /\ UNCHANGED <<record, manager, manual, launchLock, binary, damaged>>

WriteRegistration ==
    /\ At("record")
    /\ record' = cmd.record
    /\ UNCHANGED <<definitions, files, manager, manual, binary>>
    /\ \/ /\ Go([cmd EXCEPT !.pc = "inspect", !.original = cmd.record])
          /\ UNCHANGED <<launchLock, damaged>>
       \/ ManagerFails /\ End("failed")

Inspect ==
    /\ At("inspect") /\ cmd.record # NONE
    /\ \/ /\ Go([cmd EXCEPT !.pc = "capture", !.current = PidOf(proc)])
          /\ UNCHANGED <<service, manager, manual, launchLock, binary, damaged>>
       \/ ManagerFails /\ Fails("failed")

InspectUnregistered ==
    /\ At("inspect") /\ cmd.record = NONE
    /\ \/ manual /\ Fails("failed")
       \/ /\ ~manual
          /\ Goto("backup")
          /\ UNCHANGED <<service, manager, manual, launchLock, binary, damaged>>

\* A running service is given a new configuration only by restart.
Permitted(s) == cmd.explicit = NONE \/ s = NONE \/ ~s.ready \/ cmd.op = "restart"

Capturable == {s \in Captures : PidOf(s) = cmd.current /\ Permitted(s)}

LockedCapture == "cmd"

\* Under the launch lock; what the running instance uses is saved first.
CaptureService ==
    /\ At("capture")
    /\ \/ /\ launchLock # "proc"
          /\ \E s \in Capturable :
                LET live == IF s = NONE \/ cmd.op = "status" THEN cmd.record
                            ELSE [cmd.record EXCEPT !.snapshot = s.payload]
                IN  /\ files' = files \cup {live.snapshot}
                    /\ Go([cmd EXCEPT !.pc = "verify", !.captured = s, !.previous = live,
                                      !.record = live])
          /\ launchLock' = LockedCapture
          /\ UNCHANGED <<record, definitions, manager, manual, binary, damaged>>
       \/ launchLock = "proc" /\ Fails("failed")
       \/ Capturable = {} /\ Fails("failed")

AfterVerify ==
    CASE cmd.op = "status" -> "after"
      [] cmd.op \in {"enable", "disable"} -> "write"
      [] cmd.op = "start" -> IF cmd.captured # NONE /\ cmd.captured.ready
                             THEN "write" ELSE "allow"
      [] cmd.op \in {"stop", "restart"} -> "gate"
      [] cmd.op = "install" -> "backup"

\* An explicit configuration is prepared and saved, then the capture is verified.
Verify ==
    /\ At("verify")
    /\ \/ /\ Captures = {cmd.captured}
          /\ LET next == IF cmd.explicit = NONE THEN cmd.record
                         ELSE [cmd.record EXCEPT !.snapshot = cmd.explicit]
             IN  /\ files' = files \cup {next.snapshot}
                 /\ Go([cmd EXCEPT !.pc = AfterVerify, !.record = next,
                                   !.explicit = NONE, !.current = NONE])
          /\ launchLock' = IF cmd.op = "status" THEN NONE ELSE launchLock
          /\ UNCHANGED <<record, definitions, manager, manual, binary, damaged>>
       \/ Captures # {cmd.captured} /\ Fails("failed")

\* write_record of enable, disable and a start of a running service.
WriteRecord ==
    /\ At("write")
    /\ record' = cmd.record
    /\ Goto(IF cmd.op = "start" THEN "after" ELSE "enable")
    /\ launchLock' = IF cmd.op = "start" THEN NONE ELSE launchLock
    /\ UNCHANGED <<definitions, files, manager, manual, binary, damaged>>

\* Manager::enable: an external disable is cleared before the login definition
\* is written, and outlives its removal.
Cleared == disabled /\ cmd.op # "enable"

Enable ==
    /\ At("enable")
    /\ UNCHANGED <<service, wanted, proc, pids, manual, binary>>
    /\ \/ /\ disabled' = Cleared
          /\ login' = (cmd.op = "enable")
          /\ Goto("after")
          /\ launchLock' = NONE
          /\ UNCHANGED damaged
       \/ /\ ManagerFails
          /\ \/ UNCHANGED <<login, disabled>>
             \/ disabled' = Cleared /\ login' \in {login, cmd.op = "enable"}
          /\ End("failed")

\* retire_snapshots: only those this command replaced, never the committed one.
Retired == {cmd.original.snapshot, cmd.previous.snapshot} \ {cmd.record.snapshot}

\* The final inspection; manager and descriptor must agree.
After ==
    /\ At("after")
    /\ UNCHANGED <<record, definitions, manager, manual, binary>>
    /\ \/ /\ \E s \in Captures : PidOf(s) = PidOf(proc)
          /\ files' = IF cmd.op = "status" THEN files ELSE files \ Retired
          /\ End("ok")
       \/ /\ ManagerFails \/ {s \in Captures : PidOf(s) = PidOf(proc)} = {}
          /\ End("failed")
          /\ UNCHANGED files

-----------------------------------------------------------------------------
(* Stopping: stop_registered, Manager::stop and wait_stopped. *)

Gated(r) == [r EXCEPT !.allowed = FALSE]
Allowed(r) == [r EXCEPT !.allowed = TRUE]

\* No instance may start while the command waits for the captured one to end.
Gate ==
    /\ At("gate")
    /\ record' = Gated(IF cmd.op = "install" THEN cmd.record ELSE cmd.original)
    /\ Go([cmd EXCEPT !.pc = "stop",
                      !.progress = IF cmd.op = "install" THEN "Unconfirmed" ELSE @])
    /\ UNCHANGED <<definitions, files, manager, manual, launchLock, binary, damaged>>

\* What the manager does when it is told to stop the service.
ManagerStops ==
    /\ wanted' = FALSE
    /\ proc' = IF proc = NONE \/ proc.phase = "spawned" THEN NONE
               ELSE [proc EXCEPT !.phase = IF @ = "announced" THEN "draining"
                                           ELSE IF @ = "draining" THEN @ ELSE "leaving"]
    /\ UNCHANGED <<login, disabled, pids>>

\* The launch lock is dropped on the way to the recovery of an install.
ToRecovery(next) ==
    /\ Go([next EXCEPT !.pc = "recover", !.recovering = TRUE, !.enabled = FALSE])
    /\ launchLock' = Unlocked
    /\ UNCHANGED damaged

\* Only the registration is put back: the stop may or may not have happened.
PutBack == cmd.original

StopFails ==
    /\ UNCHANGED <<definitions, files, manual, binary>>
    /\ IF cmd.recovering THEN End("recovery_failed") /\ UNCHANGED record
       ELSE IF cmd.op = "install" THEN ToRecovery(cmd) /\ UNCHANGED record
       ELSE End("stop_failed") /\ record' = PutBack

Stop ==
    /\ At("stop")
    /\ \/ /\ ManagerStops
          /\ Go([cmd EXCEPT !.pc = "stopping",
                            !.progress = IF @ = "Unconfirmed" THEN "Acknowledged" ELSE @])
          /\ UNCHANGED <<service, manual, launchLock, binary, damaged>>
       \/ /\ ManagerFails
          /\ ManagerStops \/ UNCHANGED manager
          /\ StopFails

\* What comes after the process has ended.
Stopped ==
    /\ UNCHANGED <<definitions, files, manager, manual, binary>>
    /\ \/ /\ cmd.op = "stop"
          /\ record' = Allowed(cmd.record)
          /\ Goto("after")
          /\ launchLock' = NONE
          /\ UNCHANGED damaged
       \/ /\ cmd.op \in {"restart", "install"} /\ ~cmd.recovering
          /\ Go([cmd EXCEPT !.pc = IF cmd.op = "install" THEN "lease" ELSE "allow",
                            !.progress = IF cmd.op = "install" THEN "Complete" ELSE @])
          /\ UNCHANGED <<record, launchLock, damaged>>
       \/ /\ cmd.op = "install" /\ cmd.recovering
          /\ Goto("restore")
          /\ UNCHANGED <<record, launchLock, damaged>>
       \/ /\ cmd.op \in {"start", "restart"} /\ cmd.recovering
          /\ record' = cmd.previous
          /\ IF cmd.captured # NONE /\ cmd.captured.ready
             THEN /\ Go([cmd EXCEPT !.pc = "start", !.started = NONE])
                  /\ launchLock' = NONE
                  /\ UNCHANGED damaged
             ELSE End("start_failed")

Acknowledged == TRUE
Exited == proc = NONE

\* The acknowledgement is not enough: the process must have released its lock.
WaitStopped ==
    /\ At("stopping")
    /\ \/ Exited /\ Stopped
       \/ (ManagerFails \/ proc # NONE) /\ StopFails /\ UNCHANGED manager

-----------------------------------------------------------------------------
(* Starting: Manager::start and start_ready. *)

WasRunning == cmd.captured # NONE /\ cmd.captured.ready

\* The launch lock is released first: the new process needs it.
Allow ==
    /\ At("allow")
    /\ record' = Allowed(cmd.record)
    /\ UNCHANGED <<definitions, files, manager, manual>>
    /\ IF cmd.op = "install" /\ ~WasRunning /\ cmd.recovering
       THEN /\ End("rolled_back")
            /\ backups' = backups \ {cmd.was}
            /\ UNCHANGED <<version, committed>>
       ELSE /\ Go([cmd EXCEPT !.pc = IF cmd.op = "install" /\ ~WasRunning THEN "check" ELSE "start",
                              !.record = Allowed(cmd.record),
                              !.started = IF cmd.recovering THEN NONE ELSE @])
            /\ launchLock' = Unlocked
            /\ UNCHANGED <<binary, damaged>>

StartFails ==
    /\ UNCHANGED <<service, manual, binary>>
    /\ IF cmd.recovering THEN End("recovery_failed") ELSE ToRecovery(cmd)

\* Clearing an external disable must not turn on the start at login: the login
\* definition goes first.
KeptLogin == Enabled

\* A cold activation by start or restart unloads launchd's job to load it anew.
Reloads == platform = "Launchd" /\ wanted /\ cmd.op # "install" /\ ~cmd.recovering

\* A process that appeared on its own is neither adopted nor stopped here.
StartReady ==
    /\ At("start")
    /\ UNCHANGED <<disabled, wanted, proc, pids>>
    /\ \/ /\ proc = NONE
          /\ login' = KeptLogin
          /\ Go([cmd EXCEPT !.pc = IF Reloads THEN "reload" ELSE "starting", !.enabled = Enabled])
          /\ UNCHANGED <<service, manual, launchLock, binary, damaged>>
       \/ /\ ManagerFails \/ proc # NONE
          /\ login' \in {login, IF proc = NONE THEN KeptLogin ELSE login}
          /\ StartFails

\* bootout ends the process that launchd may have started since.
Reload ==
    /\ At("reload")
    /\ \/ /\ ManagerStops
          /\ Goto("starting")
          /\ UNCHANGED <<service, manual, launchLock, binary, damaged>>
       \/ /\ ManagerFails
          /\ ManagerStops \/ UNCHANGED manager
          /\ ToRecovery(cmd) /\ UNCHANGED <<service, manual, binary>>

Spawn ==
    IF proc # NONE \/ pids = MaxPids THEN UNCHANGED <<proc, pids>>
    ELSE /\ pids' = pids + 1
         /\ proc' = [pid |-> pids + 1, phase |-> "spawned", ready |-> FALSE,
                     payload |-> NONE, version |-> version]

\* launchctl enable, then bootstrap or kickstart; systemctl start.
ManagerStarts == disabled' = FALSE /\ wanted' = TRUE /\ Spawn /\ UNCHANGED login

ManagerStart ==
    /\ At("starting")
    /\ \/ /\ ManagerStarts
          /\ Go([cmd EXCEPT !.pc = "poll", !.enabled = FALSE])
          /\ UNCHANGED <<service, manual, launchLock, binary, damaged>>
       \/ /\ ManagerFails
          /\ \/ ManagerStarts
             \/ disabled' \in {disabled, FALSE} /\ UNCHANGED <<login, wanted, proc, pids>>
          /\ StartFails

Started(next) ==
    /\ UNCHANGED <<service, version, committed>>
    /\ IF cmd.recovering
       THEN /\ End("rolled_back")
            /\ backups' = IF cmd.op = "install" THEN backups \ {cmd.was} ELSE backups
       ELSE /\ Go([next EXCEPT !.pc = IF cmd.op = "install" THEN "check" ELSE "after"])
            /\ UNCHANGED <<launchLock, backups, damaged>>

\* The first process seen is the one waited for.
Changed == cmd.started # NONE /\ proc.pid # cmd.started

ReadyCaptures == {s \in Captures : s # NONE /\ s.ready}

Poll ==
    /\ At("poll")
    /\ UNCHANGED <<manager, manual>>
    /\ \/ /\ proc # NONE
          /\ LET seen == [cmd EXCEPT !.started = proc.pid]
             IN  \/ Changed /\ StartFails
                 \/ /\ ~Changed
                    /\ ReadyCaptures # {}
                    /\ Started(seen)
                 \/ /\ cmd.started = NONE
                    /\ Go(seen)
                    /\ UNCHANGED <<service, launchLock, binary, damaged>>
       \/ /\ ManagerFails \/ ReadyCaptures = {}
          /\ StartFails

-----------------------------------------------------------------------------
(* Recovery: of a start or restart, and of an install. *)

\* The lock is not free, or a helper command may still be running.
RecoveryBlocked ==
    /\ At("recover")
    /\ launchLock = "proc" \/ (cmd.op = "install" /\ ManagerFails)
    /\ Fails("recovery_failed")

RecoverUnregistered ==
    /\ At("recover") /\ launchLock = NONE
    /\ cmd.record = NONE
    /\ Goto("restore")
    /\ launchLock' = "cmd"
    /\ UNCHANGED <<service, manager, manual, binary, damaged>>

StopIsUncertain == cmd.progress = "Unconfirmed" \/ (cmd.progress = "Acknowledged" /\ proc # NONE)

\* A stop that was accepted cannot be revoked: nothing is started or published.
RecoveryUncertain ==
    /\ At("recover") /\ launchLock = NONE
    /\ cmd.record # NONE
    /\ StopIsUncertain \/ (cmd.progress = "Acknowledged" /\ ManagerFails)
    /\ record' = cmd.original
    /\ End("recovery_failed")
    /\ UNCHANGED <<definitions, files, manager, manual, binary>>

\* verify_recovery_owner
OwnerIsKnown ==
    IF proc = NONE THEN TRUE
    ELSE \/ proc.pid = cmd.started
         \/ cmd.op = "install" /\ cmd.captured # NONE /\ Captures = {cmd.captured}

Recovers == At("recover") /\ launchLock = NONE /\ cmd.record # NONE /\ ~StopIsUncertain

\* The registration stays gated.
RecoveryDisowned ==
    /\ Recovers
    /\ ~OwnerIsKnown \/ Captures = {} \/ ManagerFails
    /\ record' = Gated(cmd.record)
    /\ End("recovery_failed")
    /\ UNCHANGED <<definitions, files, manager, manual, binary>>

\* The original instance is still alive: it is left alone.
Untouched == cmd.op = "install" /\ ~cmd.attempted /\ proc # NONE

RecoverUntouched ==
    /\ Recovers /\ OwnerIsKnown /\ Captures # {} /\ Untouched
    /\ record' = cmd.original
    /\ backups' = backups \ {cmd.was}
    /\ End("rolled_back")
    /\ UNCHANGED <<definitions, files, manager, manual, version, committed>>

RestoreFirst == IF cmd.op = "install" THEN "restore" ELSE "stop"
FirstOfRecovery == "stop"

RecoverByStopping ==
    /\ Recovers /\ OwnerIsKnown /\ Captures # {} /\ ~Untouched
    /\ record' = Gated(cmd.record)
    /\ Goto(FirstOfRecovery)
    /\ launchLock' = "cmd"
    /\ UNCHANGED <<definitions, files, manager, manual, binary, damaged>>

-----------------------------------------------------------------------------
(* The installer.  Its candidate has been staged and has answered the checks. *)

Interrupted == "install" \in Faults

\* The binary and, from the capture on, what it was running are kept.
Backup == backups \cup ({version} \ {NONE})

BackUp ==
    /\ At("backup")
    /\ backups' = Backup
    /\ Go([cmd EXCEPT !.pc = IF cmd.record = NONE THEN "lease" ELSE "recheck", !.was = version])
    /\ UNCHANGED <<service, manager, manual, launchLock, version, committed, damaged>>

\* The candidate judges the captured state; the instance must not have changed.
Recheck ==
    /\ At("recheck")
    /\ UNCHANGED <<service, manager, manual, binary>>
    /\ \/ /\ Captures = {cmd.captured} /\ PidOf(proc) = PidOf(cmd.captured)
          /\ Goto("gate")
          /\ UNCHANGED <<launchLock, damaged>>
       \/ /\ \/ Interrupted \/ ManagerFails
             \/ Captures # {cmd.captured} \/ PidOf(proc) # PidOf(cmd.captured)
          /\ ToRecovery(cmd)

\* Every instance holds the shared lease from before its descriptor to its end.
HoldsLease == manual \/ (proc # NONE /\ proc.phase \in {"announced", "draining", "leaving"})

TakeLease ==
    /\ At("lease")
    /\ UNCHANGED <<service, manager, manual, binary>>
    /\ \/ ~HoldsLease /\ Goto("publish") /\ UNCHANGED <<launchLock, damaged>>
       \/ (HoldsLease \/ Interrupted) /\ ToRecovery(cmd)

\* The publisher fails before or after it has replaced the binary.
Publish ==
    /\ At("publish")
    /\ UNCHANGED <<service, manager, manual, backups, committed>>
    /\ \/ /\ version' = NewVersion
          /\ Go([cmd EXCEPT !.pc = IF cmd.record = NONE THEN "check" ELSE "allow",
                            !.attempted = TRUE])
          /\ launchLock' = NONE
          /\ UNCHANGED damaged
       \/ /\ Interrupted
          /\ version' \in {version, NewVersion}
          /\ ToRecovery([cmd EXCEPT !.attempted = TRUE])

\* check_install_interruption, and the end of the transaction.
Commit ==
    /\ At("check")
    /\ \/ Interrupted /\ ToRecovery(cmd) /\ UNCHANGED <<service, manager, manual, binary>>
       \/ /\ End("installed")
          /\ committed' = version
          /\ backups' = backups \ {cmd.was}
          /\ files' = IF cmd.record = NONE THEN files
                      ELSE files \ ({cmd.original.snapshot} \ {cmd.record.snapshot})
          /\ UNCHANGED <<record, definitions, manager, manual, version>>

Restored(v) ==
    /\ version' = v
    /\ IF cmd.record = NONE
       THEN End("rolled_back") /\ backups' = backups \ {cmd.was} /\ UNCHANGED committed
       ELSE Goto("allow") /\ UNCHANGED <<launchLock, backups, committed, damaged>>

Assumed == TRUE
Intact == version = cmd.was

\* A first install that left a binary behind is not undone.
Restore ==
    /\ At("restore")
    /\ UNCHANGED <<service, manager, manual>>
    /\ \/ Intact /\ Restored(version)
       \/ ~Intact /\ cmd.was # NONE /\ ~HoldsLease /\ Restored(cmd.was)
       \/ /\ ~Intact
          /\ cmd.was = NONE \/ HoldsLease \/ Interrupted
          /\ version' \in IF cmd.was = NONE \/ HoldsLease THEN {version} ELSE {version, cmd.was}
          /\ End("recovery_failed")
          /\ UNCHANGED <<backups, committed>>

-----------------------------------------------------------------------------
(* The service process (run_service, run_owned) and the manager. *)

Running(phase) == proc # NONE /\ proc.phase = phase
ProcessSteps == UNCHANGED <<service, login, disabled, wanted, pids, manual, binary, cmd, outcome, damaged>>

ProcessLocks ==
    /\ Running("spawned") /\ launchLock = NONE
    /\ launchLock' = "proc"
    /\ proc' = [proc EXCEPT !.phase = "loading"]
    /\ ProcessSteps

\* The registration, not the manager, authorizes the invocation.
Authorized == record # NONE /\ record.allowed /\ ~manual

ProcessLoads ==
    /\ Running("loading")
    /\ proc' = IF Authorized
               THEN [proc EXCEPT !.phase = "owner", !.payload = record.snapshot]
               ELSE NONE
    /\ launchLock' = NONE
    /\ ProcessSteps

\* It waits for the shared lease while the installer publishes.
ProcessAnnounces ==
    /\ Running("owner") /\ ~At("publish")
    /\ proc' = [proc EXCEPT !.phase = "announced"]
    /\ ProcessSteps /\ UNCHANGED launchLock

ProcessIsReady ==
    /\ Running("announced") /\ ~proc.ready
    /\ proc' = [proc EXCEPT !.ready = TRUE]
    /\ ProcessSteps /\ UNCHANGED launchLock

\* A selection through the control API changes what the running instance uses.
Reselect ==
    /\ Running("announced") /\ proc.ready
    /\ \E p \in Payloads \ {proc.payload} : proc' = [proc EXCEPT !.payload = p]
    /\ ProcessSteps /\ UNCHANGED launchLock

ProcessLeaves ==
    /\ Running("draining")
    /\ proc' = [proc EXCEPT !.phase = "leaving"]
    /\ ProcessSteps /\ UNCHANGED launchLock

ProcessEnds ==
    /\ proc # NONE
    /\ proc.phase = "leaving" \/ "process" \in Faults
    /\ proc' = NONE
    /\ launchLock' = IF proc.phase = "loading" THEN NONE ELSE launchLock
    /\ ProcessSteps

\* The unit's restart policy.
ManagerRestarts ==
    /\ wanted /\ proc = NONE /\ pids < MaxPids
    /\ Spawn
    /\ UNCHANGED <<service, login, disabled, wanted, manual, launchLock, binary, cmd, outcome, damaged>>

\* manual_guard: an instance by hand only while nothing is registered.
ManualIsAllowed == record = NONE /\ ~definitions

ManualStart ==
    /\ cmd = NONE /\ ~manual /\ version # NONE /\ launchLock = NONE
    /\ ManualIsAllowed
    /\ manual' = TRUE
    /\ UNCHANGED <<service, manager, launchLock, binary, cmd, outcome, damaged>>

ManualStop ==
    /\ cmd = NONE /\ manual
    /\ manual' = FALSE
    /\ UNCHANGED <<service, manager, launchLock, binary, cmd, outcome, damaged>>

\* The publisher is a process of its own and may have done its work.
Kill ==
    /\ "kill" \in Faults /\ cmd # NONE
    /\ cmd' = NONE /\ outcome' = NONE /\ damaged' = TRUE
    /\ launchLock' = Unlocked
    /\ version' \in IF At("publish") THEN {version, NewVersion} ELSE {version}
    /\ UNCHANGED <<service, manager, manual, backups, committed>>

\* The next login starts what is enabled.
Reboot ==
    /\ "kill" \in Faults /\ cmd = NONE
    /\ proc # NONE \/ manual
    /\ proc' = NONE /\ manual' = FALSE /\ launchLock' = NONE
    /\ wanted' = Enabled
    /\ UNCHANGED <<service, login, disabled, pids, binary, cmd, outcome, damaged>>

\* The user's own launchctl disable; between the other steps of a command it is
\* the same as before or after all of them.
ExternalDisable ==
    /\ platform = "Launchd" /\ ~disabled
    /\ login  \* without it, nothing is started at login
    /\ cmd = NONE \/ At("start") \/ At("starting")
    /\ disabled' = TRUE
    /\ UNCHANGED <<service, login, wanted, proc, pids, manual, launchLock, binary, cmd, outcome, damaged>>

-----------------------------------------------------------------------------
CommandStep ==
    \/ \E op \in Operations, e \in Payloads \cup {NONE} : Begin(op, e)
    \/ Register \/ WriteRegistration \/ Inspect \/ InspectUnregistered
    \/ CaptureService \/ Verify \/ WriteRecord \/ Enable \/ After
    \/ Gate \/ Stop \/ WaitStopped
    \/ Allow \/ StartReady \/ Reload \/ ManagerStart \/ Poll
    \/ RecoveryBlocked \/ RecoverUnregistered \/ RecoveryUncertain \/ RecoveryDisowned
    \/ RecoverUntouched \/ RecoverByStopping
    \/ BackUp \/ Recheck \/ TakeLease \/ Publish \/ Commit \/ Restore

Environment ==
    \/ ProcessLocks \/ ProcessLoads \/ ProcessAnnounces \/ ProcessIsReady
    \/ Reselect \/ ProcessLeaves \/ ProcessEnds \/ ManagerRestarts
    \/ ManualStart \/ ManualStop \/ Kill \/ Reboot \/ ExternalDisable

Next == UNCHANGED platform /\ (CommandStep \/ Environment)

Spec == Init /\ [][Next]_vars

-----------------------------------------------------------------------------
(* What the service and the installer promise. *)

\* An instance that announces itself runs the binary that is installed: nothing is
\* published under a running service (binary_lease, install), and a rollback brings
\* the service up on the restored binary.
RunsWhatIsInstalled ==
    proc # NONE /\ proc.phase = "announced" => proc.version = version

\* While the installed binary is not the last one that was committed, that one is
\* still kept: a kill at any point of install, and every failed recovery, leaves the
\* old binary to go back to.
OldBinaryIsKept ==
    version # committed /\ committed # NONE => committed \in backups

\* The registration never names a snapshot that has been retired (retire_snapshots),
\* neither on disk nor in the hands of a command that will write it.
SnapshotIsKept ==
    /\ record # NONE => record.snapshot \in files
    /\ cmd # NONE /\ cmd.pc # "register" =>
           \A r \in {cmd.original, cmd.previous} : r # NONE => r.snapshot \in files

\* A command that ends without being killed and without reporting a failed recovery
\* leaves the service able to start: the gate it closed is open again.
GateIsReopened ==
    cmd = NONE /\ record # NONE /\ ~damaged => record.allowed

\* An instance started by hand and a registered service never share the runtime.
OneKeeper == ~(manual /\ record # NONE)

\* The stop of a command takes down the process that was captured, or the one this
\* command started, and no other (stop_registered, verify_recovery_owner).  One step
\* is less careful: start_ready finds no process, and on launchd its reload then ends
\* whatever was started since, which is never the service the command had captured.
StopsOnlyItsOwn ==
    [][Running("announced") /\ Running("draining")' =>
          \/ At("stop") /\ proc.pid \in {PidOf(cmd.captured), cmd.started}
          \/ At("reload") /\ platform = "Launchd" /\ proc.pid # PidOf(cmd.captured)]_proc

\* Only the enable command turns on the start at login: a start clears an external
\* launchctl disable, but not to that effect, unless its inspection found the start
\* at login on and the disable came after it (start_ready).
LoginIsKept ==
    [][~Enabled /\ Enabled' =>
          \/ At("enable") /\ cmd.op = "enable"
          \/ At("starting") /\ cmd.enabled]_<<login, disabled>>

\* A stop that reports success has ended the process, and the manager will not bring
\* it back before the next start.
StoppedIsStopped ==
    [][At("after") /\ cmd.op = "stop" /\ outcome' = "ok" => proc = NONE /\ ~wanted]_cmd

\* SERVICE_INSTALL_ROLLED_BACK and SERVICE_START_FAILED_ROLLED_BACK are exact: the
\* binary is the one before the command, the registration holds what was captured
\* when the command began, and a service that was running is running again, wanted
\* by the manager or never touched.
RolledBack ==
    /\ version' = (IF cmd.op = "install" THEN cmd.was ELSE version)
    /\ record' \in {cmd.original, cmd.previous} \/ record' = Allowed(cmd.previous)
    /\ WasRunning => proc # NONE /\ proc.ready /\ (wanted \/ proc.pid = cmd.captured.pid)

RollbackIsExact == [][cmd # NONE /\ cmd' = NONE /\ outcome' = "rolled_back" => RolledBack]_cmd

\* Whatever a command is interrupted by, the binary that runs, the one to go back
\* to, the registered snapshot and the start of the service are there.
ServiceIsRecoverable ==
    /\ TypeOK
    /\ RunsWhatIsInstalled /\ OldBinaryIsKept /\ SnapshotIsKept
    /\ GateIsReopened /\ OneKeeper

\* The commands touch and report exactly what is theirs.
CommandsAreExact == StopsOnlyItsOwn /\ StoppedIsStopped /\ RollbackIsExact /\ LoginIsKept
=============================================================================
