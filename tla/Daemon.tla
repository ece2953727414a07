------------------------------ MODULE Daemon ------------------------------
(***************************************************************************)
(* The life of the proxy daemon (src/src/daemon.rs): the start, foreground *)
(* start, stop, restart and status commands, each a process of its own,    *)
(* and the daemon instances they launch.  They share one runtime directory *)
(* and nothing else: advisory locks, the files zc.pid and zc.daemon.json,  *)
(* the prepared snapshots, and one stop request file per instance.         *)
(*                                                                         *)
(* An instance is identified by its nonce, which also stands for its PID.  *)
(* The locks zc.daemon.lock and zc.prepared.key.lock are held only inside  *)
(* single actions of this model and have no variable.                      *)
(***************************************************************************)
EXTENDS Integers

CONSTANTS
    Callers,       \* concurrent zc command processes
    Payloads,      \* prepared configurations a command may ask for
    MaxInstances,  \* bound: instances ever spawned
    Operations,    \* commands the callers may issue
    Faults,        \* processes that may be killed: "caller", "instance"
    NONE

ASSUME CountAssumption == MaxInstances \in Nat
ASSUME NoneAssumption ==
    /\ NONE \notin Callers \cup Payloads \cup Nat
    /\ NONE \notin [nonce : Nat, ready : BOOLEAN, snapshot : {"launch", "current"}]
ASSUME CallersAreNoInstances == Callers \cap Nat = {}
ASSUME OperationsAssumption ==
    Operations \subseteq {"start", "foreground", "stop", "restart", "status"}

VARIABLES
    instanceLock,  \* zc.lock: processes sharing the locked open file
    launchLock,    \* zc.launch.lock: a caller or NONE
    stopLock,      \* zc.stop.lock: a caller or NONE
    guardian,      \* zc.lifecycle.lock: an instance or NONE
    pidFile,       \* zc.pid
    descriptor,    \* zc.daemon.json
    snapshots,     \* zc.prepared.* files, by instance and kind
    requests,      \* zc.stop.<nonce> files
    orphans,       \* requests whose writer was killed before it could revoke
    phase,         \* progress of each instance
    payload,       \* configuration each instance was launched with
    foreground,    \* instances run by a foreground command
    call           \* progress of each caller

files == <<pidFile, descriptor, snapshots>>
instances == <<phase, payload, foreground>>
vars == <<instanceLock, launchLock, stopLock, guardian, files, requests,
          orphans, instances, call>>

Instances == 1 .. MaxInstances

Descriptor ==
    [nonce : Instances, ready : BOOLEAN, snapshot : {"launch", "current"}]

Phases == {"unborn", "spawned", "guarded", "named", "announced", "frozen",
           "serving", "draining", "cleaning", "cleaned", "exiting", "dead"}

\* Phases in which a failure of run_instance_inner is a failed startup.
Starting == {"spawned", "guarded", "named", "announced", "frozen"}

\* Phases in which the process has given up its locks.
Ended == {"exiting", "dead"}

alive(i) == phase[i] \notin {"unborn", "dead"}

Labels == {"idle", "launch", "observe", "probe", "confirm", "acquire", "running",
           "take", "clean", "spawn", "await", "captured", "recaptured",
           "replace", "found", "stopLock", "request", "poll", "settle",
           "status", "done"}

Idle ==
    [op |-> NONE, pc |-> "idle", ret |-> "idle", want |-> NONE, seen |-> NONE,
     captured |-> NONE, stage |-> "target", child |-> NONE, result |-> NONE]

Call ==
    [op : {"start", "foreground", "stop", "restart", "status", NONE},
     pc : Labels, ret : Labels,
     want : Payloads \cup {NONE},
     seen : Descriptor \cup {NONE},       \* what observe read, then returned
     captured : Descriptor \cup {NONE},   \* the instance the call acts on
     stage : {"target", "restore"},       \* which snapshot a restart launches
     child : Instances \cup {NONE},
     result : {"started", "running", "stopped", "restored", "reported",
               "deadline", "failed", NONE}]

TypeOK ==
    /\ instanceLock \subseteq Callers \cup Instances
    /\ launchLock \in Callers \cup {NONE}
    /\ stopLock \in Callers \cup {NONE}
    /\ guardian \in Instances \cup {NONE}
    /\ pidFile \in Instances \cup {NONE}
    /\ descriptor \in Descriptor \cup {NONE}
    /\ snapshots \subseteq Instances \X {"launch", "current"}
    /\ requests \subseteq Instances
    /\ orphans \subseteq Instances
    /\ phase \in [Instances -> Phases]
    /\ payload \in [Instances -> Payloads \cup {NONE}]
    /\ foreground \subseteq Instances
    /\ call \in [Callers -> Call]

Init ==
    /\ instanceLock = {}
    /\ launchLock = NONE
    /\ stopLock = NONE
    /\ guardian = NONE
    /\ pidFile = NONE
    /\ descriptor = NONE
    /\ snapshots = {}
    /\ requests = {}
    /\ orphans = {}
    /\ phase = [i \in Instances |-> "unborn"]
    /\ payload = [i \in Instances |-> NONE]
    /\ foreground = {}
    /\ call = [c \in Callers |-> Idle]

-----------------------------------------------------------------------------
(* Control of a caller. *)

CallOnly ==
    UNCHANGED <<instanceLock, launchLock, stopLock, guardian, files, requests,
                orphans, instances>>

At(c, label) == call[c].pc = label

Goto(c, label) == call' = [call EXCEPT ![c].pc = label, ![c].seen = NONE]

\* Call observe; its answer is in call[c].seen when control reaches label.
Observe(c, label) ==
    call' = [call EXCEPT ![c].pc = "observe", ![c].ret = label, ![c].seen = NONE]

\* The command is over; what it acted on stays readable until it returns.
Over(c, result) ==
    call' = [call EXCEPT ![c].pc = "done", ![c].ret = "idle", ![c].seen = NONE,
                         ![c].want = NONE, ![c].result = result]

\* The stop request a caller is armed to revoke (StopRequest).
NeverArmed(c) == {}
Armed(c) == IF At(c, "poll") THEN {call[c].captured.nonce} ELSE {}

\* Descriptor d was published by instance i.
OfInstance(d, i) == IF d = NONE THEN FALSE ELSE d.nonce = i

Released(holder, p) == IF holder = p THEN NONE ELSE holder

\* Return from the command: every guard it holds is dropped.
Finish(c, result) ==
    /\ Over(c, result)
    /\ instanceLock' = instanceLock \ {c}
    /\ launchLock' = Released(launchLock, c)
    /\ stopLock' = Released(stopLock, c)
    /\ requests' = requests \ Armed(c)
    /\ UNCHANGED <<guardian, files, orphans, instances>>

\* A restart whose target failed launches the snapshot it captured instead.
Restores(c) ==
    call[c].op = "restart" /\ call[c].stage = "target" /\ call[c].captured # NONE

\* PendingLaunch: a child that is not known to be ready is killed and reaped.
KillChild(c) ==
    LET k == call[c].child IN
    /\ phase' = [i \in Instances |-> IF i = k THEN "dead" ELSE phase[i]]
    /\ instanceLock' = instanceLock \ {c, k}
    /\ guardian' = Released(guardian, k)

\* An error inside acquire_start or spawn_owned.
StartFailed(c) ==
    LET k == call[c].child IN
    /\ KillChild(c)
    /\ snapshots' = snapshots \ {<<k, "launch">>}
    /\ requests' = requests \ {k}
    /\ IF Restores(c)
       THEN /\ call' = [call EXCEPT ![c].pc = "observe", ![c].ret = "acquire",
                                    ![c].seen = NONE, ![c].want = NONE,
                                    ![c].stage = "restore", ![c].child = NONE]
            /\ UNCHANGED launchLock
       ELSE /\ Over(c, "failed")
            /\ launchLock' = Released(launchLock, c)
    /\ UNCHANGED <<stopLock, pidFile, descriptor, orphans, payload, foreground>>

Observing == {"observe", "probe", "confirm"}

Launching == {"acquire", "running", "take", "clean", "spawn", "await"}

\* The label an error inside observe belongs to is the one it would return to.
Fail(c) ==
    IF \/ call[c].pc \in Launching
       \/ call[c].pc \in Observing /\ call[c].ret \in Launching
    THEN StartFailed(c)
    ELSE Finish(c, "failed")
-----------------------------------------------------------------------------
(* lock_held and observe. *)

\* Labels at which a caller may hold zc.lock for an instant because it probes it.
Probing == {"probe", "confirm", "acquire", "captured", "replace", "found",
            "poll", "settle", "status"}

\* What lock_held may answer: the truth, or "held" when another probe collides.
lock_held(c) ==
    {instanceLock # {}} \cup {TRUE : o \in {o \in Callers \ {c} : call[o].pc \in Probing}}

NotAlive(p) == IF p = NONE THEN TRUE ELSE ~alive(p)

\* Neither zc.pid nor descriptor d names a live process.
NothingAlive(d) == NotAlive(pidFile) /\ NotAlive(IF d = NONE THEN NONE ELSE d.nonce)

ReadDescriptor(c) ==
    /\ At(c, "observe")
    /\ call' = [call EXCEPT ![c].seen = descriptor, ![c].pc = "probe"]
    /\ CallOnly

\* observe answers d.
Observed(c, d) ==
    /\ call' = [call EXCEPT ![c].seen = d, ![c].pc = call[c].ret, ![c].ret = "idle"]
    /\ CallOnly

ProbeOwner(c) ==
    LET d == call[c].seen IN
    /\ At(c, "probe")
    /\ \E held \in lock_held(c) :
        \/ /\ d # NONE /\ held /\ pidFile = d.nonce /\ alive(d.nonce)
           /\ call' = [call EXCEPT ![c].pc = "confirm"]
           /\ CallOnly
        \/ /\ d # NONE /\ held /\ ~(pidFile = d.nonce /\ alive(d.nonce))
           /\ Fail(c)
        \/ /\ d = NONE /\ held
           /\ Observed(c, NONE)
        \/ /\ ~held /\ NothingAlive(d)
           /\ Observed(c, NONE)
        \/ /\ ~held /\ ~NothingAlive(d)
           /\ Fail(c)

\* The second look: the same PID still holds the lock, and the descriptor is
\* unchanged or was republished by the same instance (then observe starts over).
Confirm(c) ==
    LET d == call[c].seen IN
    /\ At(c, "confirm")
    /\ \E held \in lock_held(c) :
        \/ /\ held /\ pidFile = d.nonce /\ descriptor = d
           /\ Observed(c, d)
        \/ /\ held /\ pidFile = d.nonce /\ descriptor # d
           /\ OfInstance(descriptor, d.nonce)
           /\ Goto(c, "observe")
           /\ CallOnly
        \/ /\ \/ ~held
              \/ pidFile # d.nonce
              \/ ~OfInstance(descriptor, d.nonce)
           /\ Fail(c)

\* prepared_for: the snapshot the descriptor names can still be read.
PreparedFor(d) == <<d.nonce, d.snapshot>> \in snapshots

\* Artifacts of dead processes, removed under zc.lock and zc.daemon.lock.
RemoveStalePid ==
    /\ pidFile' = NONE
    /\ UNCHANGED <<descriptor, snapshots>>
RemoveStale ==
    /\ snapshots' = IF descriptor = NONE THEN snapshots
                    ELSE snapshots \ {<<descriptor.nonce, descriptor.snapshot>>}
    /\ descriptor' = NONE
    /\ pidFile' = NONE

CleanupUnlocked(c, result) ==
    /\ RemoveStale
    /\ Over(c, result)
    /\ UNCHANGED <<instanceLock, launchLock, stopLock, guardian, requests, orphans,
                   instances>>

\* cleanup_stale ends the command: a held lock leaves everything alone.
CleanupStale(c, result) ==
    \E held \in lock_held(c) :
        \/ /\ held
           /\ Finish(c, result)
        \/ /\ ~held /\ NothingAlive(descriptor)
           /\ RemoveStale
           /\ Over(c, result)
           /\ UNCHANGED <<instanceLock, launchLock, stopLock, guardian, requests,
                          orphans, instances>>
        \/ /\ ~held /\ ~NothingAlive(descriptor)
           /\ Finish(c, "failed")

-----------------------------------------------------------------------------
(* start and run_foreground; a restart enters at "acquire". *)

Begin(c, op, p) ==
    /\ At(c, "idle")
    /\ op \in Operations
    /\ call' = [call EXCEPT ![c] = [Idle EXCEPT !.op = op, !.want = p,
            !.pc = IF op \in {"start", "foreground"} THEN "launch" ELSE "observe",
            !.ret = CASE op = "restart" -> "captured"
                      [] op = "stop" -> "found"
                      [] op = "status" -> "status"
                      [] OTHER -> "idle"]]
    /\ CallOnly

LaunchLockFree == launchLock = NONE

TakeLaunchLock(c) ==
    /\ At(c, "launch")
    /\ LaunchLockFree
    /\ launchLock' = c
    /\ Observe(c, IF call[c].op = "restart" THEN "replace" ELSE "acquire")
    /\ UNCHANGED <<instanceLock, stopLock, guardian, files, requests, orphans, instances>>

LaunchLockTimeout(c) ==
    /\ At(c, "launch")
    /\ launchLock # NONE
    /\ Finish(c, "failed")

Ready(d) == IF d = NONE THEN FALSE ELSE d.ready

\* acquire_start's loop: a ready instance ends it, a free lock leaves it.
AcquireStart(c) ==
    LET d == call[c].seen IN
    /\ At(c, "acquire")
    /\ \/ /\ Ready(d) /\ PreparedFor(d)
          /\ call[c].op # "restart"
          /\ call' = [call EXCEPT ![c].captured = d, ![c].pc = "observe",
                                  ![c].ret = "running", ![c].seen = NONE]
          /\ CallOnly
       \/ /\ Ready(d) /\ (~PreparedFor(d) \/ call[c].op = "restart")
          /\ StartFailed(c)
       \/ /\ ~Ready(d)
          /\ \E held \in lock_held(c) :
                IF held THEN Observe(c, "acquire") ELSE Goto(c, "take")
          /\ CallOnly

AcquireWithoutDeadline(c) ==
    /\ At(c, "acquire")
    /\ FALSE
    /\ StartFailed(c)
AcquireDeadline(c) ==
    /\ At(c, "acquire")
    /\ ~Ready(call[c].seen)
    /\ TRUE \in lock_held(c)
    /\ StartFailed(c)

AlreadyRunning(c) ==
    /\ At(c, "running")
    /\ IF call[c].seen = call[c].captured /\ call[c].op = "start"
       THEN Finish(c, "running")
       ELSE StartFailed(c)

\* zc.lock is taken and a live PID refused before anything is removed.
TakeInstanceLock(c) ==
    /\ At(c, "take")
    /\ \/ /\ instanceLock = {} /\ NotAlive(pidFile)
          /\ instanceLock' = {c}
          /\ Goto(c, "clean")
          /\ UNCHANGED <<launchLock, stopLock, guardian, files, requests, orphans,
                         instances>>
       \/ /\ instanceLock # {} \/ ~NotAlive(pidFile)
          /\ StartFailed(c)

Clean(c) ==
    /\ At(c, "clean")
    /\ RemoveStale
    /\ Goto(c, "spawn")
    /\ UNCHANGED <<instanceLock, launchLock, stopLock, guardian, requests, orphans,
                   instances>>

\* service::prepare, the snapshot or the spawn fails.
SpawnFails(c) ==
    /\ At(c, "spawn")
    /\ StartFailed(c)
\* zc.lock as the child's standard input: the locked file is shared, not reopened.
LostInSpawn(i) == {}
Inherited(i) == {i}

\* spawn_owned and run_foreground: the instance inherits the locked file; a
\* foreground command becomes the instance and gives up the launch lock.
Spawn(c) ==
    LET fg == call[c].op = "foreground" IN
    /\ At(c, "spawn")
    /\ \E i \in Instances :
        /\ phase[i] = "unborn"
        /\ \A j \in 1 .. i - 1 : phase[j] # "unborn"
        /\ phase' = [phase EXCEPT ![i] = "spawned"]
        /\ payload' = [payload EXCEPT ![i] =
                         IF call[c].stage = "restore" THEN payload[call[c].captured.nonce]
                         ELSE call[c].want]
        /\ foreground' = IF fg THEN foreground \cup {i} ELSE foreground
        /\ snapshots' = snapshots \cup {<<i, "launch">>}
        /\ instanceLock' = Inherited(i)
        /\ launchLock' = IF fg THEN NONE ELSE launchLock
        /\ call' = [call EXCEPT ![c].child = i, ![c].want = NONE,
                                ![c].pc = IF fg THEN "done" ELSE "observe",
                                ![c].ret = IF fg THEN "idle" ELSE "await",
                                ![c].result = IF fg THEN "started" ELSE NONE]
    /\ UNCHANGED <<stopLock, guardian, pidFile, descriptor, requests, orphans>>

\* spawn_owned's loop: the child is ready, has exited, or another instance shows.
AwaitReady(c) ==
    LET d == call[c].seen
        k == call[c].child IN
    /\ At(c, "await")
    /\ \/ /\ OfInstance(d, k) /\ d.ready
          /\ Finish(c, IF call[c].stage = "restore" THEN "restored" ELSE "started")
       \/ /\ \/ d # NONE /\ d.nonce # k
             \/ ~Ready(d) /\ phase[k] = "dead"
          /\ StartFailed(c)
       \/ /\ ~Ready(d) /\ (d = NONE \/ OfInstance(d, k))
          /\ phase[k] # "dead"
          /\ Observe(c, "await")
          /\ CallOnly

ReadinessDeadline(c) ==
    /\ At(c, "await")
    /\ ~Ready(call[c].seen)
    /\ StartFailed(c)

-----------------------------------------------------------------------------
(* stop, and the stop_instance that restart shares with it. *)

StopFound(c) ==
    LET d == call[c].seen IN
    /\ At(c, "found")
    /\ \/ /\ d # NONE
          /\ call' = [call EXCEPT ![c].captured = d, ![c].pc = "stopLock", ![c].seen = NONE]
          /\ CallOnly
       \/ /\ d = NONE
          /\ \/ TRUE \in lock_held(c) /\ Finish(c, "failed")
             \/ FALSE \in lock_held(c) /\ CleanupStale(c, "reported")

StopLockIgnored == TRUE
StopLockFree == stopLock = NONE

TakeStopLock(c) ==
    /\ At(c, "stopLock")
    /\ StopLockFree
    /\ stopLock' = c
    /\ Observe(c, "request")
    /\ UNCHANGED <<instanceLock, launchLock, guardian, files, requests, orphans, instances>>

StopLockTimeout(c) ==
    /\ At(c, "stopLock")
    /\ stopLock # NONE
    /\ Finish(c, "failed")

\* The request is written only when the instance is still the captured one.
WriteRequest(c) ==
    LET d == call[c].seen
        i == call[c].captured.nonce IN
    /\ At(c, "request")
    /\ \/ /\ OfInstance(d, i)
          /\ requests' = requests \cup {i}
          /\ Goto(c, "poll")
          /\ UNCHANGED <<instanceLock, launchLock, stopLock, guardian, files, orphans,
                         instances>>
       \/ /\ ~OfInstance(d, i)
          /\ Finish(c, "failed")

\* The instance ended: a stop returns, a restart goes on to launch its target.
StopConfirmed(c) ==
    IF call[c].op = "stop"
    THEN Finish(c, "stopped")
    ELSE /\ Observe(c, "acquire")
         /\ stopLock' = NONE
         /\ requests' = requests \ Armed(c)
         /\ UNCHANGED <<instanceLock, launchLock, guardian, files, orphans, instances>>

\* stopped: nobody holds zc.lock.
stopped(c) == {~held : held \in lock_held(c)}

\* Another instance in the descriptor is an error.
Poll(c) ==
    /\ call[c].pc \in {"poll", "settle"}
    /\ \/ TRUE \in stopped(c) /\ StopConfirmed(c)
       \/ /\ FALSE \in stopped(c)
          /\ descriptor # NONE /\ descriptor.nonce # call[c].captured.nonce
          /\ Finish(c, "failed")

\* The deadline: the request is revoked; if the daemon had already taken it,
\* the caller waits for it to end a little longer.
StopDeadline(c) ==
    LET i == call[c].captured.nonce IN
    /\ At(c, "poll")
    /\ IF i \in requests
       THEN Finish(c, "deadline")
       ELSE Goto(c, "settle") /\ CallOnly

SettleDeadline(c) ==
    /\ At(c, "settle")
    /\ Finish(c, "deadline")

-----------------------------------------------------------------------------
(* capture_restart, restart_checked and status. *)

CaptureRestart(c) ==
    LET d == call[c].seen IN
    /\ At(c, "captured")
    /\ \/ /\ IF d = NONE THEN FALSE \in lock_held(c) ELSE d.ready /\ PreparedFor(d)
          /\ call' = [call EXCEPT ![c].captured = d, ![c].pc = "observe",
                                  ![c].ret = "recaptured", ![c].seen = NONE]
          /\ CallOnly
       \/ /\ IF d = NONE THEN TRUE \in lock_held(c) ELSE ~(d.ready /\ PreparedFor(d))
          /\ Finish(c, "failed")

\* The target is prepared between the capture and the launch lock.
Recapture(c) ==
    /\ At(c, "recaptured")
    /\ \/ /\ call[c].seen = call[c].captured
          /\ Goto(c, "launch")
          /\ CallOnly
       \/ Finish(c, "failed")

\* Under the launch lock the runtime must still be the captured one.
RestartChecked(c) ==
    LET d == call[c].seen
        same == d = call[c].captured IN
    /\ At(c, "replace")
    /\ \/ /\ same /\ d # NONE /\ d.nonce \notin foreground
          /\ Goto(c, "stopLock")
          /\ CallOnly
       \/ /\ same /\ d = NONE /\ FALSE \in lock_held(c)
          /\ Observe(c, "acquire")
          /\ CallOnly
       \/ /\ \/ ~same
             \/ d # NONE /\ d.nonce \in foreground
             \/ d = NONE /\ TRUE \in lock_held(c)
          /\ Finish(c, "failed")

Status(c) ==
    LET d == call[c].seen IN
    /\ At(c, "status")
    /\ \/ Ready(d) /\ Finish(c, IF PreparedFor(d) THEN "reported" ELSE "failed")
       \/ ~Ready(d) /\ CleanupStale(c, "reported")

Return(c) ==
    /\ At(c, "done")
    /\ call' = [call EXCEPT ![c] = Idle]
    /\ CallOnly

\* The command is killed: the kernel drops its locks; its files and its child stay.
KillCaller(c) ==
    /\ "caller" \in Faults
    /\ call[c].pc \notin {"idle", "done"}
    /\ call' = [call EXCEPT ![c] = Idle]
    /\ instanceLock' = instanceLock \ {c}
    /\ launchLock' = Released(launchLock, c)
    /\ stopLock' = Released(stopLock, c)
    /\ orphans' = orphans \cup (Armed(c) \cap requests)
    /\ UNCHANGED <<guardian, files, requests, instances>>
-----------------------------------------------------------------------------
(* run_instance. *)

\* Move instance i on, changing nothing but its own phase.
Moves(i, from, to) ==
    /\ phase[i] = from
    /\ phase' = [phase EXCEPT ![i] = to]
    /\ UNCHANGED <<payload, foreground, call, launchLock, stopLock, orphans>>

\* The stable lifecycle lock, and the listeners bound under it.
TakeGuardian(i) ==
    /\ Moves(i, "spawned", "guarded")
    /\ guardian = NONE
    /\ guardian' = i
    /\ UNCHANGED <<instanceLock, files, requests>>

WritePid(i) ==
    /\ Moves(i, "guarded", "named")
    /\ pidFile' = i
    /\ UNCHANGED <<instanceLock, guardian, descriptor, snapshots, requests>>

PublishUnready(i) ==
    /\ Moves(i, "named", "announced")
    /\ descriptor' = [nonce |-> i, ready |-> FALSE, snapshot |-> "launch"]
    /\ UNCHANGED <<instanceLock, guardian, pidFile, snapshots, requests>>

\* The selections in force are frozen into a snapshot of their own.
SaveCurrent(i) ==
    /\ Moves(i, "announced", "frozen")
    /\ snapshots' = snapshots \cup {<<i, "current">>}
    /\ UNCHANGED <<instanceLock, guardian, pidFile, descriptor, requests>>

\* An exact or unmanaged instance keeps its launch snapshot.
PublishReady(i) ==
    /\ \E from \in {"announced", "frozen"} :
        /\ Moves(i, from, "serving")
        /\ descriptor' = [nonce |-> i, ready |-> TRUE,
                          snapshot |-> IF from = "frozen" THEN "current" ELSE "launch"]
    /\ UNCHANGED <<instanceLock, guardian, pidFile, snapshots, requests>>

\* Any error before readiness goes straight to the cleanup.
StartupFails(i) ==
    /\ \E from \in Starting : Moves(i, from, "draining")
    /\ UNCHANGED <<instanceLock, guardian, files, requests>>

\* The polling loop takes its own stop request and leaves.
TakeRequest(i) ==
    /\ Moves(i, "serving", "draining")
    /\ i \in requests
    /\ requests' = requests \ {i}
    /\ UNCHANGED <<instanceLock, guardian, files>>

\* A signal, an ended listener or a failed runtime guard.
ServingEnds(i) ==
    /\ "instance" \in Faults
    /\ Moves(i, "serving", "draining")
    /\ UNCHANGED <<instanceLock, guardian, files, requests>>

\* cleanup_instance after the drain: only its own descriptor is removed ...
RemoveDescriptor(i) ==
    /\ Moves(i, "draining", "cleaning")
    /\ IF OfInstance(descriptor, i)
       THEN /\ snapshots' = snapshots \ {<<i, descriptor.snapshot>>}
            /\ descriptor' = NONE
            /\ pidFile' = Released(pidFile, i)
       ELSE UNCHANGED files
    /\ UNCHANGED <<instanceLock, guardian, requests>>

\* ... and then the names of its launch.
RemoveNames(i) ==
    /\ Moves(i, "cleaning", "cleaned")
    /\ snapshots' = snapshots \ {<<i, "launch">>}
    /\ requests' = requests \ {i}
    /\ UNCHANGED <<instanceLock, guardian, pidFile, descriptor>>

Release(i) ==
    /\ Moves(i, "cleaned", "exiting")
    /\ instanceLock' = instanceLock \ {i}
    /\ guardian' = Released(guardian, i)
    /\ UNCHANGED <<files, requests>>

Exit(i) ==
    /\ Moves(i, "exiting", "dead")
    /\ UNCHANGED <<instanceLock, guardian, files, requests>>

KillInstance(i) ==
    /\ "instance" \in Faults
    /\ \E from \in Phases \ {"unborn", "exiting", "dead"} : Moves(i, from, "dead")
    /\ instanceLock' = instanceLock \ {i}
    /\ guardian' = Released(guardian, i)
    /\ UNCHANGED <<files, requests>>

-----------------------------------------------------------------------------
Commands(c) == \E op \in Operations, p \in Payloads :
    Begin(c, op, IF op \in {"stop", "status"} THEN NONE ELSE p)

CallerStep(c) ==
    \/ ReadDescriptor(c) \/ ProbeOwner(c) \/ Confirm(c)
    \/ TakeLaunchLock(c) \/ AcquireStart(c) \/ AlreadyRunning(c)
    \/ TakeInstanceLock(c) \/ Clean(c) \/ Spawn(c) \/ SpawnFails(c) \/ AwaitReady(c)
    \/ StopFound(c) \/ TakeStopLock(c) \/ WriteRequest(c) \/ Poll(c)
    \/ CaptureRestart(c) \/ Recapture(c) \/ RestartChecked(c)
    \/ Status(c) \/ Return(c)

Timeout(c) ==
    \/ LaunchLockTimeout(c) \/ AcquireDeadline(c)
    \/ ReadinessDeadline(c) \/ StopLockTimeout(c) \/ StopDeadline(c) \/ SettleDeadline(c)

InstanceStep(i) ==
    \/ TakeGuardian(i) \/ WritePid(i) \/ PublishUnready(i) \/ SaveCurrent(i)
    \/ PublishReady(i) \/ StartupFails(i) \/ TakeRequest(i)
    \/ RemoveDescriptor(i) \/ RemoveNames(i) \/ Release(i) \/ Exit(i)

Next ==
    \/ \E c \in Callers : Commands(c) \/ CallerStep(c) \/ Timeout(c) \/ KillCaller(c)
    \/ \E i \in Instances : InstanceStep(i) \/ ServingEnds(i) \/ KillInstance(i)

Spec == Init /\ [][Next]_vars

\* A command keeps running, and the clock reaches its deadlines.
FairSpec ==
    /\ Spec
    /\ \A c \in Callers : WF_vars(CallerStep(c)) /\ SF_vars(Timeout(c))
-----------------------------------------------------------------------------
(* Properties. *)

Returns(c, op, result) ==
    At(c, "done") /\ call[c].op = op /\ call[c].result = result

\* At most one instance is between spawn and release of the runtime: the lock a
\* launcher hands to its child is never free in between.
OneOwner ==
    \A i, j \in Instances :
        {phase[i], phase[j]} \cap (Ended \cup {"unborn"}) = {} => i = j

\* While an instance serves, zc.pid and zc.daemon.json name it as ready and the
\* snapshot its descriptor names is there: no start, stop, status or restart,
\* and no instance that is going down, removes or replaces them.
ServingIsPublished ==
    \A i \in Instances : phase[i] = "serving" =>
        /\ pidFile = i
        /\ OfInstance(descriptor, i) /\ descriptor.ready
        /\ PreparedFor(descriptor)

\* zc stop reports success only when the instance it observed has cleaned up and
\* released the runtime.
StoppedMeansEnded ==
    \A c \in Callers : Returns(c, "stop", "stopped") => phase[call[c].captured.nonce] \in Ended

\* A stop request exists only while the command that wrote it can still revoke
\* it, so a command that gave up never stops the daemon later; only a command
\* that was killed leaves one behind.
RequestsAreOwned ==
    \A i \in requests : i \in orphans \/ \E c \in Callers : i \in Armed(c)

\* A request a command is waiting on is never revoked by another command.
RequestsAreNotStolen ==
    \A c \in Callers :
        At(c, "poll") /\ phase[call[c].captured.nonce] = "serving"
            => call[c].captured.nonce \in requests

\* A restart launches its target only after the instance it captured has cleaned
\* up and released the runtime: old and new never run side by side.
RestartReplacesCaptured ==
    \A c \in Callers :
        /\ call[c].op = "restart" /\ call[c].stage = "target"
        /\ call[c].captured # NONE /\ call[c].child # NONE
        => phase[call[c].captured.nonce] \in Ended

\* A launch that is reported as failed has left no process behind.
FailedLaunchLeavesNothing ==
    \A c \in Callers :
        At(c, "done") /\ call[c].result = "failed" /\ call[c].child # NONE
            => phase[call[c].child] = "dead" /\ <<call[c].child, "launch">> \notin snapshots

\* What runs is announced, and what could not be launched is gone.
LaunchIsSound == TypeOK /\ ServingIsPublished /\ FailedLaunchLeavesNothing

\* A request that is waited on stays, and what a stop or a restart reports or goes
\* on from has happened.
StopIsSound == StoppedMeansEnded /\ RequestsAreNotStolen /\ RestartReplacesCaptured

\* Every command returns, whatever the instances and the other commands do.  The
\* callers are interchangeable: what holds of one of them holds of all.
Watched == CHOOSE c \in Callers : TRUE
CallsEnd == call[Watched].pc # "idle" ~> call[Watched].pc \in {"idle", "done"}

-----------------------------------------------------------------------------
(* The instances as one owner at a time of one announcement. *)

Owners == instanceLock \cap Instances

\* The instances share the runtime like the owners of a single announcement:
\* only the owner announces and withdraws, a new owner starts from none.
Owner == INSTANCE RuntimeOwner WITH
    owner <- IF Owners = {} THEN NONE ELSE CHOOSE i \in Owners : TRUE,
    past <- {i \in Instances : phase[i] # "unborn"},
    announced <- IF Ready(descriptor) THEN descriptor.nonce ELSE NONE

ImplementsOwner == Owner!Spec
=============================================================================
