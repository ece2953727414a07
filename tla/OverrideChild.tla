--------------------------- MODULE OverrideChild ---------------------------
(***************************************************************************)
(* Running an override script (execute_bytes and run_child,                *)
(* src/src/override_script.rs).  The parent starts the script as the       *)
(* leader of a process group, feeds its standard input, drains both of     *)
(* its outputs and waits for it, all before one deadline.  Whatever goes   *)
(* wrong, it kills the group and reaps the leader before it returns.       *)
(*                                                                         *)
(* The script is the environment: it reads, writes, stops reading, leaves  *)
(* a helper behind that holds its pipes, exits or hangs.  Bytes are        *)
(* chunks; a pipe holds PipeRoom of them.                                  *)
(***************************************************************************)
EXTENDS Integers, FiniteSets

CONSTANTS
    PipeRoom,    \* capacity of a pipe
    Input,       \* chunks of the worker's request
    MaxWrites,   \* bound: chunks the script writes to one pipe
    MAX_OUTPUT,  \* MAX_OUTPUT_BYTES and MAX_STDERR_BYTES
    MaxBusy      \* bound: spawns that meet a busy executable

ASSUME ChildBounds ==
    {PipeRoom, Input, MaxWrites, MAX_OUTPUT, MaxBusy} \subseteq Nat /\ PipeRoom > 0

VARIABLES
    parent,    \* progress of execute_bytes
    pipes,     \* stdin, stdout, stderr
    leader,    \* the script's process
    helper,    \* a process it has started
    tmp,       \* the temporary script file exists
    late,      \* the deadline has passed
    stranger   \* who has the leader's process id, and whether it was killed

childVars == <<parent, pipes, leader, helper, tmp, late, stranger>>

Outs == {"stdout", "stderr"}
ParentStages == {"read", "build", "spawn", "io", "wait", "stop", "reap", "ok", "failed", "dropped"}
Returned == {"ok", "failed", "dropped"}
Pipe == [full : 0 .. PipeRoom, writers : SUBSET {"leader", "helper"}, open : BOOLEAN,
         written : 0 .. MaxWrites, read : 0 .. MAX_OUTPUT]

ChildTypeOK ==
    /\ parent \in [pc : ParentStages, worker : BOOLEAN, busy : 0 .. MaxBusy,
                   unsent : 0 .. Input, active : BOOLEAN]
    /\ pipes \in [Outs -> Pipe]
    /\ leader \in [state : {"none", "runs", "zombie", "reaped"}, success : BOOLEAN,
                   unread : 0 .. PipeRoom, reads : BOOLEAN]
    /\ helper \in [state : {"none", "runs", "gone"}, group : BOOLEAN]
    /\ tmp \in BOOLEAN /\ late \in BOOLEAN
    /\ stranger \in {"none", "lives", "killed"}

ParentAt(stage) == parent.pc = stage
ParentGoto(stage) == parent' = [parent EXCEPT !.pc = stage]

-----------------------------------------------------------------------------
(* The parent. *)

\* execute: the script may be a Lua script, which a worker of zc itself runs.
ChildInit ==
    /\ \E worker \in BOOLEAN :
           parent = [pc |-> "read", worker |-> worker, busy |-> 0, unsent |-> 0, active |-> FALSE]
    /\ tmp = FALSE
    /\ pipes = [o \in Outs |-> [full |-> 0, writers |-> {}, open |-> TRUE, written |-> 0, read |-> 0]]
    /\ leader = [state |-> "none", success |-> FALSE, unread |-> 0, reads |-> TRUE]
    /\ helper = [state |-> "none", group |-> TRUE]
    /\ late = FALSE
    /\ stranger = "none"

\* run_child returns, execute_bytes drops its TemporaryScript.
ChildReturns(result) ==
    /\ parent' = [parent EXCEPT !.pc = result, !.active = FALSE, !.unsent = 0]
    /\ tmp' = FALSE

\* read_script and validate_script: its bytes are captured before anything runs.
ReadScript ==
    /\ ParentAt("read")
    /\ ParentGoto("build") \/ ParentGoto("failed")
    /\ UNCHANGED <<pipes, leader, helper, tmp, late, stranger>>

\* execute_bytes: a request for the worker's input, or a file of the script's own.
TemporaryFile(worker) == ~worker
BuildCommand ==
    /\ ParentAt("build")
    /\ \/ ParentGoto("failed") /\ UNCHANGED tmp
       \/ /\ parent' = [parent EXCEPT !.pc = "spawn", !.unsent = IF parent.worker THEN Input ELSE 0]
          /\ tmp' = TemporaryFile(parent.worker)
    /\ UNCHANGED <<pipes, leader, helper, late, stranger>>

\* The loop around command.spawn: only a busy executable is tried again.
Spawn ==
    /\ ParentAt("spawn") /\ ~late
    /\ \/ /\ parent' = [parent EXCEPT !.pc = "io", !.active = TRUE]
          /\ leader' = [leader EXCEPT !.state = "runs"]
          /\ pipes' = [o \in Outs |-> [pipes[o] EXCEPT !.writers = {"leader"}]]
          /\ UNCHANGED tmp
       \/ /\ ~parent.worker /\ parent.busy < MaxBusy
          /\ parent' = [parent EXCEPT !.busy = @ + 1]
          /\ UNCHANGED <<leader, pipes, tmp>>
       \/ ChildReturns("failed") /\ UNCHANGED <<leader, pipes>>
    /\ UNCHANGED <<helper, late, stranger>>
SpawnLate ==
    /\ ParentAt("spawn") /\ late
    /\ ChildReturns("failed")
    /\ UNCHANGED <<pipes, leader, helper, late, stranger>>

\* The futures of try_join are dropped: this side of every pipe is closed.
CloseAll == pipes' = [o \in Outs |-> [pipes[o] EXCEPT !.open = FALSE, !.full = 0]]

\* write_input; a worker that no longer reads breaks the pipe.
WriteInput ==
    /\ ParentAt("io") /\ parent.unsent > 0
    /\ IF leader.state = "runs" /\ leader.reads
       THEN /\ leader.unread < PipeRoom
            /\ leader' = [leader EXCEPT !.unread = @ + 1]
            /\ parent' = [parent EXCEPT !.unsent = @ - 1]
            /\ UNCHANGED pipes
       ELSE /\ ParentGoto("stop")
            /\ CloseAll
            /\ UNCHANGED leader
    /\ UNCHANGED <<helper, tmp, late, stranger>>

\* read_pipe
ReadPipe(o) ==
    /\ ParentAt("io") /\ pipes[o].full > 0
    /\ IF pipes[o].read = MAX_OUTPUT
       THEN ParentGoto("stop") /\ CloseAll
       ELSE /\ pipes' = [pipes EXCEPT ![o].full = @ - 1, ![o].read = @ + 1]
            /\ UNCHANGED parent
    /\ UNCHANGED <<leader, helper, tmp, late, stranger>>

\* The end of a pipe: it is empty and nobody holds its other side.
EndOfPipe(o) == pipes[o].full = 0 /\ pipes[o].writers = {}

Joined ==
    /\ ParentAt("io") /\ parent.unsent = 0 /\ \A o \in Outs : EndOfPipe(o)
    /\ ParentGoto("wait")
    /\ UNCHANGED <<pipes, leader, helper, tmp, late, stranger>>

\* child.wait() in time: the leader is reaped, and no longer ours to signal.
\* A failed leader still goes through the stop, which then does nothing.
Wait ==
    /\ ParentAt("wait") /\ leader.state = "zombie"
    /\ leader' = [leader EXCEPT !.state = "reaped"]
    /\ IF leader.success
       THEN ChildReturns("ok")
       ELSE parent' = [parent EXCEPT !.pc = "stop", !.active = FALSE] /\ UNCHANGED tmp
    /\ UNCHANGED <<pipes, helper, late, stranger>>

\* timeout_at polls the work before the clock.
Timeout ==
    /\ parent.pc \in {"io", "wait"} /\ late
    /\ ~(ParentAt("wait") /\ leader.state = "zombie")
    /\ ParentGoto("stop")
    /\ CloseAll
    /\ UNCHANGED <<leader, helper, tmp, late, stranger>>

\* RunningChild::stop: SIGKILL to the group, that is to whoever is in it.
KillLeader ==
    IF parent.active
    THEN /\ leader' = IF leader.state = "runs" THEN [leader EXCEPT !.state = "zombie"] ELSE leader
         /\ UNCHANGED <<helper, stranger>>
    ELSE UNCHANGED <<leader, helper, stranger>>
Kill ==
    IF parent.active
    THEN /\ leader' = IF leader.state = "runs" THEN [leader EXCEPT !.state = "zombie"] ELSE leader
         /\ helper' = IF helper.state = "runs" /\ helper.group
                      THEN [helper EXCEPT !.state = "gone"] ELSE helper
         /\ stranger' = IF stranger = "lives" THEN "killed" ELSE stranger
    ELSE UNCHANGED <<leader, helper, stranger>>

Stop ==
    /\ ParentAt("stop")
    /\ Kill
    /\ ParentGoto("reap")
    /\ UNCHANGED <<pipes, tmp, late>>

Reap ==
    /\ ParentAt("reap") /\ leader.state \in {"zombie", "reaped"}
    /\ leader' = [leader EXCEPT !.state = "reaped"]
    /\ ChildReturns("failed")
    /\ UNCHANGED <<pipes, helper, late, stranger>>

\* The future is dropped: RunningChild::drop stops the group, and the runtime
\* reaps the leader.
Dropped ==
    /\ parent.pc \notin Returned
    /\ Kill
    /\ ChildReturns("dropped")
    /\ CloseAll
    /\ UNCHANGED late

-----------------------------------------------------------------------------
(* The script. *)

Alive(p) == IF p = "leader" THEN leader.state = "runs" ELSE helper.state = "runs"

\* A write blocks while the pipe is full, and is lost when nobody reads it.
Write(p, o) ==
    /\ Alive(p) /\ p \in pipes[o].writers
    /\ pipes[o].open /\ pipes[o].full < PipeRoom /\ pipes[o].written < MaxWrites
    /\ pipes' = [pipes EXCEPT ![o].full = @ + 1, ![o].written = @ + 1]
    /\ UNCHANGED <<parent, leader, helper, tmp, late, stranger>>

ReadInput ==
    /\ leader.state = "runs"
    /\ \/ leader.unread > 0 /\ leader' = [leader EXCEPT !.unread = @ - 1]
       \/ leader.reads /\ leader' = [leader EXCEPT !.reads = FALSE, !.unread = 0]
    /\ UNCHANGED <<parent, pipes, helper, tmp, late, stranger>>

\* A helper inherits the pipes and the group.
Fork ==
    /\ leader.state = "runs" /\ helper.state = "none"
    /\ helper' = [helper EXCEPT !.state = "runs"]
    /\ pipes' = [o \in Outs |-> [pipes[o] EXCEPT !.writers =
                     IF "leader" \in @ THEN @ \cup {"helper"} ELSE @]]
    /\ UNCHANGED <<parent, leader, tmp, late, stranger>>

Without(p) == [o \in Outs |-> [pipes[o] EXCEPT !.writers = @ \ {p}]]

\* A process lets go of its outputs, or the helper leaves the group.
Detach ==
    /\ \/ \E p \in {"leader", "helper"} :
              Alive(p) /\ pipes' = Without(p) /\ UNCHANGED helper
       \/ /\ helper.state = "runs"
          /\ helper' = [helper EXCEPT !.group = FALSE]
          /\ UNCHANGED pipes
    /\ UNCHANGED <<parent, leader, tmp, late, stranger>>

Exit ==
    /\ leader.state = "runs"
    /\ \E success \in BOOLEAN : leader' = [leader EXCEPT !.state = "zombie", !.success = success]
    /\ pipes' = Without("leader")
    /\ UNCHANGED <<parent, helper, tmp, late, stranger>>

HelperExit ==
    /\ helper.state = "runs"
    /\ helper' = [helper EXCEPT !.state = "gone"]
    /\ pipes' = Without("helper")
    /\ UNCHANGED <<parent, leader, tmp, late, stranger>>

\* The id of a reaped leader whose group is empty may go to another process.
Reuse ==
    /\ leader.state = "reaped" /\ ~(helper.state = "runs" /\ helper.group)
    /\ stranger = "none"
    /\ stranger' = "lives"
    /\ UNCHANGED <<parent, pipes, leader, helper, tmp, late>>

Deadline ==
    /\ ~late /\ parent.pc \notin Returned \cup {"read", "build"}
    /\ late' = TRUE
    /\ UNCHANGED <<parent, pipes, leader, helper, tmp, stranger>>

ParentStep ==
    \/ ReadScript \/ BuildCommand \/ Spawn \/ SpawnLate \/ WriteInput \/ (\E o \in Outs : ReadPipe(o)) \/ Joined \/ Wait
    \/ Timeout \/ Stop \/ Reap

\* The script, its helper, the kernel and the clock.
ScriptStep ==
    \/ \E p \in {"leader", "helper"}, o \in Outs : Write(p, o)
    \/ ReadInput \/ Fork \/ Detach \/ Exit \/ HelperExit \/ Reuse \/ Deadline

ChildNext == ParentStep \/ Dropped \/ ScriptStep

-----------------------------------------------------------------------------
(* Properties. *)

\* SIGKILL never reaches a process that got the leader's id after it was reaped:
\* run_child keeps the leader unreaped for as long as it may signal its group.
StrangersLive == stranger # "killed"

\* After any failure, and after the future is dropped, the leader does not run,
\* no member of its group holds the outputs, and the temporary script is gone.
NothingLeft ==
    parent.pc \in {"failed", "dropped"} =>
        /\ leader.state # "runs"
        /\ ~(helper.state = "runs" /\ helper.group /\ \E o \in Outs : "helper" \in pipes[o].writers)
        /\ ~tmp

\* An override succeeds only with the whole of what was written to standard
\* output, within the limit, and a leader that exited with success.
OutputWhole ==
    ParentAt("ok") => /\ leader.success
                /\ pipes["stdout"].read = pipes["stdout"].written
                /\ \A o \in Outs : pipes[o].writers = {} /\ pipes[o].full = 0

\* Once the deadline has passed the parent never waits for the script again,
\* whatever that does: it has a step to take until it returns, and all of them
\* but a bounded number of reads and writes lead on to the return.
DeadlineHolds == late /\ parent.pc \notin Returned => ENABLED ParentStep

\* The script and its parent never wait for each other: while the script cannot
\* write to one of its pipes the parent can go on without it.
NoStandoff ==
    (\E o \in Outs : pipes[o].full = PipeRoom /\ pipes[o].open) /\ parent.pc \notin Returned =>
        ENABLED ParentStep

\* The script is contained: it kills no stranger, leaves nothing behind, holds up
\* nobody, and is believed only if it ended well.
ChildIsContained ==
    StrangersLive /\ NothingLeft /\ OutputWhole /\ DeadlineHolds /\ NoStandoff
=============================================================================
