---------------------------- MODULE DaemonProofs ----------------------------
(***************************************************************************)
(* The invariant of the daemon's locks and files, for any number of        *)
(* callers and instances.  Every step of a command or an instance keeps    *)
(* it; with it, what the commands report is true, one instance runs at a   *)
(* time, and the instances implement RuntimeOwner.                         *)
(***************************************************************************)
EXTENDS Daemon, TLAPS

Running(i) == phase[i] \notin Ended \cup {"unborn"}

Born(d) == d # NONE => phase[d.nonce] # "unborn"

\* Labels observe returns to.
ReturnLabels == {"idle", "acquire", "running", "await", "captured", "recaptured",
                 "replace", "found", "request", "status"}

\* A call whose progress is r is at one of the labels, or in observe on its way there.
Within(r, labels) == r.pc \in labels \/ (r.pc \in Observing /\ r.ret \in labels)

\* zc.lock has one holder, and it is held by every instance that runs.
LockInv ==
    /\ \A i \in Instances : Running(i) <=> i \in instanceLock
    /\ \A p, q \in instanceLock : p = q

\* What instance i has published when it got so far.
Published(i) ==
    /\ phase[i] \in {"named", "announced", "frozen", "serving"} => pidFile = i
    /\ phase[i] \in {"spawned", "guarded", "named"} => ~Ready(descriptor)
    /\ phase[i] \in {"announced", "frozen"} => OfInstance(descriptor, i) /\ ~descriptor.ready
    /\ phase[i] \in Starting \cup {"serving"} => <<i, "launch">> \in snapshots
    /\ phase[i] = "frozen" => <<i, "current">> \in snapshots
    /\ phase[i] = "serving" => /\ OfInstance(descriptor, i) /\ descriptor.ready
                               /\ PreparedFor(descriptor)

FilesInv == Born(descriptor) /\ \A i \in Instances : Published(i)

\* What a call whose progress is r refers to has been launched.
References(r) ==
    /\ r.ret \in ReturnLabels
    /\ Born(r.seen) /\ Born(r.captured)
    /\ r.child # NONE => phase[r.child] # "unborn"

\* What caller c holds, and what it found, when its progress is r.
Holdings(c, r) ==
    /\ r.pc \in {"clean", "spawn"} => instanceLock = {c}
    /\ r.pc = "spawn" => descriptor = NONE
    /\ Within(r, {"request", "poll", "settle"}) => stopLock = c
    /\ Within(r, {"stopLock", "request", "poll", "settle"}) => r.captured # NONE
    /\ r.stage = "restore" => r.captured # NONE /\ (r.pc = "done" \/ Within(r, Launching))

\* A request that is waited on is there until its instance goes down.
Armament(r) ==
    (r.pc = "poll" /\ phase[r.captured.nonce] \in Starting \cup {"serving"})
        => r.captured.nonce \in requests

\* A command that launched a child waits for it, and has not failed unless it is gone.
Launches(r) ==
    /\ (r.child # NONE /\ r.pc # "done") => Within(r, {"await"})
    /\ (r.pc = "done" /\ r.result = "failed" /\ r.child # NONE)
            => phase[r.child] = "dead" /\ <<r.child, "launch">> \notin snapshots

\* What a restart replaces, and what a stop reports, has ended.
Endings(r) ==
    /\ (r.op = "restart" /\ r.stage = "target" /\ r.captured # NONE
            /\ (r.child # NONE \/ Within(r, Launching)))
            => phase[r.captured.nonce] \in Ended
    /\ (r.pc = "done" /\ r.op = "stop" /\ r.result = "stopped")
            => r.captured # NONE /\ phase[r.captured.nonce] \in Ended

CallerInv(c, r) == References(r) /\ Holdings(c, r) /\ Armament(r) /\ Launches(r) /\ Endings(r)

DaemonInv ==
    /\ TypeOK /\ LockInv /\ FilesInv
    /\ \A c \in Callers : CallerInv(c, call[c])
    /\ RequestsAreOwned
-----------------------------------------------------------------------------
(* What the ways a command moves do to its record. *)

\* Only the record of c changes, and it keeps the fields that are not named.
Alone(c) == call' \in [Callers -> Call] /\ \A d \in Callers \ {c} : call'[d] = call[d]
KeepsCommand(c) == call'[c].op = call[c].op /\ call'[c].captured = call[c].captured
KeepsChild(c) ==
    call'[c].stage = call[c].stage /\ call'[c].child = call[c].child /\ call'[c].result = call[c].result

\* The fields of a call that are instances.
LEMMA CallFields ==
    ASSUME NEW r \in Call
    PROVE  /\ r.seen # NONE => r.seen.nonce \in Instances
           /\ r.captured # NONE => r.captured.nonce \in Instances
           /\ r.child # NONE => r.child \in Instances
           /\ r.pc \in Labels /\ r.ret \in Labels
           /\ r.seen \in Descriptor \cup {NONE}
BY DEF Call, Descriptor

\* A record that replaces that of c.
LEMMA Replaced ==
    ASSUME call \in [Callers -> Call], NEW c \in Callers, NEW r \in Call, call' = [call EXCEPT ![c] = r]
    PROVE  Alone(c) /\ call'[c] = r
BY DEF Alone

\* Goto.
LEMMA GotoMoves ==
    ASSUME call \in [Callers -> Call], NEW c \in Callers, NEW label \in Labels, Goto(c, label)
    PROVE  /\ Alone(c) /\ KeepsCommand(c) /\ KeepsChild(c)
           /\ call'[c].pc = label /\ call'[c].seen = NONE /\ call'[c].ret = call[c].ret
<1> DEFINE r == [call[c] EXCEPT !.pc = label, !.seen = NONE]
<1>1. call' = [call EXCEPT ![c] = r]
  BY Zenon DEF Goto
<1>2. r \in Call
  <2>1. ASSUME NEW s \in Call PROVE [s EXCEPT !.pc = label, !.seen = NONE] \in Call
    BY Zenon DEF Call
  <2> QED BY Zenon, <2>1
<1>3. Alone(c) /\ call'[c] = r
  BY Zenon, <1>1, <1>2, Replaced
<1> QED BY <1>3 DEF KeepsCommand, KeepsChild, Call

\* Observe.
LEMMA ObserveMoves ==
    ASSUME call \in [Callers -> Call], NEW c \in Callers, NEW label \in Labels, Observe(c, label)
    PROVE  /\ Alone(c) /\ KeepsCommand(c) /\ KeepsChild(c)
           /\ call'[c].pc = "observe" /\ call'[c].seen = NONE /\ call'[c].ret = label
<1> DEFINE r == [call[c] EXCEPT !.pc = "observe", !.ret = label, !.seen = NONE]
<1>1. call' = [call EXCEPT ![c] = r]
  BY Zenon DEF Observe
<1>2. r \in Call
  <2>1. "observe" \in Labels
    BY DEF Labels
  <2> QED BY ZenonT(30), <2>1 DEF Call
<1>3. Alone(c) /\ call'[c] = r
  BY Zenon, <1>1, <1>2, Replaced
<1> QED BY <1>3 DEF KeepsCommand, KeepsChild, Call

\* Over.
LEMMA OverMoves ==
    ASSUME call \in [Callers -> Call], NEW c \in Callers,
           NEW result \in {"started", "running", "stopped", "restored", "reported", "deadline", "failed"},
           Over(c, result)
    PROVE  /\ Alone(c) /\ KeepsCommand(c)
           /\ call'[c].pc = "done" /\ call'[c].seen = NONE /\ call'[c].ret = "idle" /\ call'[c].result = result
           /\ call'[c].stage = call[c].stage /\ call'[c].child = call[c].child
<1> DEFINE r == [call[c] EXCEPT !.pc = "done", !.ret = "idle", !.seen = NONE, !.want = NONE, !.result = result]
<1>1. call' = [call EXCEPT ![c] = r]
  BY Zenon DEF Over
<1>2. r \in Call
  <2>1. "done" \in Labels /\ "idle" \in Labels
    BY DEF Labels
  <2>2. ASSUME NEW s \in Call
        PROVE  [s EXCEPT !.pc = "done", !.ret = "idle", !.seen = NONE, !.want = NONE, !.result = result] \in Call
    BY Zenon, <2>1 DEF Call
  <2> QED BY Zenon, <2>2
<1>3. Alone(c) /\ call'[c] = r
  BY Zenon, <1>1, <1>2, Replaced
<1> QED BY <1>3 DEF KeepsCommand, Call

\* An answer of observe, and its two readings.
LEMMA ReadMoves ==
    ASSUME call \in [Callers -> Call], NEW c \in Callers, NEW d \in Descriptor \cup {NONE},
           NEW pc \in Labels, NEW ret \in Labels,
           call' = [call EXCEPT ![c].seen = d, ![c].pc = pc, ![c].ret = ret]
    PROVE  /\ Alone(c) /\ KeepsCommand(c) /\ KeepsChild(c)
           /\ call'[c].pc = pc /\ call'[c].seen = d /\ call'[c].ret = ret
<1> DEFINE r == [call[c] EXCEPT !.seen = d, !.pc = pc, !.ret = ret]
<1>1. call' = [call EXCEPT ![c] = r]
  BY Zenon
<1>2. r \in Call
  <2>1. ASSUME NEW s \in Call PROVE [s EXCEPT !.seen = d, !.pc = pc, !.ret = ret] \in Call
    BY Zenon DEF Call
  <2> QED BY Zenon, <2>1
<1>3. Alone(c) /\ call'[c] = r
  BY Zenon, <1>1, <1>2, Replaced
<1> QED BY <1>3 DEF KeepsCommand, KeepsChild, Call

\* What was seen becomes the instance the call acts on.
LEMMA CaptureMoves ==
    ASSUME call \in [Callers -> Call], NEW c \in Callers, NEW pc \in Labels, NEW ret \in Labels,
           call' = [call EXCEPT ![c].captured = call[c].seen, ![c].pc = pc, ![c].ret = ret, ![c].seen = NONE]
    PROVE  /\ Alone(c) /\ KeepsChild(c) /\ call'[c].op = call[c].op /\ call'[c].captured = call[c].seen
           /\ call'[c].pc = pc /\ call'[c].seen = NONE /\ call'[c].ret = ret
<1> DEFINE r == [call[c] EXCEPT !.captured = call[c].seen, !.pc = pc, !.ret = ret, !.seen = NONE]
<1>1. call' = [call EXCEPT ![c] = r]
  BY Zenon
<1>2. r \in Call
  <2>1. ASSUME NEW s \in Call, NEW d \in Descriptor \cup {NONE} PROVE [s EXCEPT !.captured = d, !.pc = pc, !.ret = ret, !.seen = NONE] \in Call
    BY Zenon DEF Call
  <2> QED BY Zenon, <2>1, CallFields
<1>3. Alone(c) /\ call'[c] = r
  BY Zenon, <1>1, <1>2, Replaced
<1> QED BY <1>3 DEF KeepsChild, Call
-----------------------------------------------------------------------------
(* What a step may do beside a caller that does not move. *)

Coming == Starting \cup {"serving"}

\* Instances only move on, and what caller d relies on stays.
Quiet(d) ==
    /\ \A i \in Instances :
        /\ phase[i] # "unborn" => phase'[i] # "unborn"
        /\ phase[i] \in Ended => phase'[i] \in Ended
        /\ phase[i] = "dead" => phase'[i] = "dead"
        /\ phase[i] # "unborn" /\ phase'[i] \in Coming => phase[i] \in Coming
        /\ call[d].pc = "poll" /\ phase'[i] \in Coming /\ i \in requests => i \in requests'
        /\ phase[i] = "dead" /\ <<i, "launch">> \notin snapshots => <<i, "launch">> \notin snapshots'
    /\ call[d].pc \in {"clean", "spawn"} /\ instanceLock = {d} => instanceLock' = {d}
    /\ call[d].pc = "spawn" /\ descriptor = NONE => descriptor' = NONE
    /\ stopLock = d => stopLock' = d

\* A caller beside which a step is quiet keeps its part of the invariant.
LEMMA QuietKeeps ==
    ASSUME TypeOK, NEW d \in Callers, CallerInv(d, call[d]), Quiet(d), call'[d] = call[d]
    PROVE  CallerInv(d, call[d])'
<1>0. PICK r \in Call : r = call[d]
  BY DEF TypeOK
<1>1. /\ r.seen # NONE => r.seen.nonce \in Instances
      /\ r.captured # NONE => r.captured.nonce \in Instances
      /\ r.child # NONE => r.child \in Instances
  BY CallFields
<1>2. References(r) /\ Holdings(d, r) /\ Armament(r) /\ Launches(r) /\ Endings(r)
  BY <1>0 DEF CallerInv
<1>4. References(r)'
  BY Zenon, <1>1, <1>2 DEF References, Born, Quiet
<1>5. Launches(r)'
  BY Zenon, <1>1, <1>2 DEF References, Launches, Born, Quiet, Within
<1>6. Holdings(d, r)'
  BY <1>0, <1>2 DEF Holdings, Quiet, Within
<1>7. Armament(r)'
  BY Zenon, <1>0, <1>1, <1>2 DEF Armament, Holdings, References, Born, Within, Quiet, Coming
<1>8. Endings(r)'
  BY Zenon, <1>1, <1>2 DEF Endings, Quiet, Within
<1>9. CallerInv(d, r)'
  BY Zenon, <1>4, <1>5, <1>6, <1>7, <1>8 DEF CallerInv
<1> QED BY <1>0, <1>9
-----------------------------------------------------------------------------
(* A command that moves on and touches nothing but its own record. *)

Same(r, s) ==
    /\ s.op = r.op /\ s.captured = r.captured
    /\ s.stage = r.stage /\ s.child = r.child /\ s.result = r.result

\* All but the record of a command and zc.launch.lock stays.
Beside ==
    /\ launchLock' \in Callers \cup {NONE}
    /\ UNCHANGED <<instanceLock, stopLock, guardian, files, requests, orphans, instances>>

\* CallOnly is one such step.
LEMMA CallOnlyIsBeside ==
    ASSUME DaemonInv, CallOnly
    PROVE  Beside
BY Zenon DEF DaemonInv, TypeOK, CallOnly, Beside

\* A command that goes on to a label where nothing new is asked of it.
LEMMA MovesOn ==
    ASSUME NEW c \in Callers, NEW r \in Call, NEW s \in Call, CallerInv(c, r), Same(r, s),
           r.pc # "done", s.pc \notin {"clean", "spawn", "poll", "done"},
           s.ret \in ReturnLabels, Born(s.seen),
           Within(s, {"request", "poll", "settle"}) => stopLock = c,
           Within(s, {"stopLock", "request", "poll", "settle"}) => r.captured # NONE,
           Within(r, {"await"}) => Within(s, {"await"}),
           Within(r, Launching) => Within(s, Launching),
           Within(s, Launching) => \/ Within(r, Launching) \/ r.op # "restart"
                                   \/ r.captured = NONE \/ phase[r.captured.nonce] \in Ended
    PROVE  CallerInv(c, s)
<1>1. References(s)
  BY Zenon DEF CallerInv, References, Same
<1>2. Holdings(c, s)
  BY DEF CallerInv, Holdings, Same
<1>3. Armament(s)
  BY Zenon DEF Armament
<1>4. Launches(s)
  BY Zenon DEF CallerInv, Launches, Same
<1>5. Endings(s)
  <2>1. r.child # NONE => Within(r, Launching)
    BY DEF CallerInv, Launches, Within, Launching
  <2> QED BY Zenon, <2>1 DEF CallerInv, Endings, Same
<1> QED BY Zenon, <1>1, <1>2, <1>3, <1>4, <1>5 DEF CallerInv

\* Every caller but c keeps its part when nothing but the record of c changes.
LEMMA BesideKeeps ==
    ASSUME DaemonInv, NEW c \in Callers, Beside, Alone(c), CallerInv(c, call'[c]),
           At(c, "poll") => call[c].captured.nonce \notin requests
    PROVE  DaemonInv'
<1> USE DEF Beside, files, instances
<1>1. TypeOK'
  BY Zenon DEF DaemonInv, TypeOK, Alone
<1>2. LockInv' /\ FilesInv'
  BY Zenon DEF DaemonInv, LockInv, FilesInv, Published, Running, Born, Ready, OfInstance, PreparedFor
<1>3. ASSUME NEW d \in Callers PROVE CallerInv(d, call[d])'
  <2>1. CASE d = c
    <3>1. PICK s \in Call : s = call'[c]
      BY Zenon DEF Alone
    <3>2. CallerInv(c, s)
      BY Zenon, <3>1
    <3>3. CallerInv(c, s)'
      BY SMTT(60), <3>2 DEF CallerInv, References, Holdings, Armament, Launches, Endings, Born
    <3> QED BY Zenon, <2>1, <3>1, <3>3
  <2>2. CASE d # c
    <3>1. Quiet(d)
      BY Zenon DEF Quiet
    <3> QED BY Zenon, <2>2, <3>1, QuietKeeps DEF DaemonInv, Alone
  <2> QED BY Zenon, <2>1, <2>2
<1>4. RequestsAreOwned'
  <2> SUFFICES ASSUME NEW i \in requests, i \notin orphans
               PROVE  \E d \in Callers : i \in Armed(d)'
    BY DEF RequestsAreOwned
  <2>1. PICK d \in Callers : i \in Armed(d)
    BY Zenon DEF DaemonInv, RequestsAreOwned
  <2>2. d # c
    BY Zenon, <2>1 DEF Armed
  <2> QED BY Zenon, <2>1, <2>2 DEF Armed, At, Alone
<1> QED BY Zenon, <1>1, <1>2, <1>3, <1>4 DEF DaemonInv
-----------------------------------------------------------------------------
(* The ways a command ends. *)

\* Only the commands that wait hold the stop lock, so one waits at a time.
LEMMA OneWaits ==
    ASSUME DaemonInv, NEW c \in Callers, NEW d \in Callers, At(c, "poll"), At(d, "poll")
    PROVE  c = d
BY Zenon DEF DaemonInv, CallerInv, Holdings, Within, At

\* The requests that are left stay owned when only c gives up or loses its own.
LEMMA StillOwned ==
    ASSUME DaemonInv, NEW c \in Callers, Alone(c), requests' \subseteq requests, orphans \subseteq orphans',
           \A i \in requests' : i \notin Armed(c) \/ i \in orphans'
    PROVE  RequestsAreOwned'
<1> SUFFICES ASSUME NEW i \in requests', i \notin orphans'
             PROVE  \E d \in Callers : i \in Armed(d)'
  BY DEF RequestsAreOwned
<1>1. PICK d \in Callers : i \in Armed(d)
  BY DEF DaemonInv, RequestsAreOwned
<1>2. d # c
  BY Zenon, <1>1
<1> QED BY <1>1, <1>2 DEF Armed, At, Alone

\* A command that is over: nothing is asked of it but what it reports.
LEMMA OverKeeps ==
    ASSUME NEW c \in Callers, NEW r \in Call, NEW s \in Call, CallerInv(c, r),
           s.pc = "done", s.ret = "idle", s.seen = NONE,
           s.op = r.op, s.captured = r.captured, s.stage = r.stage, s.child = r.child,
           (s.result = "failed" /\ r.child # NONE)
               => phase[r.child] = "dead" /\ <<r.child, "launch">> \notin snapshots,
           (r.op = "stop" /\ s.result = "stopped")
               => r.captured # NONE /\ phase[r.captured.nonce] \in Ended
    PROVE  CallerInv(c, s)
<1>1. References(s)
  BY Zenon DEF CallerInv, References, ReturnLabels, Born
<1>2. Holdings(c, s) /\ Armament(s) /\ Launches(s)
  BY Zenon DEF CallerInv, Holdings, Armament, Launches, Within, Observing
<1>3. Endings(s)
  BY Zenon DEF CallerInv, Endings, Within, Observing, Launching
<1> QED BY Zenon, <1>1, <1>2, <1>3 DEF CallerInv

Results == {"started", "running", "stopped", "restored", "reported", "deadline", "failed"}

\* Finish.
LEMMA FinishKeeps ==
    ASSUME DaemonInv, NEW c \in Callers, NEW result \in Results, Finish(c, result),
           result = "failed" => call[c].child = NONE,
           (call[c].op = "stop" /\ result = "stopped")
               => call[c].captured # NONE /\ phase[call[c].captured.nonce] \in Ended
    PROVE  DaemonInv'
<1> USE DEF files, instances
<1>0. call \in [Callers -> Call] /\ CallerInv(c, call[c])
  BY Zenon DEF DaemonInv, TypeOK
<1>a. /\ Alone(c) /\ KeepsCommand(c)
      /\ call'[c].pc = "done" /\ call'[c].seen = NONE /\ call'[c].ret = "idle" /\ call'[c].result = result
      /\ call'[c].stage = call[c].stage /\ call'[c].child = call[c].child
  BY Zenon, <1>0, OverMoves DEF Finish, Results
<1>1. TypeOK'
  BY Zenon, <1>a DEF DaemonInv, TypeOK, Alone, Finish, Released
<1>2. LockInv'
  BY SMTT(60), CallersAreNoInstances DEF DaemonInv, LockInv, Finish, Running, Instances
<1>3. FilesInv'
  BY DEF DaemonInv, FilesInv, Published, Born, Ready, OfInstance, PreparedFor, Finish
<1>4. ASSUME NEW d \in Callers PROVE CallerInv(d, call[d])'
  <2>1. CASE d = c
    <3>1. PICK r \in Call, s \in Call : r = call[c] /\ s = call'[c]
      BY Zenon, <1>0, <1>a DEF Alone
    <3>2. CallerInv(c, s)
      BY Zenon, <1>0, <1>a, <3>1, OverKeeps DEF KeepsCommand
    <3>3. CallerInv(c, s)'
      <4>1. References(s)' /\ Launches(s)' /\ Endings(s)'
        BY SMTT(60), <3>2 DEF CallerInv, References, Launches, Endings, Born, Finish
      <4>2. Holdings(c, s)' /\ Armament(s)'
        BY Zenon, <1>a, <3>1, <3>2 DEF CallerInv, Holdings, Armament, Within, Observing
      <4> QED BY SMTT(60), <4>1, <4>2 DEF CallerInv
    <3> QED BY Zenon, <2>1, <3>1, <3>3
  <2>2. CASE d # c
    <3>1. call[d].pc = "poll" => Armed(c) = {}
      BY Zenon, <2>2, OneWaits DEF Armed, At
    <3>2. Quiet(d)
      BY Zenon, <2>2, <3>1 DEF Quiet, Finish, Released
    <3> QED BY Zenon, <2>2, <3>2, <1>a, QuietKeeps DEF DaemonInv, Alone
  <2> QED BY Zenon, <2>1, <2>2
<1>5. RequestsAreOwned'
  BY Zenon, <1>a, StillOwned DEF Finish
<1> QED BY <1>1, <1>2, <1>3, <1>4, <1>5 DEF DaemonInv

\* A restart whose target failed goes back to the snapshot it captured.
LEMMA RestoreMoves ==
    ASSUME call \in [Callers -> Call], NEW c \in Callers,
           call' = [call EXCEPT ![c].pc = "observe", ![c].ret = "acquire", ![c].seen = NONE,
                                ![c].want = NONE, ![c].stage = "restore", ![c].child = NONE]
    PROVE  /\ Alone(c) /\ KeepsCommand(c) /\ call'[c].result = call[c].result
           /\ call'[c].pc = "observe" /\ call'[c].seen = NONE /\ call'[c].ret = "acquire"
           /\ call'[c].stage = "restore" /\ call'[c].child = NONE
<1> DEFINE r == [call[c] EXCEPT !.pc = "observe", !.ret = "acquire", !.seen = NONE,
                                !.want = NONE, !.stage = "restore", !.child = NONE]
<1>1. call' = [call EXCEPT ![c] = r]
  BY Zenon
<1>2. r \in Call
  <2>1. "observe" \in Labels /\ "acquire" \in Labels
    BY Zenon DEF Labels
  <2>2. ASSUME NEW s \in Call
        PROVE  [s EXCEPT !.pc = "observe", !.ret = "acquire", !.seen = NONE,
                         !.want = NONE, !.stage = "restore", !.child = NONE] \in Call
    BY Zenon, <2>1 DEF Call
  <2> QED BY Zenon, <2>2
<1>3. Alone(c) /\ call'[c] = r
  BY Zenon, <1>1, <1>2, Replaced
<1> QED BY <1>3 DEF KeepsCommand, Call

\* StartFailed: the child is gone with its files, and nothing else has changed.
LEMMA StartFailedKeeps ==
    ASSUME DaemonInv, NEW c \in Callers, StartFailed(c), Within(call[c], Launching)
    PROVE  DaemonInv'
<1>0. call \in [Callers -> Call] /\ CallerInv(c, call[c])
  BY DEF DaemonInv, TypeOK
<1> DEFINE k == call[c].child
<1>k. k \in Instances \cup {NONE} /\ (k # NONE => phase[k] # "unborn") /\ call[c].pc \notin {"poll", "done"}
  BY Zenon, <1>0 DEF Call, CallerInv, References, Within, Launching, Observing
<1>n. NONE \notin Instances
  BY NoneAssumption, CountAssumption DEF Instances
<1>m. /\ phase' = [i \in Instances |-> IF i = k THEN "dead" ELSE phase[i]]
      /\ instanceLock' = instanceLock \ {c, k} /\ guardian' = Released(guardian, k)
      /\ snapshots' = snapshots \ {<<k, "launch">>} /\ requests' = requests \ {k}
      /\ launchLock' \in {launchLock, Released(launchLock, c)}
      /\ UNCHANGED <<stopLock, pidFile, descriptor, orphans, payload, foreground>>
  BY Zenon DEF StartFailed, KillChild
<1>a. /\ Alone(c) /\ KeepsCommand(c) /\ call'[c].seen = NONE
      /\ \/ /\ call'[c].pc = "observe" /\ call'[c].ret = "acquire"
            /\ call'[c].stage = "restore" /\ call'[c].child = NONE /\ call[c].captured # NONE
         \/ /\ call'[c].pc = "done" /\ call'[c].ret = "idle" /\ call'[c].result = "failed"
            /\ call'[c].stage = call[c].stage /\ call'[c].child = k
            /\ ~Restores(c)
  BY ZenonT(40), <1>0, OverMoves, RestoreMoves DEF StartFailed, Restores
<1> HIDE DEF k
<1>1. TypeOK'
  <2>1. phase' \in [Instances -> Phases]
    BY Zenon, <1>m DEF DaemonInv, TypeOK, Phases
  <2> QED BY Zenon, <1>m, <1>a, <2>1 DEF DaemonInv, TypeOK, Alone, Released
<1>2. LockInv'
  BY SMTT(40), <1>m, CallersAreNoInstances DEF DaemonInv, LockInv, Running, Instances, Ended
<1>3. FilesInv'
  <2>1. Born(descriptor)'
    BY Zenon, <1>m, <1>k DEF DaemonInv, FilesInv, Born, TypeOK, Descriptor
  <2>2. ASSUME NEW i \in Instances, i # k
        PROVE  phase'[i] = phase[i] /\ (\A e : <<i, e>> \in snapshots => <<i, e>> \in snapshots')
    BY Zenon, <1>m, <2>2
  <2>3. ASSUME NEW i \in Instances, i = k PROVE phase'[i] = "dead"
    BY <1>m, <2>3
  <2> QED BY Zenon, <1>m, <2>1, <2>2, <2>3 DEF DaemonInv, FilesInv, Published, Ready, OfInstance, PreparedFor, Starting
<1>4. ASSUME NEW d \in Callers PROVE CallerInv(d, call[d])'
  <2>0. /\ \A i \in Instances : phase[i] # "unborn" => phase'[i] # "unborn"
        /\ \A i \in Instances : phase[i] \in Ended => phase'[i] \in Ended
    BY Zenon, <1>m DEF Ended
  <2>1. CASE d = c
    <3>1. PICK r \in Call, s \in Call : r = call[c] /\ s = call'[c]
      BY <1>0, <1>a DEF Alone
    <3>f. r.captured # NONE => r.captured.nonce \in Instances
      BY Zenon, CallFields
    <3>2. References(s)'
      BY ZenonT(40), <1>0, <1>a, <1>k, <2>0, <3>1, <3>f DEF CallerInv, References, ReturnLabels, Born, KeepsCommand, k
    <3>3. Holdings(c, s)' /\ Armament(s)'
      BY Zenon, <1>0, <1>a, <3>1 DEF CallerInv, Holdings, Armament, Within, Observing, Launching, KeepsCommand
    <3>4. Launches(s)'
      BY Zenon, <1>m, <1>k, <1>a, <3>1 DEF Launches
    <3>5. Endings(s)'
      BY Zenon, <1>a, <1>k, <2>0, <3>1, <3>f DEF CallerInv, Endings, KeepsCommand, Restores, Within, Observing, Launching
    <3> QED BY SMTT(40), <2>1, <3>1, <3>2, <3>3, <3>4, <3>5 DEF CallerInv
  <2>2. CASE d # c
    <3>1. Quiet(d)
      <4>1. instanceLock = {d} => instanceLock' = {d}
        BY SMTT(60), <1>m, <1>k, <2>2, CallersAreNoInstances, NoneAssumption DEF Instances
      <4> QED BY ZenonT(40), <1>m, <2>0, <2>2, <4>1 DEF Quiet, Coming, Starting, Ended
    <3> QED BY ZenonT(40), <2>2, <3>1, <1>a, QuietKeeps DEF DaemonInv, Alone
  <2> QED BY Zenon, <2>1, <2>2
<1>5. RequestsAreOwned'
  BY Zenon, <1>m, <1>a, <1>k, StillOwned DEF Armed, At
<1> QED BY Zenon, <1>1, <1>2, <1>3, <1>4, <1>5 DEF DaemonInv
-----------------------------------------------------------------------------
(* The removal of what a dead instance left. *)

\* While zc.lock is free or held by a caller no instance runs.
LEMMA NobodyRuns ==
    ASSUME DaemonInv, NEW L \in SUBSET Callers, instanceLock = L
    PROVE  \A i \in Instances : phase[i] \in Ended \cup {"unborn"}
BY CallersAreNoInstances DEF DaemonInv, LockInv, Running, Instances

\* RemoveStale while nobody runs: what is left suits any instance.
LEMMA StaleKeeps ==
    ASSUME DaemonInv, RemoveStale, UNCHANGED phase,
           \A i \in Instances : phase[i] \in Ended \cup {"unborn"}
    PROVE  /\ FilesInv' /\ snapshots' \subseteq snapshots /\ descriptor' = NONE
           /\ pidFile' \in Instances \cup {NONE}
BY Zenon DEF RemoveStale, FilesInv, Published, Born, Starting, Ended

\* CleanupStale ends the command, whatever it finds.
LEMMA CleanupKeeps ==
    ASSUME DaemonInv, NEW c \in Callers, NEW result \in {"reported"}, CleanupStale(c, result),
           call[c].child = NONE, call[c].pc # "poll"
    PROVE  DaemonInv'
<1> USE DEF files, instances
<1>0. call \in [Callers -> Call] /\ CallerInv(c, call[c])
  BY Zenon DEF DaemonInv, TypeOK
<1>1. CASE Finish(c, "failed") \/ Finish(c, result)
  BY Zenon, <1>0, <1>1, FinishKeeps DEF Results
<1>2. CASE /\ FALSE \in lock_held(c) /\ RemoveStale /\ Over(c, result)
           /\ UNCHANGED <<instanceLock, launchLock, stopLock, guardian, requests, orphans, instances>>
  <2>a. /\ Alone(c) /\ KeepsCommand(c)
        /\ call'[c].pc = "done" /\ call'[c].seen = NONE /\ call'[c].ret = "idle" /\ call'[c].result = result
        /\ call'[c].stage = call[c].stage /\ call'[c].child = call[c].child
    BY <1>0, <1>2, OverMoves
  <2>b. instanceLock = {}
    BY Zenon, <1>2 DEF lock_held
  <2>c. \A i \in Instances : phase[i] \in Ended \cup {"unborn"}
    BY Zenon, <2>b, NobodyRuns
  <2>d. /\ FilesInv' /\ snapshots' \subseteq snapshots /\ descriptor' = NONE
        /\ pidFile' \in Instances \cup {NONE}
    BY SMTT(60), <1>2, <2>c, StaleKeeps
  <2>1. TypeOK'
    BY SMTT(40), <1>2, <2>a, <2>d DEF DaemonInv, TypeOK, Alone
  <2>2. LockInv'
    BY Zenon, <1>2 DEF DaemonInv, LockInv, Running
  <2>3. ASSUME NEW d \in Callers PROVE CallerInv(d, call[d])'
    <3>1. CASE d = c
      <4>1. PICK r \in Call, s \in Call : r = call[c] /\ s = call'[c]
        BY <1>0, <2>a DEF Alone
      <4>2. CallerInv(c, s)
        BY ZenonT(40), <1>0, <2>a, <4>1, OverKeeps DEF KeepsCommand
      <4>3. References(s)' /\ Launches(s)' /\ Endings(s)'
        BY SMTT(40), <1>2, <2>d, <4>2 DEF CallerInv, References, Launches, Endings, Born
      <4>4. Holdings(c, s)' /\ Armament(s)'
        BY Zenon, <2>a, <4>1, <4>2 DEF CallerInv, Holdings, Armament, Within, Observing
      <4> QED BY Zenon, <3>1, <4>1, <4>3, <4>4 DEF CallerInv
    <3>2. CASE d # c
      <4>1. Quiet(d)
        BY Zenon, <1>2, <2>b, <2>d DEF Quiet
      <4> QED BY Zenon, <3>2, <4>1, <2>a, QuietKeeps DEF DaemonInv, Alone
    <3> QED BY Zenon, <3>1, <3>2
  <2>4. RequestsAreOwned'
    BY <1>2, <2>a, StillOwned DEF Armed, At
  <2> QED BY SMTT(60), <2>1, <2>2, <2>3, <2>4, <2>d DEF DaemonInv
<1>3. \/ Finish(c, "failed") \/ Finish(c, result)
      \/ /\ FALSE \in lock_held(c) /\ RemoveStale /\ Over(c, result)
         /\ UNCHANGED <<instanceLock, launchLock, stopLock, guardian, requests, orphans, instances>>
  <2> USE DEF CleanupStale
  <2>1. lock_held(c) \subseteq BOOLEAN
    BY Zenon DEF lock_held
  <2>2. PICK held \in lock_held(c) :
            \/ held /\ Finish(c, result)
            \/ /\ ~held /\ RemoveStale /\ Over(c, result)
               /\ UNCHANGED <<instanceLock, launchLock, stopLock, guardian, requests, orphans, instances>>
            \/ Finish(c, "failed")
    BY Zenon DEF instances
  <2>3. ~held => held = FALSE
    BY <2>1
  <2> QED BY <2>2, <2>3, Zenon
<1> QED BY Zenon, <1>1, <1>2, <1>3
-----------------------------------------------------------------------------
(* The instances. *)

\* No two instances run.
LEMMA OneRuns ==
    ASSUME DaemonInv, NEW i \in Instances, NEW j \in Instances, Running(i), Running(j)
    PROVE  i = j
BY Zenon DEF DaemonInv, LockInv

\* An instance that moves on is quiet for every command, and frees the lock when it ends.
LEMMA InstanceKeeps ==
    ASSUME DaemonInv, NEW i \in Instances, NEW from \in Phases, NEW to \in Phases, Moves(i, from, to),
           from # "unborn", to # "unborn", from \in Ended => to \in Ended, from = "dead" => to = "dead",
           to \in Coming => from \in Coming /\ requests' = requests,
           requests' = requests \/ requests' = requests \ {i},
           \A j : <<j, "launch">> \in snapshots' => <<j, "launch">> \in snapshots,
           instanceLock' = IF to \in Ended THEN instanceLock \ {i} ELSE instanceLock,
           descriptor' = descriptor \/ from \notin Ended
    PROVE  /\ LockInv' /\ RequestsAreOwned' /\ \A d \in Callers : CallerInv(d, call[d])'
           /\ phase' \in [Instances -> Phases] /\ phase'[i] = to
           /\ \A j \in Instances \ {i} : phase'[j] = phase[j]
<1>1. /\ phase' \in [Instances -> Phases] /\ phase'[i] = to /\ phase[i] = from
      /\ \A j \in Instances \ {i} : phase'[j] = phase[j]
  BY Zenon DEF Moves, DaemonInv, TypeOK
<1>2. LockInv'
  BY Zenon, <1>1 DEF DaemonInv, LockInv, Running
<1>3. RequestsAreOwned'
  BY Zenon DEF DaemonInv, RequestsAreOwned, Armed, At, Moves
<1>4. ASSUME NEW d \in Callers PROVE CallerInv(d, call[d])'
  <2>1. i # d
    BY SMTT(60), CallersAreNoInstances DEF Instances
  <2>2. call[d].pc = "spawn" => descriptor' = descriptor
    BY <1>1, <2>1 DEF DaemonInv, CallerInv, Holdings, LockInv, Running
  <2>3. \A j \in Instances :
            /\ phase[j] # "unborn" => phase'[j] # "unborn"
            /\ phase[j] \in Ended => phase'[j] \in Ended
            /\ phase[j] = "dead" => phase'[j] = "dead"
            /\ phase[j] # "unborn" /\ phase'[j] \in Coming => phase[j] \in Coming
            /\ phase'[j] \in Coming /\ j \in requests => j \in requests'
    BY Zenon, <1>1
  <2>4. Quiet(d)
    BY Zenon, <1>1, <2>1, <2>2, <2>3 DEF Quiet, Moves
  <2> QED BY <2>4, QuietKeeps DEF DaemonInv, Moves
<1> QED BY <1>1, <1>2, <1>3, <1>4

\* The files suit every instance if they suit the one that runs.
LEMMA FilesKeep ==
    ASSUME DaemonInv, NEW i \in Instances, Running(i), \A j \in Instances \ {i} : phase'[j] = phase[j],
           Published(i)', Born(descriptor)'
    PROVE  FilesInv'
<1> SUFFICES ASSUME NEW j \in Instances, j # i PROVE Published(j)'
  BY DEF FilesInv
<1>1. phase'[j] \in Ended \cup {"unborn"}
  BY Zenon, OneRuns DEF Running
<1> QED BY Zenon, <1>1 DEF Published, Ended, Starting

\* A running instance moves on, the files it leaves suit it, and the types stay.
LEMMA RunnerKeeps ==
    ASSUME DaemonInv, NEW i \in Instances, NEW from \in Phases \ (Ended \cup {"unborn"}),
           NEW to \in Phases, Moves(i, from, to),
           to # "unborn", to \in Coming => from \in Coming /\ requests' = requests,
           requests' = requests \/ requests' = requests \ {i},
           \A j : <<j, "launch">> \in snapshots' => <<j, "launch">> \in snapshots,
           instanceLock' = IF to \in Ended THEN instanceLock \ {i} ELSE instanceLock,
           guardian' \in Instances \cup {NONE}, pidFile' \in Instances \cup {NONE},
           descriptor' \in Descriptor \cup {NONE}, snapshots' \subseteq Instances \X {"launch", "current"},
           phase'[i] = to /\ phase[i] = from => Published(i)',
           descriptor' \in {descriptor, NONE} \/ OfInstance(descriptor', i)
    PROVE  DaemonInv'
<1>1. /\ LockInv' /\ RequestsAreOwned' /\ \A d \in Callers : CallerInv(d, call[d])'
      /\ phase' \in [Instances -> Phases] /\ phase'[i] = to
      /\ \A j \in Instances \ {i} : phase'[j] = phase[j]
  BY Zenon, InstanceKeeps DEF Ended
<1>2. phase[i] = from
  BY Zenon DEF Moves
<1>3. Born(descriptor)'
  <2>1. \A j \in Instances : phase[j] # "unborn" => phase'[j] # "unborn"
    BY <1>1
  <2> QED BY Zenon, <1>1, <2>1 DEF DaemonInv, FilesInv, Born, OfInstance, TypeOK, Descriptor
<1>4. FilesInv'
  BY Zenon, <1>1, <1>2, <1>3, FilesKeep DEF Running
<1>5. TypeOK'
  BY <1>1 DEF DaemonInv, TypeOK, Moves
<1> QED BY <1>1, <1>4, <1>5 DEF DaemonInv

\* A descriptor an instance writes.
LEMMA Written ==
    ASSUME NEW i \in Instances, NEW ready \in BOOLEAN, NEW kind \in {"launch", "current"},
           descriptor' = [nonce |-> i, ready |-> ready, snapshot |-> kind]
    PROVE  /\ descriptor' \in Descriptor /\ descriptor' # NONE
           /\ descriptor'.nonce = i /\ descriptor'.ready = ready /\ descriptor'.snapshot = kind
<1>1. descriptor' \in [nonce : Nat, ready : BOOLEAN, snapshot : {"launch", "current"}]
  BY DEF Instances
<1> QED BY Zenon, <1>1, NoneAssumption DEF Descriptor

\* Every step of an instance keeps the invariant.
LEMMA InstanceStepInv ==
    ASSUME DaemonInv, NEW i \in Instances, InstanceStep(i) \/ ServingEnds(i) \/ KillInstance(i)
    PROVE  DaemonInv'
<1>0. Published(i) /\ TypeOK
  BY SMTT(60) DEF DaemonInv, FilesInv
<1> USE DEF Phases, Ended, Coming, Starting, files
<1>1. CASE TakeGuardian(i)
  BY SMTT(60), <1>0, <1>1, RunnerKeeps DEF TakeGuardian, TypeOK, Published, Ready
<1>2. CASE WritePid(i)
  BY Zenon, <1>0, <1>2, RunnerKeeps DEF WritePid, TypeOK, Published, Ready
<1>3. CASE PublishUnready(i)
  <2>1. /\ descriptor' \in Descriptor /\ descriptor' # NONE
        /\ descriptor'.nonce = i /\ ~descriptor'.ready
    BY Zenon, <1>3, Written DEF PublishUnready
  <2>2. Moves(i, "named", "announced") /\ UNCHANGED <<instanceLock, guardian, pidFile, snapshots, requests>>
    BY Zenon, <1>3 DEF PublishUnready
  <2>3. phase[i] = "named" /\ phase'[i] = "announced" => Published(i)'
    BY Zenon, <1>0, <2>1, <2>2 DEF Published, OfInstance
  <2> QED BY ZenonT(40), <1>0, <2>1, <2>2, <2>3, RunnerKeeps DEF TypeOK, OfInstance
<1>4. CASE SaveCurrent(i)
  <2>1. /\ Moves(i, "announced", "frozen") /\ UNCHANGED <<instanceLock, guardian, pidFile, descriptor, requests>>
        /\ snapshots' = snapshots \cup {<<i, "current">>}
    BY Zenon, <1>4 DEF SaveCurrent
  <2>2. phase[i] = "announced" /\ phase'[i] = "frozen" => Published(i)'
    BY Zenon, <1>0, <2>1 DEF Published, OfInstance
  <2>3. /\ \A j : <<j, "launch">> \in snapshots' => <<j, "launch">> \in snapshots
        /\ snapshots' \subseteq Instances \X {"launch", "current"}
    BY <1>0, <2>1 DEF TypeOK
  <2> QED BY Zenon, <1>0, <2>1, <2>2, <2>3, RunnerKeeps DEF TypeOK
<1>5. CASE PublishReady(i)
  <2>1. PICK from \in {"announced", "frozen"} :
            /\ Moves(i, from, "serving") /\ UNCHANGED <<instanceLock, guardian, pidFile, snapshots, requests>>
            /\ descriptor' = [nonce |-> i, ready |-> TRUE,
                              snapshot |-> IF from = "frozen" THEN "current" ELSE "launch"]
    BY Zenon, <1>5 DEF PublishReady
  <2>2. /\ descriptor' \in Descriptor /\ descriptor' # NONE /\ descriptor'.nonce = i /\ descriptor'.ready
        /\ descriptor'.snapshot = IF from = "frozen" THEN "current" ELSE "launch"
    BY Zenon, <2>1, Written
  <2>3. phase[i] = from /\ phase'[i] = "serving" => Published(i)'
    BY ZenonT(40), <1>0, <2>1, <2>2 DEF Published, OfInstance, PreparedFor
  <2> QED BY Zenon, <1>0, <2>1, <2>2, <2>3, RunnerKeeps DEF TypeOK, OfInstance
<1>6. CASE StartupFails(i)
  BY SMTT(60), <1>0, <1>6, RunnerKeeps DEF StartupFails, TypeOK, Published
<1>7. CASE TakeRequest(i)
  BY ZenonT(40), <1>0, <1>7, RunnerKeeps DEF TakeRequest, TypeOK, Published
<1>8. CASE RemoveDescriptor(i)
  BY ZenonT(40), <1>0, <1>8, RunnerKeeps DEF RemoveDescriptor, TypeOK, Published, Released
<1>9. CASE RemoveNames(i)
  BY Zenon, <1>0, <1>9, RunnerKeeps DEF RemoveNames, TypeOK, Published
<1>10. CASE Release(i)
  BY Zenon, <1>0, <1>10, RunnerKeeps DEF Release, TypeOK, Published, Released
<1>11. CASE Exit(i)
  <2>1. i \notin instanceLock
    BY Zenon, <1>11 DEF Exit, Moves, DaemonInv, LockInv, Running
  <2>2. /\ LockInv' /\ RequestsAreOwned' /\ \A d \in Callers : CallerInv(d, call[d])'
        /\ phase' \in [Instances -> Phases] /\ phase'[i] = "dead"
        /\ \A j \in Instances \ {i} : phase'[j] = phase[j]
    BY ZenonT(40), <1>11, <2>1, InstanceKeeps DEF Exit
  <2>3. FilesInv'
    BY <1>11, <2>2 DEF Exit, Moves, DaemonInv, FilesInv, Published, Born, Ready, OfInstance, PreparedFor
  <2>4. TypeOK'
    BY <1>11, <2>2 DEF Exit, Moves, DaemonInv, TypeOK
  <2> QED BY <2>2, <2>3, <2>4 DEF DaemonInv
<1>12. CASE ServingEnds(i)
  BY Zenon, <1>0, <1>12, RunnerKeeps DEF ServingEnds, TypeOK, Published
<1>13. CASE KillInstance(i)
  BY Zenon, <1>0, <1>13, RunnerKeeps DEF KillInstance, TypeOK, Published, Released
<1> QED BY ZenonT(40), <1>1, <1>2, <1>3, <1>4, <1>5, <1>6, <1>7, <1>8, <1>9, <1>10, <1>11, <1>12, <1>13
        DEF InstanceStep
-----------------------------------------------------------------------------
(* lock_held and observe. *)

\* The record of a caller before a step.
LEMMA Before ==
    ASSUME DaemonInv, NEW c \in Callers
    PROVE  call \in [Callers -> Call] /\ call[c] \in Call /\ CallerInv(c, call[c])
BY Zenon DEF DaemonInv, TypeOK

\* A command that moves on by itself.
LEMMA MoveKeeps ==
    ASSUME DaemonInv, NEW c \in Callers, Beside, Alone(c), Same(call[c], call'[c]),
           call[c].pc \notin {"done", "poll"}, call'[c].pc \notin {"clean", "spawn", "poll", "done"},
           call'[c].ret \in ReturnLabels, Born(call'[c].seen),
           Within(call'[c], {"request", "poll", "settle"}) => stopLock = c,
           Within(call'[c], {"stopLock", "request", "poll", "settle"}) => call[c].captured # NONE,
           Within(call[c], {"await"}) => Within(call'[c], {"await"}),
           Within(call[c], Launching) => Within(call'[c], Launching),
           Within(call'[c], Launching) => \/ Within(call[c], Launching) \/ call[c].op # "restart"
                                          \/ call[c].captured = NONE
                                          \/ phase[call[c].captured.nonce] \in Ended
    PROVE  DaemonInv'
<1>1. PICK r \in Call, s \in Call : r = call[c] /\ s = call'[c]
  BY Before DEF Alone
<1>2. CallerInv(c, s)
  BY ZenonT(40), <1>1, Before, MovesOn
<1> QED BY Zenon, <1>1, <1>2, BesideKeeps DEF At

\* observe moves on to another of its own steps.
LEMMA ObservingKeeps ==
    ASSUME DaemonInv, NEW c \in Callers, CallOnly, Alone(c), Same(call[c], call'[c]),
           call[c].pc \in Observing, call'[c].pc \in Observing, call'[c].ret = call[c].ret,
           Born(call'[c].seen)
    PROVE  DaemonInv'
<1>1. \A L \in SUBSET (ReturnLabels \cup Launching \cup {"stopLock", "poll", "settle"}) :
          Within(call'[c], L) <=> Within(call[c], L)
  BY Zenon DEF Within, Observing, ReturnLabels, Launching
<1>2. CallerInv(c, call[c])
  BY Zenon, Before
<1> QED BY Zenon, <1>1, <1>2, CallOnlyIsBeside, MoveKeeps DEF CallerInv, References, Holdings, Observing, Within

\* observe answers.
LEMMA ObservedKeeps ==
    ASSUME DaemonInv, NEW c \in Callers, NEW d \in Descriptor \cup {NONE}, Observed(c, d),
           call[c].pc \in Observing, Born(d)
    PROVE  DaemonInv'
<1>0. call \in [Callers -> Call] /\ call[c] \in Call /\ CallerInv(c, call[c])
  BY Zenon, Before
<1>1. call[c].ret \in ReturnLabels /\ "idle" \in Labels /\ call[c].ret \in Labels
  BY Zenon, <1>0, CallFields DEF CallerInv, References, Labels
<1>2. /\ Alone(c) /\ KeepsCommand(c) /\ KeepsChild(c)
      /\ call'[c].pc = call[c].ret /\ call'[c].seen = d /\ call'[c].ret = "idle"
  BY ZenonT(40), <1>0, <1>1, ReadMoves DEF Observed
<1>3. Same(call[c], call'[c])
  BY Zenon, <1>2 DEF Same, KeepsCommand, KeepsChild
<1>4. \A L \in SUBSET (Launching \cup {"request", "stopLock", "poll", "settle"}) :
          Within(call'[c], L) <=> Within(call[c], L)
  BY Zenon, <1>1, <1>2 DEF Within, Observing, ReturnLabels, Launching
<1>5. call'[c].pc \notin {"clean", "spawn", "poll", "done"} /\ call'[c].ret \in ReturnLabels
  BY <1>1, <1>2 DEF ReturnLabels
<1>6. CallOnly /\ call[c].pc \notin {"done", "poll"}
  BY DEF Observed, Observing
<1> QED BY ZenonT(40), <1>0, <1>2, <1>3, <1>4, <1>5, <1>6, CallOnlyIsBeside, MoveKeeps DEF CallerInv, Holdings, Launching

\* Fail: an error in observe or in a launch.
LEMMA FailKeeps ==
    ASSUME DaemonInv, NEW c \in Callers, Fail(c), call[c].pc # "done"
    PROVE  DaemonInv'
<1>1. CASE Within(call[c], Launching)
  BY <1>1, StartFailedKeeps DEF Fail, Within
<1>2. CASE ~Within(call[c], Launching)
  <2>1. Finish(c, "failed")
    BY <1>2 DEF Fail, Within
  <2>2. call[c].child = NONE
    BY Zenon, <1>2, Before DEF CallerInv, Launches, Within, Launching
  <2> QED BY Zenon, <2>1, <2>2, FinishKeeps DEF Results
<1> QED BY Zenon, <1>1, <1>2

\* The steps of observe.
LEMMA ObserveStepInv ==
    ASSUME DaemonInv, NEW c \in Callers, ReadDescriptor(c) \/ ProbeOwner(c) \/ Confirm(c)
    PROVE  DaemonInv'
<1>0. call \in [Callers -> Call] /\ call[c] \in Call /\ CallerInv(c, call[c])
  BY Zenon, Before
<1>d. /\ descriptor \in Descriptor \cup {NONE} /\ Born(descriptor)
      /\ call[c].seen \in Descriptor \cup {NONE} /\ Born(call[c].seen)
  BY <1>0, CallFields DEF DaemonInv, TypeOK, FilesInv, CallerInv, References
<1>L. "probe" \in Labels /\ "confirm" \in Labels /\ "observe" \in Labels
  BY Zenon DEF Labels
<1>1. CASE ReadDescriptor(c)
  <2>1. PICK r \in Call : r = call[c]
    BY <1>0
  <2>2. PICK d \in Descriptor \cup {NONE} : d = descriptor
    BY <1>d
  <2> DEFINE s == [r EXCEPT !.seen = d, !.pc = "probe"]
  <2>3. s \in Call
    BY Zenon, <1>L DEF Call
  <2>4. /\ s.pc = "probe" /\ s.ret = r.ret /\ s.seen = d /\ Same(r, s)
    BY DEF Same, Call
  <2>5. call' = [call EXCEPT ![c] = s] /\ CallOnly /\ r.pc = "observe"
    BY Zenon, <1>1, <2>1, <2>2 DEF ReadDescriptor, At
  <2>6. Alone(c) /\ call'[c] = s
    BY Zenon, <1>0, <2>3, <2>5, Replaced
  <2> HIDE DEF s
  <2> QED BY Zenon, <1>d, <2>1, <2>2, <2>4, <2>5, <2>6, ObservingKeeps DEF Observing
<1>2. CASE ProbeOwner(c)
  <2>1. call[c].pc = "probe"
    BY Zenon, <1>2 DEF ProbeOwner, At
  <2>2. CASE call' = [call EXCEPT ![c].pc = "confirm"] /\ CallOnly
    <3>1. PICK r \in Call : r = call[c]
      BY <1>0
    <3> DEFINE s == [r EXCEPT !.pc = "confirm"]
    <3>3. s \in Call
      BY <1>L DEF Call
    <3>4. /\ s.pc = "confirm" /\ s.ret = r.ret /\ s.seen = r.seen /\ Same(r, s)
      BY DEF Same, Call
    <3>5. call' = [call EXCEPT ![c] = s]
      BY Zenon, <2>2, <3>1
    <3>6. Alone(c) /\ call'[c] = s
      BY Zenon, <1>0, <3>3, <3>5, Replaced
    <3> HIDE DEF s
    <3> QED BY Zenon, <1>d, <2>1, <2>2, <3>1, <3>4, <3>6, ObservingKeeps DEF Observing
  <2>3. CASE Fail(c)
    BY Zenon, <2>1, <2>3, FailKeeps
  <2>4. CASE Observed(c, NONE)
    BY Zenon, <2>1, <2>4, ObservedKeeps DEF Observing, Born
  <2> QED BY Zenon, <1>2, <2>2, <2>3, <2>4 DEF ProbeOwner
<1>3. CASE Confirm(c)
  <2>1. call[c].pc = "confirm"
    BY Zenon, <1>3 DEF Confirm, At
  <2>2. CASE Observed(c, call[c].seen)
    BY Zenon, <1>d, <2>1, <2>2, ObservedKeeps DEF Observing
  <2>3. CASE Goto(c, "observe") /\ CallOnly
    <3>1. /\ Alone(c) /\ KeepsCommand(c) /\ KeepsChild(c)
          /\ call'[c].pc = "observe" /\ call'[c].seen = NONE /\ call'[c].ret = call[c].ret
      BY Zenon, <1>0, <1>L, <2>3, GotoMoves
    <3> QED BY Zenon, <2>1, <2>3, <3>1, ObservingKeeps DEF Observing, Same, KeepsCommand, KeepsChild, Born
  <2>4. CASE Fail(c)
    BY Zenon, <2>1, <2>4, FailKeeps
  <2> QED BY Zenon, <1>3, <2>2, <2>3, <2>4 DEF Confirm
<1> QED BY Zenon, <1>1, <1>2, <1>3
-----------------------------------------------------------------------------
(* start and run_foreground; a restart enters at "acquire". *)

\* A command begins, or is forgotten: it holds nothing yet.
LEMMA FreshKeeps ==
    ASSUME NEW c \in Callers, NEW s \in Call, s.pc \in {"idle", "launch", "observe"},
           s.ret \in {"captured", "found", "status", "idle"},
           s.seen = NONE, s.captured = NONE, s.child = NONE, s.stage = "target"
    PROVE  CallerInv(c, s)
BY Zenon DEF CallerInv, References, Holdings, Armament, Launches, Endings, Born, ReturnLabels, Within,
       Observing, Launching

\* A command that starts keeps the invariant.
LEMMA BeginInv ==
    ASSUME DaemonInv, NEW c \in Callers, Commands(c)
    PROVE  DaemonInv'
<1>0. call \in [Callers -> Call] /\ call[c] \in Call /\ CallerInv(c, call[c])
  BY Before
<1>1. PICK op \in Operations, q \in Payloads : Begin(c, op, IF op \in {"stop", "status"} THEN NONE ELSE q)
  BY DEF Commands
<1>2. PICK p \in Payloads \cup {NONE} : p = IF op \in {"stop", "status"} THEN NONE ELSE q
  OBVIOUS
<1>3. PICK pc \in {"launch", "observe"} : pc = IF op \in {"start", "foreground"} THEN "launch" ELSE "observe"
  OBVIOUS
<1>4. PICK ret \in {"captured", "found", "status", "idle"} :
          ret = CASE op = "restart" -> "captured"
                  [] op = "stop" -> "found"
                  [] op = "status" -> "status"
                  [] OTHER -> "idle"
  <2> DEFINE e == CASE op = "restart" -> "captured" [] op = "stop" -> "found"
                    [] op = "status" -> "status" [] OTHER -> "idle"
  <2>1. e \in {"captured", "found", "status", "idle"}
    BY Zenon
  <2> QED BY <2>1
<1> DEFINE s == [Idle EXCEPT !.op = op, !.want = p, !.pc = pc, !.ret = ret]
<1>5. s \in Call
  <2>1. {pc, ret, "idle"} \subseteq Labels /\ op \in {"start", "foreground", "stop", "restart", "status"}
    BY OperationsAssumption DEF Labels
  <2> QED BY Zenon, <2>1 DEF Idle, Call
<1>6. s.pc = pc /\ s.ret = ret /\ s.seen = NONE /\ s.captured = NONE /\ s.child = NONE /\ s.stage = "target"
  BY Zenon DEF Idle
<1>7. call' = [call EXCEPT ![c] = s] /\ CallOnly /\ call[c].pc = "idle"
  BY <1>1, <1>2, <1>3, <1>4 DEF Begin, At
<1>8. CallerInv(c, s)
  BY Zenon, <1>5, <1>6, FreshKeeps
<1>9. Alone(c) /\ call'[c] = s
  BY Zenon, <1>0, <1>5, <1>7, Replaced
<1> HIDE DEF s
<1> QED BY Zenon, <1>7, <1>8, <1>9, CallOnlyIsBeside, BesideKeeps DEF At

\* The command returns or is killed; a request it cannot revoke is an orphan's.
LEMMA ForgetInv ==
    ASSUME DaemonInv, NEW c \in Callers, Return(c) \/ KillCaller(c)
    PROVE  DaemonInv'
<1> USE DEF files, instances
<1>0. call \in [Callers -> Call] /\ call[c] \in Call /\ CallerInv(c, call[c])
  BY Before
<1>1. PICK s \in Call : s = Idle
  <2>1. "idle" \in Labels
    BY DEF Labels
  <2> QED BY Zenon, <2>1 DEF Idle, Call
<1>2. s.pc = "idle" /\ s.ret = "idle" /\ s.seen = NONE /\ s.captured = NONE /\ s.child = NONE /\ s.stage = "target"
  BY Zenon, <1>1 DEF Idle
<1>3. call' = [call EXCEPT ![c] = s]
  BY <1>1 DEF Return, KillCaller
<1>4. Alone(c) /\ call'[c] = s
  BY Zenon, <1>0, <1>3, Replaced
<1>5. CASE Return(c)
  <2>1. CallerInv(c, s)
    BY Zenon, <1>2, FreshKeeps
  <2> QED BY Zenon, <1>4, <1>5, <2>1, CallOnlyIsBeside, BesideKeeps DEF Return, At
<1>6. CASE KillCaller(c)
  <2>1. TypeOK'
    BY Zenon, <1>4, <1>6 DEF DaemonInv, TypeOK, Alone, KillCaller, Released, Armed
  <2>2. LockInv'
    BY SMTT(60), <1>6, CallersAreNoInstances DEF DaemonInv, LockInv, KillCaller, Running, Instances
  <2>3. FilesInv'
    BY Zenon, <1>6 DEF DaemonInv, FilesInv, Published, Born, Ready, OfInstance, PreparedFor, KillCaller
  <2>4. ASSUME NEW d \in Callers PROVE CallerInv(d, call[d])'
    <3>1. CASE d = c
      <4>1. CallerInv(c, s)'
        BY Zenon, <1>2 DEF CallerInv, References, Holdings, Armament, Launches, Endings, Born, ReturnLabels, Within,
               Observing, Launching
      <4> QED BY Zenon, <1>4, <3>1, <4>1
    <3>2. CASE d # c
      <4>1. Quiet(d)
        BY Zenon, <1>6, <3>2 DEF Quiet, KillCaller, Released
      <4> QED BY Zenon, <3>2, <4>1, <1>4, QuietKeeps DEF DaemonInv, Alone
    <3> QED BY <3>1, <3>2
  <2>5. RequestsAreOwned'
    BY Zenon, <1>4, <1>6, StillOwned DEF KillCaller
  <2> QED BY SMTT(60), <2>1, <2>2, <2>3, <2>4, <2>5 DEF DaemonInv
<1> QED BY Zenon, <1>5, <1>6

\* A command takes the launch lock, or does not get it in time.
LEMMA LaunchInv ==
    ASSUME DaemonInv, NEW c \in Callers, TakeLaunchLock(c) \/ LaunchLockTimeout(c)
    PROVE  DaemonInv'
<1>0. call \in [Callers -> Call] /\ call[c] \in Call /\ CallerInv(c, call[c]) /\ call[c].pc = "launch"
  BY Zenon, Before DEF TakeLaunchLock, LaunchLockTimeout, At
<1>1. ~Within(call[c], Launching) /\ ~Within(call[c], {"await"}) /\ call[c].child = NONE
  BY <1>0 DEF CallerInv, Launches, Within, Launching, Observing
<1>2. CASE LaunchLockTimeout(c)
  BY ZenonT(40), <1>1, <1>2, FinishKeeps DEF LaunchLockTimeout, Results
<1>3. CASE TakeLaunchLock(c) /\ call[c].op = "restart"
  <2>1. "replace" \in Labels
    BY Zenon DEF Labels
  <2>2. /\ Alone(c) /\ KeepsCommand(c) /\ KeepsChild(c)
        /\ call'[c].pc = "observe" /\ call'[c].seen = NONE /\ call'[c].ret = "replace"
    BY Zenon, <1>0, <1>3, <2>1, ObserveMoves DEF TakeLaunchLock
  <2>3. Beside
    BY ZenonT(40), <1>3 DEF Beside, TakeLaunchLock
  <2> QED BY Zenon, <1>0, <1>1, <2>2, <2>3, MoveKeeps
          DEF Same, KeepsCommand, KeepsChild, Within, Observing, Launching, ReturnLabels, Born
<1>4. CASE TakeLaunchLock(c) /\ call[c].op # "restart"
  <2>1. "acquire" \in Labels
    BY Zenon DEF Labels
  <2>2. /\ Alone(c) /\ KeepsCommand(c) /\ KeepsChild(c)
        /\ call'[c].pc = "observe" /\ call'[c].seen = NONE /\ call'[c].ret = "acquire"
    BY Zenon, <1>0, <1>4, <2>1, ObserveMoves DEF TakeLaunchLock
  <2>3. Beside
    BY Zenon, <1>4 DEF Beside, TakeLaunchLock
  <2> QED BY Zenon, <1>0, <1>1, <1>4, <2>2, <2>3, MoveKeeps
          DEF Same, KeepsCommand, KeepsChild, Within, Observing, Launching, ReturnLabels, Born
<1> QED BY Zenon, <1>2, <1>3, <1>4

\* The instance that observe answered becomes the one the call acts on.
LEMMA CaptureKeeps ==
    ASSUME DaemonInv, NEW c \in Callers, CallOnly, Alone(c), KeepsChild(c),
           call'[c].op = call[c].op, call'[c].captured = call[c].seen, call'[c].seen = NONE,
           call'[c].ret \in ReturnLabels,
           \/ /\ call[c].pc = "acquire" /\ call'[c].pc = "observe" /\ call'[c].ret = "running"
              /\ call[c].op # "restart" /\ call[c].seen # NONE
           \/ call[c].pc = "found" /\ call'[c].pc = "stopLock" /\ call[c].seen # NONE
           \/ call[c].pc = "captured" /\ call'[c].pc = "observe" /\ call'[c].ret = "recaptured"
    PROVE  DaemonInv'
<1>1. PICK r \in Call, s \in Call : r = call[c] /\ s = call'[c]
  BY Before DEF Alone
<1>2. CallerInv(c, r)
  BY Zenon, <1>1, Before
<1>3. References(s)
  BY Zenon, <1>1, <1>2 DEF CallerInv, References, KeepsChild, Born
<1>4. Holdings(c, s) /\ Armament(s)
  BY Zenon, <1>1, <1>2 DEF CallerInv, Holdings, Armament, KeepsChild, Within, Observing, Launching
<1>5. Launches(s)
  BY Zenon, <1>1, <1>2 DEF CallerInv, Launches, KeepsChild, Within, Observing
<1>6. Endings(s)
  BY Zenon, <1>1, <1>2 DEF CallerInv, Endings, Launches, KeepsChild, Within, Observing, Launching
<1>7. CallerInv(c, s)
  BY Zenon, <1>3, <1>4, <1>5, <1>6 DEF CallerInv
<1> QED BY Zenon, <1>1, <1>7, CallOnlyIsBeside, BesideKeeps DEF At

\* acquire_start's loop, its deadline, and its answer that an instance runs.
LEMMA AcquireInv ==
    ASSUME DaemonInv, NEW c \in Callers, AcquireStart(c) \/ AcquireDeadline(c) \/ AlreadyRunning(c)
    PROVE  DaemonInv'
<1>0. call \in [Callers -> Call] /\ call[c] \in Call /\ CallerInv(c, call[c]) /\ call[c].pc \in {"acquire", "running"}
  BY ZenonT(40), Before DEF AcquireStart, AcquireDeadline, AlreadyRunning, At
<1>1. Within(call[c], Launching) /\ ~Within(call[c], {"await"})
  BY <1>0 DEF Within, Launching, Observing
<1>L. {"acquire", "observe", "running", "take"} \subseteq Labels
  BY Zenon DEF Labels
<1>2. CASE StartFailed(c)
  BY Zenon, <1>1, <1>2, StartFailedKeeps
<1>3. CASE Finish(c, "running")
  BY Zenon, <1>3, FinishKeeps DEF Results
<1>4. CASE /\ call[c].pc = "acquire" /\ Ready(call[c].seen) /\ call[c].op # "restart" /\ CallOnly
           /\ call' = [call EXCEPT ![c].captured = call[c].seen, ![c].pc = "observe",
                                   ![c].ret = "running", ![c].seen = NONE]
  <2>1. /\ Alone(c) /\ KeepsChild(c) /\ call'[c].op = call[c].op /\ call'[c].captured = call[c].seen
        /\ call'[c].pc = "observe" /\ call'[c].seen = NONE /\ call'[c].ret = "running"
    BY ZenonT(40), <1>0, <1>4, <1>L, CaptureMoves
  <2> QED BY Zenon, <1>4, <2>1, CaptureKeeps DEF Ready, ReturnLabels
<1>5. CASE Observe(c, "acquire") /\ CallOnly
  <2>1. /\ Alone(c) /\ KeepsCommand(c) /\ KeepsChild(c)
        /\ call'[c].pc = "observe" /\ call'[c].seen = NONE /\ call'[c].ret = "acquire"
    BY Zenon, <1>0, <1>5, <1>L, ObserveMoves
  <2> QED BY Zenon, <1>0, <1>1, <1>5, <2>1, CallOnlyIsBeside, MoveKeeps
          DEF Same, KeepsCommand, KeepsChild, Within, Observing, Launching, ReturnLabels, Born
<1>6. CASE Goto(c, "take") /\ CallOnly
  <2>1. /\ Alone(c) /\ KeepsCommand(c) /\ KeepsChild(c)
        /\ call'[c].pc = "take" /\ call'[c].seen = NONE /\ call'[c].ret = call[c].ret
    BY Zenon, <1>0, <1>6, <1>L, GotoMoves
  <2> QED BY Zenon, <1>0, <1>1, <1>6, <2>1, CallOnlyIsBeside, MoveKeeps
          DEF Same, KeepsCommand, KeepsChild, Within, Observing, Launching, CallerInv, References, Born
<1>7. CASE AcquireStart(c)
  BY Zenon, <1>2, <1>4, <1>5, <1>6, <1>7 DEF AcquireStart, At
<1>8. CASE AcquireDeadline(c)
  BY Zenon, <1>2, <1>8 DEF AcquireDeadline
<1>9. CASE AlreadyRunning(c)
  BY Zenon, <1>2, <1>3, <1>9 DEF AlreadyRunning
<1> QED BY <1>7, <1>8, <1>9

\* The lock of the runtime is taken only when it is free; otherwise the start fails.
LEMMA TakeInv ==
    ASSUME DaemonInv, NEW c \in Callers, TakeInstanceLock(c)
    PROVE  DaemonInv'
<1> USE DEF files, instances
<1>0. call \in [Callers -> Call] /\ call[c] \in Call /\ CallerInv(c, call[c]) /\ call[c].pc = "take"
  BY Zenon, Before DEF TakeInstanceLock, At
<1>1. CASE StartFailed(c)
  BY Zenon, <1>0, <1>1, StartFailedKeeps DEF Within, Launching
<1>2. CASE /\ instanceLock = {} /\ instanceLock' = {c} /\ Goto(c, "clean")
           /\ UNCHANGED <<launchLock, stopLock, guardian, files, requests, orphans, instances>>
  <2>L. "clean" \in Labels
    BY Zenon DEF Labels
  <2>a. /\ Alone(c) /\ KeepsCommand(c) /\ KeepsChild(c)
        /\ call'[c].pc = "clean" /\ call'[c].seen = NONE /\ call'[c].ret = call[c].ret
    BY Zenon, <1>0, <1>2, <2>L, GotoMoves
  <2>b. \A i \in Instances : phase[i] \in Ended \cup {"unborn"}
    BY ZenonT(40), <1>2, NobodyRuns
  <2>1. TypeOK'
    BY Zenon, <1>2, <2>a DEF DaemonInv, TypeOK, Alone
  <2>2. LockInv'
    BY SMTT(60), <1>2, <2>b, CallersAreNoInstances DEF LockInv, Running, Instances
  <2>3. FilesInv'
    BY Zenon, <1>2 DEF DaemonInv, FilesInv, Published, Born, Ready, OfInstance, PreparedFor
  <2>4. ASSUME NEW d \in Callers PROVE CallerInv(d, call[d])'
    <3>1. CASE d = c
      <4>1. PICK r \in Call, s \in Call : r = call[c] /\ s = call'[c]
        BY Zenon, <1>0, <2>a DEF Alone
      <4>2. References(s)' /\ Armament(s)'
        BY Zenon, <1>0, <1>2, <2>a, <4>1 DEF CallerInv, References, Armament, KeepsCommand, KeepsChild, Born
      <4>3. Holdings(c, s)'
        BY Zenon, <1>0, <1>2, <2>a, <4>1 DEF CallerInv, Holdings, KeepsCommand, KeepsChild, Within, Observing, Launching
      <4>4. Launches(s)' /\ Endings(s)'
        BY ZenonT(40), <1>0, <1>2, <2>a, <4>1
           DEF CallerInv, Launches, Endings, KeepsCommand, KeepsChild, Within, Observing, Launching
      <4> QED BY Zenon, <3>1, <4>1, <4>2, <4>3, <4>4 DEF CallerInv
    <3>2. CASE d # c
      <4>1. Quiet(d)
        BY Zenon, <1>2 DEF Quiet
      <4> QED BY Zenon, <3>2, <4>1, <2>a, QuietKeeps DEF DaemonInv, Alone
    <3> QED BY Zenon, <3>1, <3>2
  <2>5. RequestsAreOwned'
    BY ZenonT(40), <1>0, <1>2, <2>a, StillOwned DEF Armed, At
  <2> QED BY Zenon, <2>1, <2>2, <2>3, <2>4, <2>5 DEF DaemonInv
<1> QED BY Zenon, <1>1, <1>2 DEF TakeInstanceLock

\* What the last instance left is removed under the lock.
LEMMA CleanInv ==
    ASSUME DaemonInv, NEW c \in Callers, Clean(c)
    PROVE  DaemonInv'
<1> USE DEF files, instances
<1>0. call \in [Callers -> Call] /\ call[c] \in Call /\ CallerInv(c, call[c]) /\ call[c].pc = "clean"
  BY Zenon, Before DEF Clean, At
<1>u. UNCHANGED <<instanceLock, launchLock, stopLock, guardian, requests, orphans, instances>> /\ RemoveStale
  BY Zenon DEF Clean
<1>L. "spawn" \in Labels
  BY SMTT(60) DEF Labels
<1>a. /\ Alone(c) /\ KeepsCommand(c) /\ KeepsChild(c)
      /\ call'[c].pc = "spawn" /\ call'[c].seen = NONE /\ call'[c].ret = call[c].ret
  BY Zenon, <1>0, <1>L, GotoMoves DEF Clean
<1>b. instanceLock = {c}
  BY Zenon, <1>0 DEF CallerInv, Holdings
<1>c. \A i \in Instances : phase[i] \in Ended \cup {"unborn"}
  BY Zenon, <1>b, NobodyRuns
<1>d. /\ FilesInv' /\ snapshots' \subseteq snapshots /\ descriptor' = NONE
      /\ pidFile' \in Instances \cup {NONE}
  BY ZenonT(40), <1>u, <1>c, StaleKeeps
<1>1. TypeOK'
  BY ZenonT(40), <1>u, <1>a, <1>d DEF DaemonInv, TypeOK, Alone
<1>2. LockInv'
  BY Zenon, <1>u DEF DaemonInv, LockInv, Running
<1>3. ASSUME NEW d \in Callers PROVE CallerInv(d, call[d])'
  <2>1. CASE d = c
    <3>1. PICK r \in Call, s \in Call : r = call[c] /\ s = call'[c]
      BY Zenon, <1>0, <1>a DEF Alone
    <3>2. References(s)' /\ Armament(s)'
      BY Zenon, <1>0, <1>u, <1>a, <3>1 DEF CallerInv, References, Armament, KeepsCommand, KeepsChild, Born
    <3>3. Holdings(c, s)'
      BY ZenonT(40), <1>0, <1>u, <1>a, <1>b, <1>d, <3>1
         DEF CallerInv, Holdings, KeepsCommand, KeepsChild, Within, Observing, Launching
    <3>4. Launches(s)' /\ Endings(s)'
      BY ZenonT(40), <1>0, <1>u, <1>a, <3>1
         DEF CallerInv, Launches, Endings, KeepsCommand, KeepsChild, Within, Observing, Launching
    <3> QED BY Zenon, <2>1, <3>1, <3>2, <3>3, <3>4 DEF CallerInv
  <2>2. CASE d # c
    <3>1. Quiet(d)
      BY Zenon, <1>u, <1>d DEF Quiet
    <3> QED BY SMTT(60), <2>2, <3>1, <1>a, QuietKeeps DEF DaemonInv, Alone
  <2> QED BY Zenon, <2>1, <2>2
<1>4. RequestsAreOwned'
  BY ZenonT(40), <1>0, <1>u, <1>a, StillOwned DEF Armed, At
<1> QED BY Zenon, <1>1, <1>2, <1>3, <1>4, <1>d DEF DaemonInv

\* spawn_owned and run_foreground: the new instance has the lock from its launcher.
LEMMA SpawnInv ==
    ASSUME DaemonInv, NEW c \in Callers, Spawn(c)
    PROVE  DaemonInv'
<1>0. call \in [Callers -> Call] /\ call[c] \in Call /\ CallerInv(c, call[c]) /\ call[c].pc = "spawn"
  BY Before DEF Spawn, At
<1>1. PICK fg \in BOOLEAN : fg = (call[c].op = "foreground")
  BY Zenon
<1>2. PICK i \in Instances :
        /\ phase[i] = "unborn"
        /\ phase' = [phase EXCEPT ![i] = "spawned"]
        /\ payload' = [payload EXCEPT ![i] =
                         IF call[c].stage = "restore" THEN payload[call[c].captured.nonce]
                         ELSE call[c].want]
        /\ foreground' = IF fg THEN foreground \cup {i} ELSE foreground
        /\ snapshots' = snapshots \cup {<<i, "launch">>}
        /\ instanceLock' = {i}
        /\ launchLock' = IF fg THEN NONE ELSE launchLock
        /\ call' = [call EXCEPT ![c].child = i, ![c].want = NONE,
                                ![c].pc = IF fg THEN "done" ELSE "observe",
                                ![c].ret = IF fg THEN "idle" ELSE "await",
                                ![c].result = IF fg THEN "started" ELSE NONE]
  BY ZenonT(30), <1>1 DEF Spawn, Inherited
<1>3. UNCHANGED <<stopLock, guardian, pidFile, descriptor, requests, orphans>>
  BY DEF Spawn
<1>l. PICK pc \in Labels, ret \in Labels, result \in {"started", NONE} :
          /\ pc = IF fg THEN "done" ELSE "observe"
          /\ ret = IF fg THEN "idle" ELSE "await"
          /\ result = IF fg THEN "started" ELSE NONE
  BY DEF Labels
<1>m. (pc = "done" /\ ret = "idle" /\ result = "started") \/ (pc = "observe" /\ ret = "await")
  BY <1>l
<1>a. /\ Alone(c) /\ KeepsCommand(c) /\ call'[c].stage = call[c].stage /\ call'[c].child = i
      /\ call'[c].seen = call[c].seen
      /\ call'[c].pc = pc /\ call'[c].ret = ret /\ call'[c].result = result
  <2>1. call' = [call EXCEPT ![c].child = i, ![c].want = NONE,
                             ![c].pc = IF fg THEN "done" ELSE "observe",
                             ![c].ret = IF fg THEN "idle" ELSE "await",
                             ![c].result = IF fg THEN "started" ELSE NONE]
    BY <1>2, Zenon
  <2>2. call' = [call EXCEPT ![c].child = i, ![c].want = NONE, ![c].pc = pc, ![c].ret = ret,
                             ![c].result = result]
    BY <1>l, <2>1, Zenon
  <2>3. PICK r \in Call : r = call[c]
    BY <1>0
  <2> DEFINE s == [r EXCEPT !.child = i, !.want = NONE, !.pc = pc, !.ret = ret, !.result = result]
  <2>4. s \in Call
    BY ZenonT(40), <1>l, <1>2 DEF Call
  <2>5. call' = [call EXCEPT ![c] = s]
    BY Zenon, <2>2, <2>3
  <2>6. Alone(c) /\ call'[c] = s
    BY Zenon, <1>0, <2>4, <2>5, Replaced
  <2> QED BY <2>3, <2>6 DEF KeepsCommand, Call
<1>b. instanceLock = {c} /\ descriptor = NONE
  BY Zenon, <1>0 DEF CallerInv, Holdings
<1>c. \A j \in Instances : phase[j] \in Ended \cup {"unborn"}
  BY ZenonT(40), <1>b, NobodyRuns
<1>p. /\ phase' \in [Instances -> Phases] /\ phase'[i] = "spawned"
      /\ \A j \in Instances \ {i} : phase'[j] = phase[j]
  BY SMTT(60), <1>2 DEF DaemonInv, TypeOK, Phases
<1>4. TypeOK'
  <2>1. payload' \in [Instances -> Payloads \cup {NONE}]
    <3>1. call[c].stage = "restore" => call[c].captured.nonce \in Instances
      BY Zenon, <1>0, CallFields DEF CallerInv, Holdings
    <3>2. call[c].want \in Payloads \cup {NONE}
      BY Zenon, <1>0 DEF Call
    <3> QED BY ZenonT(40), <1>2, <3>1, <3>2 DEF DaemonInv, TypeOK
  <2>2. /\ instanceLock' \subseteq Callers \cup Instances /\ launchLock' \in Callers \cup {NONE}
        /\ snapshots' \subseteq Instances \X {"launch", "current"} /\ foreground' \subseteq Instances
    BY SMTT(60), <1>2 DEF DaemonInv, TypeOK
  <2> QED BY Zenon, <1>3, <1>a, <1>m, <1>p, <2>1, <2>2 DEF DaemonInv, TypeOK, Alone
<1>5. LockInv'
  BY Zenon, <1>2, <1>c, <1>p DEF LockInv, Running, Ended
<1>6. FilesInv'
  <2>1. Published(i)'
    BY SMTT(60), <1>2, <1>3, <1>b, <1>p DEF Published, Ready
  <2>2. ASSUME NEW j \in Instances, j # i PROVE Published(j)'
    BY Zenon, <1>c, <1>p, <2>2 DEF Published, Ended, Starting
  <2> QED BY SMTT(60), <1>3, <1>b, <2>1, <2>2 DEF FilesInv, Born
<1>7. ASSUME NEW d \in Callers PROVE CallerInv(d, call[d])'
  <2>1. CASE d = c
    <3>1. PICK r \in Call, s \in Call : r = call[c] /\ s = call'[c]
      BY ZenonT(40), <1>0, <1>a DEF Alone
    <3>f. /\ r.seen # NONE => r.seen.nonce \in Instances
          /\ r.captured # NONE => r.captured.nonce \in Instances
      BY ZenonT(40), CallFields
    <3>2. References(s)'
      BY SMTT(60), <1>0, <1>a, <1>m, <1>p, <3>1, <3>f DEF CallerInv, References, KeepsCommand, Born, ReturnLabels
    <3>3. Holdings(c, s)' /\ Armament(s)'
      BY Zenon, <1>0, <1>a, <1>m, <3>1 DEF CallerInv, Holdings, Armament, KeepsCommand, Within, Observing, Launching
    <3>4. Launches(s)'
      BY Zenon, <1>a, <1>m, <3>1 DEF Launches, Within, Observing
    <3>5. Endings(s)'
      <4>1. (s.op = "restart" /\ s.stage = "target" /\ s.captured # NONE) => phase'[s.captured.nonce] \in Ended
        BY ZenonT(40), <1>0, <1>2, <1>a, <1>m, <1>p, <3>1, <3>f
           DEF CallerInv, Endings, KeepsCommand, Within, Launching, Ended
      <4>2. ~(s.pc = "done" /\ s.result = "stopped")
        BY Zenon, <1>a, <1>m, <3>1
      <4> QED BY Zenon, <4>1, <4>2 DEF Endings
    <3> QED BY Zenon, <2>1, <3>1, <3>2, <3>3, <3>4, <3>5 DEF CallerInv
  <2>2. CASE d # c
    <3>1. Quiet(d)
      <4>1. instanceLock # {d}
        BY Zenon, <1>b, <2>2
      <4> QED BY Zenon, <1>2, <1>3, <1>p, <4>1 DEF Quiet, Ended
    <3> QED BY Zenon, <2>2, <3>1, <1>a, <1>m, QuietKeeps DEF DaemonInv, Alone
  <2> QED BY Zenon, <2>1, <2>2
<1>8. RequestsAreOwned'
  BY <1>0, <1>3, <1>a, <1>m, StillOwned DEF Armed, At
<1> QED BY Zenon, <1>4, <1>5, <1>6, <1>7, <1>8 DEF DaemonInv

\* spawn_owned's loop: the child is ready, is not, or is given up.
LEMMA AwaitInv ==
    ASSUME DaemonInv, NEW c \in Callers, SpawnFails(c) \/ AwaitReady(c) \/ ReadinessDeadline(c)
    PROVE  DaemonInv'
<1>0. call \in [Callers -> Call] /\ call[c] \in Call /\ CallerInv(c, call[c]) /\ call[c].pc \in {"spawn", "await"}
  BY Zenon, Before DEF SpawnFails, AwaitReady, ReadinessDeadline, At
<1>1. CASE StartFailed(c)
  BY Zenon, <1>0, <1>1, StartFailedKeeps DEF Within, Launching
<1>2. CASE AwaitReady(c) /\ ~StartFailed(c)
  <2>1. CASE Finish(c, IF call[c].stage = "restore" THEN "restored" ELSE "started")
    BY ZenonT(40), <2>1, FinishKeeps DEF Results
  <2>2. CASE call[c].pc = "await" /\ Observe(c, "await") /\ CallOnly
    <3>1. "await" \in Labels
      BY Zenon DEF Labels
    <3>2. /\ Alone(c) /\ KeepsCommand(c) /\ KeepsChild(c)
          /\ call'[c].pc = "observe" /\ call'[c].seen = NONE /\ call'[c].ret = "await"
      BY Zenon, <1>0, <2>2, <3>1, ObserveMoves
    <3> QED BY <2>2, <3>2, CallOnlyIsBeside, MoveKeeps
            DEF Same, KeepsCommand, KeepsChild, Within, Observing, Launching, ReturnLabels, Born
  <2> QED BY Zenon, <1>2, <2>1, <2>2 DEF AwaitReady, At
<1> QED BY Zenon, <1>1, <1>2 DEF SpawnFails, ReadinessDeadline
-----------------------------------------------------------------------------
(* stop, and the stop_instance that restart shares with it. *)

\* A command that waits for nothing it has launched.
LEMMA NotLaunching ==
    ASSUME DaemonInv, NEW c \in Callers,
           call[c].pc \in {"launch", "captured", "recaptured", "replace", "found", "stopLock", "request",
                           "poll", "settle", "status"}
    PROVE  ~Within(call[c], Launching) /\ ~Within(call[c], {"await"}) /\ call[c].child = NONE
BY Zenon, Before DEF CallerInv, Launches, Within, Launching, Observing

\* stop looks for the instance, waits for the stop lock, and looks again.
LEMMA StopInv ==
    ASSUME DaemonInv, NEW c \in Callers, StopFound(c) \/ StopLockTimeout(c) \/ SettleDeadline(c)
    PROVE  DaemonInv'
<1>0. /\ call \in [Callers -> Call] /\ call[c] \in Call /\ CallerInv(c, call[c])
      /\ call[c].pc \in {"found", "stopLock", "settle"}
  BY Zenon, Before DEF StopFound, StopLockTimeout, SettleDeadline, At
<1>1. call[c].child = NONE
  BY Zenon, <1>0, NotLaunching
<1>2. CASE Finish(c, "failed") \/ Finish(c, "deadline")
  BY Zenon, <1>1, <1>2, FinishKeeps DEF Results
<1>3. CASE CleanupStale(c, "reported")
  BY Zenon, <1>0, <1>1, <1>3, CleanupKeeps
<1>4. CASE /\ call[c].pc = "found" /\ call[c].seen # NONE /\ CallOnly
           /\ call' = [call EXCEPT ![c].captured = call[c].seen, ![c].pc = "stopLock", ![c].seen = NONE]
  <2>1. PICK r \in Call : r = call[c]
    BY Zenon, <1>0
  <2> DEFINE s == [r EXCEPT !.captured = r.seen, !.pc = "stopLock", !.seen = NONE]
  <2>2. s \in Call
    <3>1. "stopLock" \in Labels /\ r.seen \in Descriptor \cup {NONE}
      BY Zenon, CallFields DEF Labels
    <3> QED BY Zenon, <3>1 DEF Call
  <2>3. call' = [call EXCEPT ![c] = s]
    BY Zenon, <1>4, <2>1
  <2>4. Alone(c) /\ call'[c] = s
    BY Zenon, <1>0, <2>2, <2>3, Replaced
  <2>5. /\ KeepsChild(c) /\ call'[c].op = call[c].op /\ call'[c].captured = call[c].seen
        /\ call'[c].pc = "stopLock" /\ call'[c].seen = NONE /\ call'[c].ret = call[c].ret
    BY Zenon, <2>1, <2>4 DEF KeepsChild, Call
  <2>6. call[c].ret \in ReturnLabels
    BY <1>0 DEF CallerInv, References
  <2> HIDE DEF s
  <2> QED BY Zenon, <1>4, <2>4, <2>5, <2>6, CaptureKeeps
<1>5. CASE StopFound(c)
  BY Zenon, <1>2, <1>3, <1>4, <1>5 DEF StopFound, At
<1>6. CASE StopLockTimeout(c) \/ SettleDeadline(c)
  BY Zenon, <1>2, <1>6 DEF StopLockTimeout, SettleDeadline
<1> QED BY Zenon, <1>5, <1>6

\* The stop lock is taken when nobody has it.
LEMMA StopLockInv ==
    ASSUME DaemonInv, NEW c \in Callers, TakeStopLock(c)
    PROVE  DaemonInv'
<1> USE DEF files, instances
<1>0. call \in [Callers -> Call] /\ call[c] \in Call /\ CallerInv(c, call[c]) /\ call[c].pc = "stopLock"
  BY Zenon, Before DEF TakeStopLock, At
<1>u. /\ stopLock = NONE /\ stopLock' = c
      /\ UNCHANGED <<instanceLock, launchLock, guardian, files, requests, orphans, instances>>
  BY Zenon DEF TakeStopLock, StopLockFree
<1>L. "request" \in Labels
  BY SMTT(60) DEF Labels
<1>a. /\ Alone(c) /\ KeepsCommand(c) /\ KeepsChild(c)
      /\ call'[c].pc = "observe" /\ call'[c].seen = NONE /\ call'[c].ret = "request"
  BY Zenon, <1>0, <1>L, ObserveMoves DEF TakeStopLock
<1>n. ~Within(call[c], Launching) /\ call[c].child = NONE
  BY Zenon, <1>0, NotLaunching
<1>1. TypeOK'
  BY Zenon, <1>u, <1>a DEF DaemonInv, TypeOK, Alone
<1>2. LockInv' /\ FilesInv'
  BY <1>u DEF DaemonInv, LockInv, FilesInv, Published, Running, Born, Ready, OfInstance, PreparedFor
<1>3. ASSUME NEW d \in Callers PROVE CallerInv(d, call[d])'
  <2>1. CASE d = c
    <3>1. PICK r \in Call, s \in Call : r = call[c] /\ s = call'[c]
      BY Zenon, <1>0, <1>a DEF Alone
    <3>2. References(s)' /\ Armament(s)'
      BY Zenon, <1>0, <1>u, <1>a, <3>1 DEF CallerInv, References, Armament, KeepsCommand, KeepsChild, Born, ReturnLabels
    <3>3. Holdings(c, s)'
      BY Zenon, <1>0, <1>u, <1>a, <1>n, <3>1 DEF CallerInv, Holdings, KeepsCommand, KeepsChild, Within, Observing
    <3>4. Launches(s)' /\ Endings(s)'
      BY Zenon, <1>a, <1>n, <3>1 DEF Launches, Endings, KeepsCommand, KeepsChild, Within, Observing, Launching
    <3> QED BY <2>1, <3>1, <3>2, <3>3, <3>4 DEF CallerInv
  <2>2. CASE d # c
    <3>1. stopLock # d
      BY ZenonT(40), <1>u, NoneAssumption
    <3>2. Quiet(d)
      BY ZenonT(40), <1>u, <3>1 DEF Quiet
    <3> QED BY Zenon, <2>2, <3>2, <1>a, QuietKeeps DEF DaemonInv, Alone
  <2> QED BY <2>1, <2>2
<1>4. RequestsAreOwned'
  BY <1>0, <1>u, <1>a, StillOwned DEF Armed, At
<1> QED BY Zenon, <1>1, <1>2, <1>3, <1>4 DEF DaemonInv

\* The request is written for the instance that was captured, or the stop fails.
LEMMA RequestInv ==
    ASSUME DaemonInv, NEW c \in Callers, WriteRequest(c)
    PROVE  DaemonInv'
<1> USE DEF files, instances
<1>0. call \in [Callers -> Call] /\ call[c] \in Call /\ CallerInv(c, call[c]) /\ call[c].pc = "request"
  BY Zenon, Before DEF WriteRequest, At
<1>n. ~Within(call[c], Launching) /\ call[c].child = NONE
  BY ZenonT(40), <1>0, NotLaunching
<1>1. CASE Finish(c, "failed")
  BY Zenon, <1>1, <1>n, FinishKeeps DEF Results
<1>2. CASE /\ requests' = requests \cup {call[c].captured.nonce} /\ Goto(c, "poll")
           /\ UNCHANGED <<instanceLock, launchLock, stopLock, guardian, files, orphans, instances>>
  <2>L. "poll" \in Labels
    BY Zenon DEF Labels
  <2>a. /\ Alone(c) /\ KeepsCommand(c) /\ KeepsChild(c)
        /\ call'[c].pc = "poll" /\ call'[c].seen = NONE /\ call'[c].ret = call[c].ret
    BY Zenon, <1>0, <1>2, <2>L, GotoMoves
  <2>c. call[c].captured # NONE /\ call[c].captured.nonce \in Instances /\ stopLock = c
    BY Zenon, <1>0, CallFields DEF CallerInv, Holdings, Within
  <2>1. TypeOK'
    BY Zenon, <1>2, <2>a, <2>c DEF DaemonInv, TypeOK, Alone
  <2>2. LockInv' /\ FilesInv'
    BY Zenon, <1>2 DEF DaemonInv, LockInv, FilesInv, Published, Running, Born, Ready, OfInstance, PreparedFor
  <2>3. ASSUME NEW d \in Callers PROVE CallerInv(d, call[d])'
    <3>1. CASE d = c
      <4>1. PICK r \in Call, s \in Call : r = call[c] /\ s = call'[c]
        BY Zenon, <1>0, <2>a DEF Alone
      <4>2. References(s)' /\ Armament(s)'
        BY ZenonT(40), <1>0, <1>2, <2>a, <4>1 DEF CallerInv, References, Armament, KeepsCommand, KeepsChild, Born
      <4>3. Holdings(c, s)'
        BY ZenonT(40), <1>0, <1>2, <2>a, <2>c, <1>n, <4>1 DEF CallerInv, Holdings, KeepsCommand, KeepsChild, Within, Observing
      <4>4. Launches(s)' /\ Endings(s)'
        BY Zenon, <2>a, <1>n, <4>1 DEF Launches, Endings, KeepsCommand, KeepsChild, Within, Observing, Launching
      <4> QED BY <3>1, <4>1, <4>2, <4>3, <4>4 DEF CallerInv
    <3>2. CASE d # c
      <4>1. Quiet(d)
        BY Zenon, <1>2 DEF Quiet
      <4> QED BY Zenon, <3>2, <4>1, <2>a, QuietKeeps DEF DaemonInv, Alone
    <3> QED BY <3>1, <3>2
  <2>4. RequestsAreOwned'
    <3> SUFFICES ASSUME NEW i \in requests', i \notin orphans'
                 PROVE  \E d \in Callers : i \in Armed(d)'
      BY Zenon DEF RequestsAreOwned
    <3>1. CASE i = call[c].captured.nonce
      BY Zenon, <2>a, <3>1 DEF Armed, At, KeepsCommand
    <3>2. CASE i # call[c].captured.nonce
      <4>1. PICK d \in Callers : i \in Armed(d)
        BY Zenon, <1>2, <3>2 DEF DaemonInv, RequestsAreOwned
      <4>2. d # c
        BY Zenon, <1>0, <4>1 DEF Armed, At
      <4> QED BY Zenon, <2>a, <4>1, <4>2 DEF Armed, At, Alone
    <3> QED BY <3>1, <3>2
  <2> QED BY <2>1, <2>2, <2>3, <2>4 DEF DaemonInv
<1> QED BY ZenonT(40), <1>1, <1>2 DEF WriteRequest

\* The instance ended while the command waited.
LEMMA ConfirmedInv ==
    ASSUME DaemonInv, NEW c \in Callers, call[c].pc \in {"poll", "settle"}, instanceLock = {},
           StopConfirmed(c)
    PROVE  DaemonInv'
<1> USE DEF files, instances
<1>0. call \in [Callers -> Call] /\ call[c] \in Call /\ CallerInv(c, call[c])
  BY Before
<1>n. ~Within(call[c], Launching) /\ call[c].child = NONE
  BY Zenon, NotLaunching
<1>c. call[c].captured # NONE /\ call[c].captured.nonce \in Instances /\ stopLock = c
  BY Zenon, <1>0, CallFields DEF CallerInv, Holdings, Within
<1>e. phase[call[c].captured.nonce] \in Ended
  <2>1. \A i \in Instances : phase[i] \in Ended \cup {"unborn"}
    BY Zenon, NobodyRuns
  <2> QED BY <1>0, <1>c, <2>1 DEF CallerInv, References, Born
<1>1. CASE Finish(c, "stopped")
  BY Zenon, <1>1, <1>c, <1>e, FinishKeeps DEF Results
<1>2. CASE /\ Observe(c, "acquire") /\ stopLock' = NONE /\ requests' = requests \ Armed(c)
           /\ UNCHANGED <<instanceLock, launchLock, guardian, files, orphans, instances>>
  <2>L. "acquire" \in Labels
    BY Zenon DEF Labels
  <2>a. /\ Alone(c) /\ KeepsCommand(c) /\ KeepsChild(c)
        /\ call'[c].pc = "observe" /\ call'[c].seen = NONE /\ call'[c].ret = "acquire"
    BY Zenon, <1>0, <1>2, <2>L, ObserveMoves
  <2>1. TypeOK'
    BY ZenonT(40), <1>2, <2>a DEF DaemonInv, TypeOK, Alone
  <2>2. LockInv' /\ FilesInv'
    BY ZenonT(40), <1>2 DEF DaemonInv, LockInv, FilesInv, Published, Running, Born, Ready, OfInstance, PreparedFor
  <2>3. ASSUME NEW d \in Callers PROVE CallerInv(d, call[d])'
    <3>1. CASE d = c
      <4>1. PICK r \in Call, s \in Call : r = call[c] /\ s = call'[c]
        BY Zenon, <1>0, <2>a DEF Alone
      <4>2. References(s)' /\ Armament(s)'
        BY ZenonT(40), <1>0, <1>2, <2>a, <4>1 DEF CallerInv, References, Armament, KeepsCommand, KeepsChild, Born, ReturnLabels
      <4>3. Holdings(c, s)'
        BY Zenon, <2>a, <1>c, <4>1 DEF Holdings, KeepsCommand, KeepsChild, Within, Observing, Launching
      <4>4. Launches(s)' /\ Endings(s)'
        BY Zenon, <1>2, <2>a, <1>n, <1>e, <4>1 DEF Launches, Endings, KeepsCommand, KeepsChild
      <4> QED BY Zenon, <3>1, <4>1, <4>2, <4>3, <4>4 DEF CallerInv
    <3>2. CASE d # c
      <4>1. call[d].pc = "poll" => Armed(c) = {}
        BY Zenon, <3>2, OneWaits DEF Armed, At
      <4>2. Quiet(d)
        BY Zenon, <1>2, <1>c, <3>2, <4>1 DEF Quiet
      <4> QED BY Zenon, <3>2, <4>2, <2>a, QuietKeeps DEF DaemonInv, Alone
    <3> QED BY Zenon, <3>1, <3>2
  <2>4. RequestsAreOwned'
    BY Zenon, <1>2, <2>a, StillOwned
  <2> QED BY Zenon, <2>1, <2>2, <2>3, <2>4 DEF DaemonInv
<1> QED BY Zenon, <1>1, <1>2 DEF StopConfirmed

\* The wait for the instance, and its deadline.
LEMMA PollInv ==
    ASSUME DaemonInv, NEW c \in Callers, Poll(c) \/ StopDeadline(c)
    PROVE  DaemonInv'
<1>0. /\ call \in [Callers -> Call] /\ call[c] \in Call /\ CallerInv(c, call[c])
      /\ call[c].pc \in {"poll", "settle"}
  BY Zenon, Before DEF Poll, StopDeadline, At
<1>n. ~Within(call[c], Launching) /\ ~Within(call[c], {"await"}) /\ call[c].child = NONE
  BY Zenon, <1>0, NotLaunching
<1>1. CASE Finish(c, "failed") \/ Finish(c, "deadline")
  BY Zenon, <1>1, <1>n, FinishKeeps DEF Results
<1>2. CASE TRUE \in stopped(c) /\ StopConfirmed(c)
  <2>1. instanceLock = {}
    BY ZenonT(40), <1>2 DEF stopped, lock_held
  <2> QED BY Zenon, <1>0, <1>2, <2>1, ConfirmedInv
<1>3. CASE /\ call[c].pc = "poll" /\ call[c].captured.nonce \notin requests
           /\ Goto(c, "settle") /\ CallOnly
  <2>1. "settle" \in Labels
    BY SMTT(60) DEF Labels
  <2>2. /\ Alone(c) /\ KeepsCommand(c) /\ KeepsChild(c)
        /\ call'[c].pc = "settle" /\ call'[c].seen = NONE /\ call'[c].ret = call[c].ret
    BY Zenon, <1>0, <1>3, <2>1, GotoMoves
  <2>3. PICK r \in Call, s \in Call : r = call[c] /\ s = call'[c]
    BY Zenon, <1>0, <2>2 DEF Alone
  <2>4. stopLock = c /\ r.captured # NONE
    BY Zenon, <1>0, <1>3, <2>3 DEF CallerInv, Holdings, Within
  <2>5. CallerInv(c, s)
    BY ZenonT(40), <1>0, <1>3, <1>n, <2>2, <2>3, <2>4, MovesOn
       DEF Same, KeepsCommand, KeepsChild, CallerInv, References, Born, Within, Observing, Launching
  <2> QED BY Zenon, <1>3, <2>2, <2>3, <2>5, CallOnlyIsBeside, BesideKeeps
<1>4. CASE Poll(c)
  BY Zenon, <1>1, <1>2, <1>4 DEF Poll
<1>5. CASE StopDeadline(c)
  BY Zenon, <1>1, <1>3, <1>5 DEF StopDeadline, At
<1> QED BY Zenon, <1>4, <1>5
-----------------------------------------------------------------------------
(* capture_restart, restart_checked and status. *)

\* A restart captures what it replaces and checks it again under the launch lock.
LEMMA RestartInv ==
    ASSUME DaemonInv, NEW c \in Callers, CaptureRestart(c) \/ Recapture(c) \/ RestartChecked(c)
    PROVE  DaemonInv'
<1>0. /\ call \in [Callers -> Call] /\ call[c] \in Call /\ CallerInv(c, call[c])
      /\ call[c].pc \in {"captured", "recaptured", "replace"}
  BY Zenon, Before DEF CaptureRestart, Recapture, RestartChecked, At
<1>n. ~Within(call[c], Launching) /\ ~Within(call[c], {"await"}) /\ call[c].child = NONE
  BY <1>0, NotLaunching
<1>L. {"observe", "recaptured", "launch", "stopLock", "acquire"} \subseteq Labels
  BY Zenon DEF Labels
<1>r. call[c].ret \in ReturnLabels
  BY Zenon, <1>0 DEF CallerInv, References
<1>1. CASE Finish(c, "failed")
  BY Zenon, <1>1, <1>n, FinishKeeps DEF Results
<1>2. CASE /\ call[c].pc = "captured" /\ CallOnly
           /\ call' = [call EXCEPT ![c].captured = call[c].seen, ![c].pc = "observe",
                                   ![c].ret = "recaptured", ![c].seen = NONE]
  <2>1. /\ Alone(c) /\ KeepsChild(c) /\ call'[c].op = call[c].op /\ call'[c].captured = call[c].seen
        /\ call'[c].pc = "observe" /\ call'[c].seen = NONE /\ call'[c].ret = "recaptured"
    BY ZenonT(30), <1>0, <1>2, <1>L, CaptureMoves
  <2> QED BY ZenonT(40), <1>2, <2>1, CaptureKeeps DEF ReturnLabels
<1>3. CASE Goto(c, "launch") /\ CallOnly
  <2>1. /\ Alone(c) /\ KeepsCommand(c) /\ KeepsChild(c)
        /\ call'[c].pc = "launch" /\ call'[c].seen = NONE /\ call'[c].ret = call[c].ret
    BY ZenonT(40), <1>0, <1>3, <1>L, GotoMoves
  <2> QED BY Zenon, <1>0, <1>n, <1>r, <1>3, <2>1, CallOnlyIsBeside, MoveKeeps
          DEF Same, KeepsCommand, KeepsChild, Within, Observing, Launching, Born
<1>4. CASE Goto(c, "stopLock") /\ CallOnly /\ call[c].captured # NONE
  <2>1. /\ Alone(c) /\ KeepsCommand(c) /\ KeepsChild(c)
        /\ call'[c].pc = "stopLock" /\ call'[c].seen = NONE /\ call'[c].ret = call[c].ret
    BY Zenon, <1>0, <1>4, <1>L, GotoMoves
  <2> QED BY ZenonT(40), <1>0, <1>n, <1>r, <1>4, <2>1, CallOnlyIsBeside, MoveKeeps
          DEF Same, KeepsCommand, KeepsChild, Within, Observing, Launching, Born
<1>5. CASE Observe(c, "acquire") /\ CallOnly /\ call[c].captured = NONE
  <2>1. /\ Alone(c) /\ KeepsCommand(c) /\ KeepsChild(c)
        /\ call'[c].pc = "observe" /\ call'[c].seen = NONE /\ call'[c].ret = "acquire"
    BY Zenon, <1>0, <1>5, <1>L, ObserveMoves
  <2> QED BY ZenonT(40), <1>0, <1>n, <1>5, <2>1, CallOnlyIsBeside, MoveKeeps
          DEF Same, KeepsCommand, KeepsChild, Within, Observing, Launching, ReturnLabels, Born
<1>6. CASE CaptureRestart(c)
  BY Zenon, <1>1, <1>2, <1>6 DEF CaptureRestart, At
<1>7. CASE Recapture(c)
  BY Zenon, <1>1, <1>3, <1>7 DEF Recapture
<1>8. CASE RestartChecked(c)
  BY Zenon, <1>1, <1>4, <1>5, <1>8 DEF RestartChecked
<1> QED BY <1>6, <1>7, <1>8

\* status removes what a dead instance left.
LEMMA StatusInv ==
    ASSUME DaemonInv, NEW c \in Callers, Status(c)
    PROVE  DaemonInv'
<1>0. call[c].pc = "status"
  BY Zenon DEF Status, At
<1>1. call[c].child = NONE
  BY Zenon, <1>0, NotLaunching
<1>2. CASE Finish(c, IF PreparedFor(call[c].seen) THEN "reported" ELSE "failed")
  BY Zenon, <1>1, <1>2, FinishKeeps DEF Results
<1>3. CASE CleanupStale(c, "reported")
  BY Zenon, <1>0, <1>1, <1>3, CleanupKeeps
<1> QED BY Zenon, <1>2, <1>3 DEF Status
-----------------------------------------------------------------------------
(* The invariant, and what it says. *)

\* The runtime starts empty: nothing is held and nothing is published.
LEMMA DaemonInitInv == Init => DaemonInv
<1> SUFFICES ASSUME Init PROVE DaemonInv
  BY Zenon
<1>1. Idle \in Call
  <2>1. "idle" \in Labels
    BY Zenon DEF Labels
  <2> QED BY <2>1 DEF Idle, Call
<1>2. TypeOK
  BY Zenon, <1>1 DEF Init, TypeOK, Phases
<1>3. LockInv /\ FilesInv /\ RequestsAreOwned
  BY Zenon DEF Init, LockInv, FilesInv, Published, RequestsAreOwned, Running, Born, Ended, Starting
<1>4. ASSUME NEW c \in Callers PROVE CallerInv(c, call[c])
  <2>1. PICK s \in Call : s = Idle
    BY Zenon, <1>1
  <2>2. CallerInv(c, s)
    BY Zenon, <2>1, FreshKeeps DEF Idle
  <2> QED BY <2>1, <2>2 DEF Init
<1> QED BY <1>2, <1>3, <1>4 DEF DaemonInv

\* Every step keeps the invariant.
LEMMA DaemonStepInv == DaemonInv /\ [Next]_vars => DaemonInv'
<1> SUFFICES ASSUME DaemonInv, [Next]_vars PROVE DaemonInv'
  BY ZenonT(40)
<1>1. CASE UNCHANGED vars
  <2>1. TypeOK' /\ LockInv' /\ FilesInv' /\ RequestsAreOwned'
    <3>1. TypeOK'
      BY Zenon, <1>1 DEF vars, files, instances, DaemonInv, TypeOK
    <3>2. LockInv'
      BY <1>1 DEF vars, files, instances, DaemonInv, LockInv, Running
    <3>3. FilesInv'
      <4>1. UNCHANGED <<descriptor, pidFile, phase, snapshots>>
        BY Zenon, <1>1 DEF vars, files, instances
      <4>2. Born(descriptor)'
        BY Zenon, <4>1 DEF DaemonInv, FilesInv, Born
      <4>3. ASSUME NEW i \in Instances PROVE Published(i)'
        BY ZenonT(40), <4>1 DEF DaemonInv, FilesInv, Published, Ready, OfInstance, PreparedFor
      <4> QED BY Zenon, <4>2, <4>3 DEF FilesInv
    <3>4. RequestsAreOwned'
      BY Zenon, <1>1 DEF vars, files, instances, DaemonInv, RequestsAreOwned, Armed, At
    <3> QED BY Zenon, <3>1, <3>2, <3>3, <3>4
  <2>2. ASSUME NEW c \in Callers PROVE CallerInv(c, call[c])'
    BY ZenonT(40), <1>1 DEF vars, files, instances, DaemonInv, CallerInv, References, Holdings, Armament, Launches,
                Endings, Running, Born, Ready, OfInstance, PreparedFor, Armed, At
  <2> QED BY Zenon, <2>1, <2>2 DEF DaemonInv
<1>2. ASSUME NEW c \in Callers, Commands(c) \/ CallerStep(c) \/ Timeout(c) \/ KillCaller(c)
      PROVE  DaemonInv'
  BY Zenon, <1>2, BeginInv, ObserveStepInv, LaunchInv, AcquireInv, TakeInv, CleanInv, SpawnInv, AwaitInv, StopInv,
     StopLockInv, RequestInv, PollInv, RestartInv, StatusInv, ForgetInv DEF CallerStep, Timeout
<1>3. ASSUME NEW i \in Instances, InstanceStep(i) \/ ServingEnds(i) \/ KillInstance(i)
      PROVE  DaemonInv'
  BY Zenon, <1>3, InstanceStepInv
<1> QED BY Zenon, <1>1, <1>2, <1>3 DEF Next

\* The locks, the files and the commands keep their invariant in every behaviour.
THEOREM DaemonInvariant == Spec => []DaemonInv
BY DaemonInitInv, DaemonStepInv, PTL DEF Spec

\* At most one instance is between spawn and release of the runtime, for any number
\* of commands, instances and kills.
THEOREM OneOwnerHolds == Spec => []OneOwner
<1>1. DaemonInv => OneOwner
  BY Zenon DEF DaemonInv, LockInv, Running, OneOwner
<1> QED BY <1>1, DaemonInvariant, PTL

\* What serves is announced with its snapshot, and a launch that is reported as
\* failed has left no process and no snapshot behind.
THEOREM LaunchHolds == Spec => []LaunchIsSound
<1>1. DaemonInv => ServingIsPublished
  BY Zenon DEF DaemonInv, FilesInv, Published, ServingIsPublished
<1>2. DaemonInv => FailedLaunchLeavesNothing
  BY Zenon DEF DaemonInv, CallerInv, Launches, FailedLaunchLeavesNothing, At
<1>3. DaemonInv => LaunchIsSound
  BY SMTT(60), <1>1, <1>2 DEF DaemonInv, LaunchIsSound
<1> QED BY <1>3, DaemonInvariant, PTL

\* A stop that reports success and a restart that goes on have seen their instance
\* end, and nobody takes a request away from the command that waits on it.
THEOREM StopHolds == Spec => []StopIsSound
<1>1. DaemonInv => StoppedMeansEnded
  BY Zenon DEF DaemonInv, CallerInv, Endings, StoppedMeansEnded, Returns, At
<1>2. DaemonInv => RequestsAreNotStolen
  BY Zenon DEF DaemonInv, CallerInv, Armament, RequestsAreNotStolen, At
<1>3. DaemonInv => RestartReplacesCaptured
  BY ZenonT(40) DEF DaemonInv, CallerInv, Endings, RestartReplacesCaptured
<1>4. DaemonInv => StopIsSound
  BY Zenon, <1>1, <1>2, <1>3 DEF StopIsSound
<1> QED BY <1>4, DaemonInvariant, PTL

\* A stop request that no living command can revoke was left by one that was killed.
THEOREM RequestsHold == Spec => []RequestsAreOwned
<1>1. DaemonInv => RequestsAreOwned
  BY DEF DaemonInv
<1> QED BY <1>1, DaemonInvariant, PTL
-----------------------------------------------------------------------------
(* The instances implement RuntimeOwner. *)

OwnerOf(L) == IF L \cap Instances = {} THEN NONE ELSE CHOOSE i \in L \cap Instances : TRUE

\* The owner is the instance that has the lock.
LEMMA OwnerIs ==
    ASSUME NEW L, \A p, q \in L : p = q
    PROVE  /\ \A i \in L \cap Instances : OwnerOf(L) = i
           /\ L \cap Instances = {} => OwnerOf(L) = NONE
BY Zenon DEF OwnerOf

\* A step that launches nothing, announces nothing and takes no lock for an instance.
Settled ==
    /\ instanceLock' \cap Instances \subseteq instanceLock
    /\ \A i \in Instances : phase'[i] = "unborn" <=> phase[i] = "unborn"
    /\ Ready(descriptor)' <=> Ready(descriptor)
    /\ (Ready(descriptor) => descriptor'.nonce = descriptor.nonce)

\* The owner stays or leaves.
LEMMA SettledLeaves ==
    ASSUME DaemonInv, DaemonInv', Settled
    PROVE  Owner!Leave \/ UNCHANGED Owner!vars
<1>1. /\ \A p, q \in instanceLock : p = q
      /\ \A p, q \in instanceLock' : p = q
  BY Zenon DEF DaemonInv, LockInv
<1>2. OwnerOf(instanceLock') \in {NONE, OwnerOf(instanceLock)}
  BY Zenon, <1>1, OwnerIs DEF Settled
<1>3. {i \in Instances : phase[i] # "unborn"}' = {i \in Instances : phase[i] # "unborn"}
  BY Zenon DEF Settled
<1>4. (IF Ready(descriptor) THEN descriptor.nonce ELSE NONE)' = (IF Ready(descriptor) THEN descriptor.nonce ELSE NONE)
  BY Zenon DEF Settled
<1> QED BY Zenon, <1>2, <1>3, <1>4 DEF Owner!Leave, Owner!vars, OwnerOf, Owners

\* Commands that touch no instance, return, or give up a launch settle.
LEMMA CommandsSettle ==
    ASSUME DaemonInv, NEW c \in Callers
    PROVE  /\ CallOnly => Settled
           /\ \A result : Finish(c, result) => Settled
           /\ StartFailed(c) => Settled
           /\ Fail(c) => Settled
<1>1. CallOnly => Settled
  BY Zenon DEF CallOnly, Settled, files, instances
<1>2. \A result : Finish(c, result) => Settled
  BY DEF Finish, Settled, files, instances
<1>3. StartFailed(c) => Settled
  <2>1. call[c].child # NONE => phase[call[c].child] # "unborn"
    BY Zenon DEF DaemonInv, CallerInv, References
  <2>2. \A i \in Instances : i = call[c].child => phase[i] # "unborn"
    BY SMTT(60), <2>1, NoneAssumption DEF Instances
  <2> QED BY Zenon, <2>2 DEF StartFailed, KillChild, Settled
<1>4. Fail(c) => Settled
  BY Zenon, <1>2, <1>3 DEF Fail
<1> QED BY Zenon, <1>1, <1>2, <1>3, <1>4

\* Stale files are removed while nobody owns the runtime.
LEMMA StaleSweeps ==
    ASSUME DaemonInv, NEW L \in SUBSET Callers, instanceLock = L, RemoveStale,
           UNCHANGED <<instanceLock, phase>>
    PROVE  Owner!Sweep
<1>1. instanceLock \cap Instances = {}
  BY CallersAreNoInstances DEF Instances
<1>2. ~Ready(descriptor)'
  BY Zenon DEF RemoveStale, Ready
<1> QED BY Zenon, <1>1, <1>2 DEF Owner!Sweep, Owners

\* CleanupStale settles, or sweeps what nobody owns.
LEMMA CleanupSettles ==
    ASSUME DaemonInv, NEW c \in Callers, NEW result, CleanupStale(c, result)
    PROVE  Settled \/ Owner!Sweep
<1>1. CASE Finish(c, "failed") \/ Finish(c, result)
  BY Zenon, <1>1, CommandsSettle
<1>2. CASE /\ FALSE \in lock_held(c) /\ RemoveStale
           /\ UNCHANGED <<instanceLock, launchLock, stopLock, guardian, requests, orphans, instances>>
  <2>1. instanceLock = {}
    BY Zenon, <1>2 DEF lock_held
  <2> QED BY <1>2, <2>1, StaleSweeps DEF instances
<1>3. lock_held(c) \subseteq BOOLEAN
  BY ZenonT(40) DEF lock_held
<1> QED BY Zenon, <1>1, <1>2, <1>3 DEF CleanupStale

\* Every step of a command but Spawn and Clean settles or sweeps.
LEMMA CallersSettle ==
    ASSUME DaemonInv, NEW c \in Callers,
           \/ Commands(c) \/ Timeout(c) \/ KillCaller(c)
           \/ CallerStep(c) /\ ~Spawn(c) /\ ~Clean(c)
    PROVE  Settled \/ Owner!Sweep
<1> USE DEF files, instances
<1>1. CASE Commands(c) \/ ReadDescriptor(c) \/ ProbeOwner(c) \/ Confirm(c) \/ Return(c)
  BY Zenon, <1>1, CommandsSettle DEF Commands, Begin, ReadDescriptor, ProbeOwner, Confirm, Observed, Return
<1>2. CASE TakeLaunchLock(c) \/ TakeStopLock(c) \/ TakeInstanceLock(c) \/ WriteRequest(c) \/ KillCaller(c)
  <2>1. {c} \cap Instances = {}
    BY CallersAreNoInstances DEF Instances
  <2> QED BY Zenon, <1>2, <2>1, CommandsSettle
          DEF TakeLaunchLock, TakeStopLock, TakeInstanceLock, WriteRequest, KillCaller, Settled
<1>3. CASE AcquireStart(c) \/ AlreadyRunning(c) \/ SpawnFails(c) \/ AwaitReady(c) \/ Timeout(c)
  BY Zenon, <1>3, CommandsSettle
     DEF AcquireStart, AlreadyRunning, SpawnFails, AwaitReady, Timeout, LaunchLockTimeout, AcquireDeadline,
         ReadinessDeadline, StopLockTimeout, StopDeadline, SettleDeadline
<1>4. CASE Poll(c) \/ CaptureRestart(c) \/ Recapture(c) \/ RestartChecked(c)
  BY Zenon, <1>4, CommandsSettle DEF Poll, StopConfirmed, CaptureRestart, Recapture, RestartChecked, Settled
<1>5. CASE StopFound(c) \/ Status(c)
  BY Zenon, <1>5, CommandsSettle, CleanupSettles DEF StopFound, Status
<1> QED BY ZenonT(40), <1>1, <1>2, <1>3, <1>4, <1>5 DEF CallerStep

\* Spawn makes the new instance the owner of a runtime without an announcement.
LEMMA SpawnAcquires ==
    ASSUME DaemonInv, NEW c \in Callers, Spawn(c)
    PROVE  \E i \in Instances : Owner!Acquire(i)
<1>1. instanceLock = {c} /\ descriptor = NONE
  BY Zenon DEF DaemonInv, CallerInv, Holdings, Spawn, At
<1>2. PICK i \in Instances : /\ phase[i] = "unborn" /\ phase' = [phase EXCEPT ![i] = "spawned"]
                             /\ instanceLock' = {i}
  BY Zenon DEF Spawn, Inherited
<1>3. Owners = {} /\ Owners' = {i}
  BY SMTT(60), <1>1, <1>2, CallersAreNoInstances DEF Owners, Instances
<1>4. (IF Owners = {} THEN NONE ELSE CHOOSE j \in Owners : TRUE)' = i
  BY Zenon, <1>3
<1>5. {j \in Instances : phase[j] # "unborn"}' = {j \in Instances : phase[j] # "unborn"} \cup {i}
  BY Zenon, <1>2 DEF DaemonInv, TypeOK
<1>6. UNCHANGED descriptor
  BY Zenon DEF Spawn
<1>7. Owner!Acquire(i)
  BY Zenon, <1>1, <1>2, <1>3, <1>4, <1>5, <1>6 DEF Owner!Acquire, Ready
<1> QED BY Zenon, <1>7

\* An instance that has come so far and not ended is the owner.
LEMMA RunnerOwns ==
    ASSUME DaemonInv, NEW i \in Instances, Running(i)
    PROVE  (IF Owners = {} THEN NONE ELSE CHOOSE j \in Owners : TRUE) = i
<1>1. i \in instanceLock /\ \A p, q \in instanceLock : p = q
  BY Zenon DEF DaemonInv, LockInv
<1> QED BY <1>1 DEF Owners

\* The steps of an instance that announce or withdraw are the owner's, the others
\* settle.
LEMMA InstancesAct ==
    ASSUME DaemonInv, NEW i \in Instances, InstanceStep(i) \/ ServingEnds(i) \/ KillInstance(i)
    PROVE  Settled \/ Owner!Announce \/ Owner!Withdraw
<1> USE DEF files, instances
<1>0. phase \in [Instances -> Phases] /\ i # NONE /\ Published(i)
  <2>1. phase \in [Instances -> Phases]
    BY Zenon DEF DaemonInv, TypeOK
  <2>2. i # NONE
    BY SMTT(60), NoneAssumption DEF Instances
  <2>3. Published(i)
    BY Zenon DEF DaemonInv, FilesInv
  <2> QED BY Zenon, <2>1, <2>2, <2>3
<1>m. ASSUME NEW from \in Phases \ {"unborn"}, NEW to \in Phases \ {"unborn"}, Moves(i, from, to)
      PROVE  /\ \A j \in Instances : phase'[j] = "unborn" <=> phase[j] = "unborn"
             /\ {j \in Instances : phase[j] # "unborn"}' = {j \in Instances : phase[j] # "unborn"}
  <2>1. \A j \in Instances : phase'[j] = IF j = i THEN to ELSE phase[j]
    BY <1>0, <1>m DEF Moves
  <2>2. phase[i] = from
    BY Zenon, <1>m DEF Moves
  <2> QED BY Zenon, <2>1, <2>2
<1>1. CASE TakeGuardian(i) \/ WritePid(i) \/ SaveCurrent(i) \/ StartupFails(i) \/ TakeRequest(i)
  <2>1. UNCHANGED <<descriptor, instanceLock>>
    BY Zenon, <1>1 DEF TakeGuardian, WritePid, SaveCurrent, StartupFails, TakeRequest
  <2>2. \E from, to \in Phases \ {"unborn"} : Moves(i, from, to)
    BY Zenon, <1>1 DEF TakeGuardian, WritePid, SaveCurrent, StartupFails, TakeRequest, Starting, Phases
  <2> QED BY Zenon, <1>m, <2>1, <2>2 DEF Settled
<1>5. CASE RemoveNames(i) \/ Release(i) \/ Exit(i) \/ ServingEnds(i) \/ KillInstance(i)
  <2>1. UNCHANGED descriptor /\ instanceLock' \subseteq instanceLock
    BY Zenon, <1>5 DEF RemoveNames, Release, Exit, ServingEnds, KillInstance
  <2>2. \E from, to \in Phases \ {"unborn"} : Moves(i, from, to)
    BY Zenon, <1>5 DEF RemoveNames, Release, Exit, ServingEnds, KillInstance, Phases
  <2> QED BY ZenonT(40), <1>m, <2>1, <2>2 DEF Settled
<1>2. CASE PublishUnready(i)
  <2>1. ~Ready(descriptor) /\ ~Ready(descriptor)'
    BY Zenon, <1>0, <1>2 DEF PublishUnready, Published, Moves, Ready
  <2> QED BY ZenonT(40), <1>2, <1>m, <2>1 DEF PublishUnready, Settled, Phases
<1>3. CASE PublishReady(i)
  <2>1. Running(i) /\ ~Ready(descriptor)
    BY Zenon, <1>0, <1>3 DEF PublishReady, Published, Moves, Running, Ended, Ready, OfInstance
  <2>2. Ready(descriptor)' /\ descriptor'.nonce = i
    BY Zenon, <1>3, Written DEF PublishReady, Ready
  <2>3. UNCHANGED Owners /\ {j \in Instances : phase[j] # "unborn"}' = {j \in Instances : phase[j] # "unborn"}
    BY <1>3, <1>m DEF PublishReady, Owners, Phases
  <2>4. (IF Owners = {} THEN NONE ELSE CHOOSE j \in Owners : TRUE) = i
    BY Zenon, <2>1, RunnerOwns
  <2>5. UNCHANGED (IF Owners = {} THEN NONE ELSE CHOOSE j \in Owners : TRUE)
    BY SMTT(60), <2>3
  <2>6. /\ (IF Ready(descriptor) THEN descriptor.nonce ELSE NONE) = NONE
        /\ (IF Ready(descriptor) THEN descriptor.nonce ELSE NONE)' = i
    BY <2>1, <2>2
  <2> QED BY ZenonT(40), <1>0, <2>3, <2>4, <2>5, <2>6 DEF Owner!Announce
<1>4. CASE RemoveDescriptor(i)
  <2>0. {j \in Instances : phase[j] # "unborn"}' = {j \in Instances : phase[j] # "unborn"}
    BY ZenonT(40), <1>4, <1>m DEF RemoveDescriptor, Phases
  <2>1. CASE OfInstance(descriptor, i)
    <3>1. Running(i)
      BY <1>4 DEF RemoveDescriptor, Moves, Running, Ended
    <3>2. descriptor.nonce = i /\ ~Ready(descriptor)' /\ UNCHANGED Owners
      BY ZenonT(40), <1>4, <2>1 DEF RemoveDescriptor, OfInstance, Ready, Owners
    <3> QED BY SMTT(60), <2>0, <3>1, <3>2, RunnerOwns DEF Owner!Withdraw
  <2>2. CASE ~OfInstance(descriptor, i)
    BY <1>4, <1>m, <2>2 DEF RemoveDescriptor, Settled, Phases
  <2> QED BY Zenon, <2>1, <2>2
<1> QED BY ZenonT(40), <1>1, <1>2, <1>3, <1>4, <1>5 DEF InstanceStep

\* Every step of the daemon is a step of its owners, or none.
LEMMA OwnerStep == DaemonInv /\ DaemonInv' /\ [Next]_vars => Owner!Next \/ UNCHANGED Owner!vars
<1> SUFFICES ASSUME DaemonInv, DaemonInv', [Next]_vars PROVE Owner!Next \/ UNCHANGED Owner!vars
  BY Zenon
<1>1. CASE UNCHANGED vars
  BY SMTT(60), <1>1 DEF vars, files, instances, Owner!vars, Owners, Ready
<1>2. ASSUME NEW c \in Callers, Commands(c) \/ CallerStep(c) \/ Timeout(c) \/ KillCaller(c)
      PROVE  Owner!Next \/ UNCHANGED Owner!vars
  <2>1. CASE Spawn(c)
    BY Zenon, <2>1, SpawnAcquires DEF Owner!Next
  <2>2. CASE Clean(c)
    <3>1. instanceLock = {c}
      BY Zenon, <2>2 DEF DaemonInv, CallerInv, Holdings, Clean, At
    <3> QED BY Zenon, <2>2, <3>1, StaleSweeps DEF Clean, instances, Owner!Next
  <2>3. CASE ~Spawn(c) /\ ~Clean(c)
    BY Zenon, <1>2, <2>3, CallersSettle, SettledLeaves DEF Owner!Next
  <2> QED BY Zenon, <2>1, <2>2, <2>3
<1>3. ASSUME NEW i \in Instances, InstanceStep(i) \/ ServingEnds(i) \/ KillInstance(i)
      PROVE  Owner!Next \/ UNCHANGED Owner!vars
  BY Zenon, <1>3, InstancesAct, SettledLeaves DEF Owner!Next
<1> QED BY Zenon, <1>1, <1>2, <1>3 DEF Next

\* The locks and files of the daemon implement RuntimeOwner: one owner at a time,
\* that comes once, announces itself alone and finds no announcement when it comes.
THEOREM OwnerRefinement == Spec => ImplementsOwner
<1>1. Init => Owner!Init
  BY DEF Init, Owner!Init, Owners, Ready
<1>2. DaemonInv /\ DaemonInv' /\ [Next]_vars => [Owner!Next]_(Owner!vars)
  BY OwnerStep
<1> QED BY <1>1, <1>2, DaemonInvariant, PTL DEF Spec, ImplementsOwner, Owner!Spec
=============================================================================
