------------------------------ MODULE Evidence ------------------------------
(***************************************************************************)
(* The evidence an instance leaves of its run (Evidence, Reporter and the  *)
(* exit marker in src/src/observability.rs).  A marker file is written     *)
(* when an instance starts and removed only when the outcome was logged; a *)
(* reporter thread turns counters that connection tasks and the panic hook *)
(* update into events; the owner sends it one Finish message, or drops the *)
(* channel.  Any write to the log may fail, and the process may be killed  *)
(* at any point, also because the owner stops waiting for the reporter.    *)
(***************************************************************************)
EXTENDS Integers, FiniteSets

CONSTANTS
    MaxInstances, \* bound: instances started one after another
    MaxFailures,  \* bound: failed connections of one counter
    MaxPanics     \* bound: panics of an instance

NoMarker == 0     \* no marker
InvalidMarker == -1 \* a marker that does not parse

VARIABLES
    exitMarker, \* the marker file: NoMarker, InvalidMarker or the instance it names
    instance,   \* the instance that holds zc.lock, 0 for none, and its phase
    owned,      \* the instance's marker was written
    mail,       \* the Finish channel
    reporter,   \* stage of the reporter thread
    counts,     \* one failure counter: counted, reported, in events written or lost
    hook,       \* panics counted, claimed, first sample; reported, events written
    due,        \* what was counted when the reporter left its loop
    logged      \* instances whose marker was written, whose outcome is in the log, whose
                \* marker a later one reported there, and whose report was lost

runVars == <<owned, mail, reporter, counts, hook, due>>
evidenceVars == <<exitMarker, instance, runVars, logged>>

NoCounts == [failures |-> 0, reported |-> 0, written |-> 0, lost |-> 0]
NoPanics == [count |-> 0, claimed |-> FALSE, sample |-> FALSE, reported |-> FALSE,
             events |-> 0, failed |-> FALSE]
NothingDue == [failures |-> 0, sample |-> FALSE]

EvidenceInit ==
    /\ exitMarker \in {NoMarker, InvalidMarker}
    /\ instance = [id |-> 0, phase |-> "off", last |-> 0]
    /\ owned = FALSE /\ mail = "empty" /\ reporter = "none"
    /\ counts = NoCounts /\ hook = NoPanics /\ due = NothingDue
    /\ logged = [marked |-> {}, outcome |-> {}, reported |-> {}, lost |-> {}]

InPhase(phase) == instance' = [instance EXCEPT !.phase = phase]

\* Evidence::start up to the marker: daemon_starting must be written.
StartEvidence ==
    /\ instance.phase = "off" /\ instance.last < MaxInstances
    /\ instance' = [id |-> instance.last + 1, phase |-> "starting", last |-> instance.last + 1]
    /\ UNCHANGED <<exitMarker, runVars, logged>>

\* begin_marker, the read: an invalid or unreadable marker is left alone, that of
\* an earlier instance is reported once, whether or not the event can be written.
ReadMarker(readable, ok) ==
    /\ instance.phase = "starting"
    /\ IF ~readable \/ exitMarker = InvalidMarker THEN InPhase("spawning") /\ UNCHANGED logged
       ELSE /\ InPhase("marking")
            /\ logged' = CASE exitMarker = NoMarker -> logged
                           [] exitMarker # NoMarker /\ ok -> [logged EXCEPT !.reported = @ \cup {exitMarker}]
                           [] OTHER -> [logged EXCEPT !.lost = @ \cup {exitMarker}]
    /\ UNCHANGED <<exitMarker, runVars>>

\* begin_marker, the atomic write.
WriteMarker(ok) ==
    /\ instance.phase = "marking"
    /\ InPhase("spawning")
    /\ owned' = ok
    /\ exitMarker' = IF ok THEN instance.id ELSE exitMarker
    /\ logged' = IF ok THEN [logged EXCEPT !.marked = @ \cup {instance.id}] ELSE logged
    /\ UNCHANGED <<mail, reporter, counts, hook, due>>

SpawnReporter ==
    /\ instance.phase = "spawning"
    /\ InPhase("running") /\ reporter' = "polling"
    /\ UNCHANGED <<exitMarker, owned, mail, counts, hook, due, logged>>

\* Without a thread to report, start itself logs the outcome.
SpawnFails ==
    /\ instance.phase = "spawning"
    /\ InPhase("failed") /\ reporter' = "outcome"
    /\ UNCHANGED <<exitMarker, owned, mail, counts, hook, due, logged>>

\* Observer::failure.
CountFailure ==
    /\ reporter # "none" /\ instance.phase # "failed" /\ counts.failures < MaxFailures
    /\ counts' = [counts EXCEPT !.failures = @ + 1]
    /\ UNCHANGED <<exitMarker, instance, owned, mail, reporter, hook, due, logged>>

\* The panic hook counts, and the first panic claims the sample it will capture.
HookCounts ==
    /\ reporter # "none" /\ instance.phase # "failed" /\ hook.count < MaxPanics
    /\ hook' = [hook EXCEPT !.count = @ + 1, !.claimed = TRUE]
    /\ UNCHANGED <<exitMarker, instance, owned, mail, reporter, counts, due, logged>>

HookPublishes ==
    /\ hook.claimed /\ ~hook.sample
    /\ hook' = [hook EXCEPT !.sample = TRUE]
    /\ UNCHANGED <<exitMarker, instance, owned, mail, reporter, counts, due, logged>>

\* Evidence::finish, or an owner that is dropped before it.
FinishEvidence(message) ==
    /\ instance.phase = "running"
    /\ InPhase("finishing") /\ mail' = message
    /\ UNCHANGED <<exitMarker, owned, reporter, counts, hook, due, logged>>

\* Mutant of SummaryCount: a summary counts the failures reported before it.
SummaryTotal(total, old) == total

SummaryCount(total, old) == total - old

Tally(c, n, ok) == IF ok THEN [c EXCEPT !.written = @ + n] ELSE [c EXCEPT !.lost = @ + n]

\* Reporter::failures: the first failure at once, then summaries, which are due
\* after an interval or at the end; a failed write is not tried again.
Failures(now, first, summary) ==
    LET total == counts.failures
        isFirst == total > 0 /\ counts.reported = 0
        one == IF isFirst THEN [Tally(counts, 1, first) EXCEPT !.reported = 1] ELSE counts
    IN IF total > one.reported /\ now
       THEN [Tally(one, SummaryCount(total, one.reported), summary) EXCEPT !.reported = total]
       ELSE one

Retried(ok) == ok

\* Reporter::panic: the sample is reported once, and tried until it is written.
Panic(ok, final) ==
    IF hook.sample /\ ~hook.reported
    THEN [hook EXCEPT !.reported = Retried(ok), !.events = IF ok THEN @ + 1 ELSE @,
                        !.failed = final /\ ~ok]
    ELSE hook

\* A turn of the loop.  A summary is never due in the turn of the first failure.
Poll(elapsed, first, ok) ==
    /\ reporter = "polling" /\ mail = "empty"
    /\ counts' = Failures(elapsed /\ counts.reported > 0, first, first)
    /\ hook' = Panic(ok, FALSE)
    /\ UNCHANGED <<exitMarker, instance, owned, mail, reporter, due, logged>>

LeaveLoop ==
    /\ reporter = "polling" /\ mail # "empty"
    /\ due' = [failures |-> counts.failures, sample |-> hook.sample]
    /\ reporter' = IF mail = "finish" THEN "finalFailures" ELSE "lastPanic"
    /\ UNCHANGED <<exitMarker, instance, owned, mail, counts, hook, logged>>

LastFailures(first, summary) ==
    /\ reporter \in {"finalFailures", "lastFailures"}
    /\ counts' = Failures(TRUE, first, summary)
    /\ reporter' = IF reporter = "finalFailures" THEN "finalPanic" ELSE "over"
    /\ UNCHANGED <<exitMarker, instance, owned, mail, hook, due, logged>>

LastPanic(ok) ==
    /\ reporter \in {"finalPanic", "lastPanic"}
    /\ hook' = Panic(ok, TRUE)
    /\ reporter' = IF reporter = "finalPanic" THEN "outcome" ELSE "lastFailures"
    /\ UNCHANGED <<exitMarker, instance, owned, mail, counts, due, logged>>

\* The condition under which finish_marker is called.
Certified(ok) == ok

\* daemon_stopped or daemon_failed.
LogOutcome(ok) ==
    /\ reporter = "outcome"
    /\ logged' = IF ok THEN [logged EXCEPT !.outcome = @ \cup {instance.id}] ELSE logged
    /\ reporter' = IF Certified(ok) THEN "clear" ELSE "over"
    /\ UNCHANGED <<exitMarker, instance, owned, mail, counts, hook, due>>

FinishMarker(ok) ==
    /\ reporter = "clear"
    /\ exitMarker' = IF owned /\ exitMarker = instance.id /\ ok THEN NoMarker ELSE exitMarker
    /\ reporter' = "over"
    /\ UNCHANGED <<instance, owned, mail, counts, hook, due, logged>>

\* The process ends: after the reporter is over, after two seconds of waiting
\* for it, or because it was killed.
ProcessEnds ==
    /\ instance.phase # "off"
    /\ instance' = [instance EXCEPT !.id = 0, !.phase = "off"]
    /\ owned' = FALSE /\ mail' = "empty" /\ reporter' = "none"
    /\ counts' = NoCounts /\ hook' = NoPanics /\ due' = NothingDue
    /\ UNCHANGED <<exitMarker, logged>>

EvidenceNext ==
    \/ StartEvidence \/ SpawnReporter \/ SpawnFails
    \/ CountFailure \/ HookCounts \/ HookPublishes \/ LeaveLoop \/ ProcessEnds
    \/ \E message \in {"finish", "disconnected"} : FinishEvidence(message)
    \/ \E ok \in BOOLEAN :
        \/ WriteMarker(ok) \/ LastPanic(ok) \/ LogOutcome(ok) \/ FinishMarker(ok)
        \/ \E readable \in BOOLEAN : ReadMarker(readable, ok)
        \/ \E first \in BOOLEAN : LastFailures(first, ok) \/ \E elapsed \in BOOLEAN : Poll(elapsed, first, ok)

EvidenceSpec == EvidenceInit /\ [][EvidenceNext]_evidenceVars
-----------------------------------------------------------------------------
(* Properties. *)

\* No run disappears silently: an instance whose marker was written has its marker
\* still there, or its outcome in the log, or was reported there by a later instance,
\* wherever processes were killed and whichever write failed.  The one exception is
\* an instance whose previous_exit_unknown could not be written: begin_marker does
\* not try it again and replaces the marker.
NoRunDisappears ==
    \A i \in logged.marked \ (logged.outcome \cup logged.reported) :
        exitMarker = i \/ i \in logged.lost

\* The counts in the events, written or lost, add up to what was reported and
\* never exceed what was counted; a reporter that ended reported every failure
\* counted before it was told to, although tasks counted meanwhile.
FailuresAddUp ==
    /\ counts.written + counts.lost = counts.reported
    /\ counts.reported <= counts.failures
    /\ reporter = "over" => counts.reported >= due.failures

\* A panic captured before the reporter was told to end is in the log once, by
\* whatever path it ends, unless the last attempt to write it failed.
PanicReachesLog ==
    /\ hook.events <= 1
    /\ (reporter = "over" /\ due.sample) => hook.events = 1 \/ hook.failed

\* The evidence an instance leaves of how it ended, of the failures it counted and of
\* a panic accounts for every write of it that failed.
EvidenceIsComplete == NoRunDisappears /\ FailuresAddUp /\ PanicReachesLog
=============================================================================
