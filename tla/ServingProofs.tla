--------------------------- MODULE ServingProofs ---------------------------
(***************************************************************************)
(* Two parts of a serving instance, proved for every value of their        *)
(* constants: the evidence it leaves behind (any number of instances,      *)
(* failed connections and panics), and its outbound attempts (any finite   *)
(* set of them, any number of DNS permits and addresses).                  *)
(***************************************************************************)
EXTENDS Evidence, Outbound, FiniteSetTheorems, TLAPS

(* The evidence: diagnostics of an instance. *)


Stages == {"none", "polling", "finalFailures", "finalPanic", "outcome", "clear", "over",
           "lastPanic", "lastFailures"}
Before == {"off", "starting", "marking", "spawning"}

Instances == [id : Nat, phase : Before \cup {"running", "failed", "finishing"}, last : Nat]
Counters == [failures : Nat, reported : Nat, written : Nat, lost : Nat]
Hooks == [count : Nat, claimed : BOOLEAN, sample : BOOLEAN, reported : BOOLEAN,
          events : Nat, failed : BOOLEAN]
Dues == [failures : Nat, sample : BOOLEAN]
Logs == [marked : SUBSET Nat, outcome : SUBSET Nat, reported : SUBSET Nat, lost : SUBSET Nat]

EvidenceTypeOK ==
    /\ exitMarker \in Nat \cup {InvalidMarker}
    /\ instance \in Instances
    /\ owned \in BOOLEAN
    /\ mail \in {"empty", "finish", "disconnected"}
    /\ reporter \in Stages
    /\ counts \in Counters
    /\ hook \in Hooks
    /\ due \in Dues
    /\ logged \in Logs

\* Before the reporter runs nothing is due.
Fresh == instance.phase \in Before => reporter = "none" /\ due = NothingDue

\* A marker is replaced only after a report of it was tried, which is written or
\* lost, and removed only after the outcome was logged.
MarkerInv ==
    /\ 0 \notin logged.marked
    /\ instance.phase # "off" => instance.id > 0
    /\ \A i \in logged.marked : \/ exitMarker = i \/ i \in logged.outcome
                               \/ i \in logged.reported \/ i \in logged.lost
    /\ (instance.phase = "marking" /\ exitMarker \in logged.marked) =>
            exitMarker \in logged.reported \/ exitMarker \in logged.lost
    /\ reporter = "clear" => instance.id \in logged.outcome

\* From the last report on, all that was due has been reported.
CountInv ==
    /\ counts.written + counts.lost = counts.reported
    /\ counts.reported <= counts.failures
    /\ due.failures <= counts.failures
    /\ reporter \in {"finalPanic", "outcome", "clear", "over"} => due.failures <= counts.reported

\* A sample stays, and from the last attempt on it was written or has failed.
PanicInv ==
    /\ hook.reported => hook.events = 1
    /\ ~hook.reported => hook.events = 0
    /\ due.sample => hook.sample
    /\ reporter \in {"outcome", "clear", "over", "lastFailures"} /\ due.sample
          => hook.reported \/ hook.failed

EvidenceInv == EvidenceTypeOK /\ Fresh /\ MarkerInv /\ CountInv /\ PanicInv
-----------------------------------------------------------------------------
\* One report of failures: it adds what it reports to what was written or lost,
\* reports nothing that was not counted, and everything when a summary is due.
LEMMA ReportedAddUp ==
    ASSUME EvidenceTypeOK, CountInv, NEW now \in BOOLEAN, NEW first \in BOOLEAN, NEW ok \in BOOLEAN
    PROVE  LET c == Failures(now, first, ok)
           IN /\ c \in Counters
              /\ c.written + c.lost = c.reported
              /\ c.failures = counts.failures
              /\ c.reported <= counts.failures
              /\ counts.reported <= c.reported
              /\ now => c.reported = counts.failures
<1> DEFINE total == counts.failures
           isFirst == total > 0 /\ counts.reported = 0
           one == IF isFirst THEN [Tally(counts, 1, first) EXCEPT !.reported = 1] ELSE counts
           both == [Tally(one, SummaryCount(total, one.reported), ok) EXCEPT !.reported = total]
<1>0. /\ counts \in Counters /\ total \in Nat
      /\ counts.written + counts.lost = counts.reported /\ counts.reported <= total
  BY DEF EvidenceTypeOK, Counters, CountInv
<1>1. /\ one \in Counters
      /\ one.written + one.lost = one.reported
      /\ one.failures = total /\ one.reported <= total /\ counts.reported <= one.reported
  <2>1. CASE ~isFirst
    <3>1. one = counts
      BY <2>1, Zenon
    <3> HIDE DEF one
    <3> QED BY <3>1, <1>0 DEF Counters
  <2>2. CASE isFirst /\ first
    <3> DEFINE mid == [counts EXCEPT !.written = @ + 1]
    <3>1. one = [mid EXCEPT !.reported = 1]
      BY <2>2, Zenon DEF Tally
    <3>2. mid = [counts EXCEPT !.written = @ + 1]
      OBVIOUS
    <3> HIDE DEF one, mid
    <3>3. mid \in Counters /\ mid.written + mid.lost = 1 /\ mid.failures = total
      BY SMTT(60), <2>2, <3>2, <1>0 DEF Counters
    <3> QED BY <2>2, <3>1, <3>3, <1>0 DEF Counters
  <2>3. CASE isFirst /\ ~first
    <3> DEFINE mid == [counts EXCEPT !.lost = @ + 1]
    <3>1. one = [mid EXCEPT !.reported = 1]
      BY <2>3, Zenon DEF Tally
    <3>2. mid = [counts EXCEPT !.lost = @ + 1]
      OBVIOUS
    <3> HIDE DEF one, mid
    <3>3. mid \in Counters /\ mid.written + mid.lost = 1 /\ mid.failures = total
      BY <2>3, <3>2, <1>0 DEF Counters
    <3> QED BY <2>3, <3>1, <3>3, <1>0 DEF Counters
  <2> QED BY <2>1, <2>2, <2>3, Zenon
<1> HIDE DEF one
<1>2. ASSUME total > one.reported
      PROVE  /\ both \in Counters
             /\ both.written + both.lost = both.reported
             /\ both.failures = total /\ both.reported = total
  <2>1. CASE ok
    <3> DEFINE mid == [one EXCEPT !.written = @ + (total - one.reported)]
    <3>1. both = [mid EXCEPT !.reported = total]
      BY <2>1, Zenon DEF Tally, SummaryCount
    <3>2. mid = [one EXCEPT !.written = @ + (total - one.reported)]
      BY Zenon
    <3> HIDE DEF both, mid
    <3>3. mid \in Counters /\ mid.written + mid.lost = total /\ mid.failures = total
      BY <3>2, <1>0, <1>1, <1>2 DEF Counters
    <3> QED BY Zenon, <1>0, <3>1, <3>3 DEF Counters
  <2>2. CASE ~ok
    <3> DEFINE mid == [one EXCEPT !.lost = @ + (total - one.reported)]
    <3>1. both = [mid EXCEPT !.reported = total]
      BY <2>2, Zenon DEF Tally, SummaryCount
    <3>2. mid = [one EXCEPT !.lost = @ + (total - one.reported)]
      OBVIOUS
    <3> HIDE DEF both, mid
    <3>3. mid \in Counters /\ mid.written + mid.lost = total /\ mid.failures = total
      BY <3>2, <1>0, <1>1, <1>2 DEF Counters
    <3> QED BY <1>0, <3>1, <3>3 DEF Counters
  <2> QED BY <2>1, <2>2, Zenon
<1>3. Failures(now, first, ok) = IF total > one.reported /\ now THEN both ELSE one
  BY Zenon DEF Failures, one
<1> HIDE DEF both, total
<1>4. CASE total > one.reported /\ now
  BY <1>0, <1>1, <1>2, <1>3, <1>4 DEF total, Counters
<1>5. CASE ~(total > one.reported /\ now)
  BY <1>0, <1>1, <1>3, <1>5 DEF total, Counters
<1> QED BY <1>4, <1>5, Zenon

\* One attempt to report the panic: it is written at most once.
LEMMA PanicReported ==
    ASSUME EvidenceTypeOK, PanicInv, NEW ok \in BOOLEAN, NEW final \in BOOLEAN, NEW h, h = Panic(ok, final)
    PROVE  /\ h \in Hooks
           /\ h.reported => h.events = 1
           /\ ~h.reported => h.events = 0
           /\ h.sample = hook.sample
           /\ (final /\ hook.sample) => h.reported \/ h.failed
<1>0. hook \in Hooks
  BY DEF EvidenceTypeOK
<1>1. CASE ~(hook.sample /\ ~hook.reported)
  <2>1. h = hook
    BY <1>1, Zenon DEF Panic
  <2> QED BY Zenon, <1>0, <1>1, <2>1 DEF PanicInv
<1>2. CASE hook.sample /\ ~hook.reported
  <2>0. hook.events = 0
    BY <1>2 DEF PanicInv
  <2>1. PICK written, counted :
            /\ written = [hook EXCEPT !.reported = ok]
            /\ counted = [written EXCEPT !.events = IF ok THEN @ + 1 ELSE @]
            /\ h = [counted EXCEPT !.failed = final /\ ~ok]
    BY <1>2, ZenonT(40) DEF Panic, Retried
  <2>2. written \in Hooks /\ written.sample = hook.sample /\ written.reported = ok /\ written.events = hook.events
    BY <1>0, <2>1 DEF Hooks
  <2>3. CASE ok
    <3>1. counted = [written EXCEPT !.events = @ + 1] /\ h = [counted EXCEPT !.failed = FALSE]
      BY <2>1, <2>3, Zenon
    <3>2. counted \in Hooks /\ counted.sample = hook.sample /\ counted.reported = ok /\ counted.events = 1
      BY <3>1, <2>0, <2>2 DEF Hooks
    <3>3. h \in Hooks /\ h.sample = hook.sample /\ h.reported = ok /\ h.events = 1
      BY Zenon, <3>1, <3>2 DEF Hooks
    <3> QED BY <3>3, <2>3, Zenon
  <2>4. CASE ~ok
    <3>1. counted = [written EXCEPT !.events = @] /\ h = [counted EXCEPT !.failed = final]
      BY <2>1, <2>4, Zenon
    <3>2. counted \in Hooks /\ counted.sample = hook.sample /\ counted.reported = ok /\ counted.events = 0
      BY Zenon, <3>1, <2>0, <2>2 DEF Hooks
    <3>3. h \in Hooks /\ h.sample = hook.sample /\ h.reported = ok /\ h.events = 0 /\ h.failed = final
      BY Zenon, <3>1, <3>2 DEF Hooks
    <3> QED BY <3>3, <2>4, Zenon
  <2> QED BY <2>3, <2>4, Zenon
<1> QED BY <1>1, <1>2, Zenon

\* The invariant holds when no instance ran yet.
LEMMA EvidenceInitInv == EvidenceInit => EvidenceInv
<1> SUFFICES ASSUME EvidenceInit PROVE EvidenceInv
  OBVIOUS
<1> USE DEF EvidenceInit, NoMarker, InvalidMarker, NoCounts, NoPanics, NothingDue
<1>1. instance \in Instances /\ logged \in Logs
  BY Zenon DEF Instances, Logs, Before
<1>2. counts \in Counters /\ hook \in Hooks /\ due \in Dues
  BY DEF Counters, Hooks, Dues
<1>3. EvidenceTypeOK
  <2>1. exitMarker \in Nat \cup {InvalidMarker} /\ mail \in {"empty", "finish", "disconnected"} /\ reporter \in Stages
    BY DEF Stages
  <2>2. owned \in BOOLEAN
    BY Zenon
  <2> QED BY <1>1, <1>2, <2>1, <2>2, Zenon DEF EvidenceTypeOK
<1>4. Fresh /\ MarkerInv
  BY DEF Fresh, MarkerInv
<1>5. CountInv /\ PanicInv
  BY SMTT(60) DEF CountInv, PanicInv
<1> QED BY Zenon, <1>3, <1>4, <1>5 DEF EvidenceInv

\* Every step of an instance, of its reporter and of the panic hook preserves it.
LEMMA EvidenceStepInv == EvidenceInv /\ [EvidenceNext]_evidenceVars => EvidenceInv'
<1> SUFFICES ASSUME EvidenceInv, [EvidenceNext]_evidenceVars PROVE EvidenceInv'
  BY Zenon
<1> USE DEF EvidenceInv, EvidenceTypeOK, Fresh, MarkerInv, CountInv, PanicInv, Before, Stages, InPhase, NothingDue
<1>1. CASE StartEvidence
  BY <1>1 DEF StartEvidence, runVars, Instances
<1>2. CASE SpawnReporter
  BY Zenon, <1>2 DEF SpawnReporter, Instances
<1>3. CASE SpawnFails
  BY <1>3 DEF SpawnFails, Instances, Counters
<1>4. CASE CountFailure
  BY SMTT(60), <1>4 DEF CountFailure, Counters, Dues
<1>5. CASE HookCounts
  <2>1. PICK h : h = [hook EXCEPT !.count = @ + 1] /\ hook' = [h EXCEPT !.claimed = TRUE]
    BY <1>5, Zenon DEF HookCounts
  <2>2. /\ h \in Hooks /\ h.events = hook.events /\ h.reported = hook.reported
        /\ h.sample = hook.sample /\ h.failed = hook.failed
    BY <2>1 DEF Hooks
  <2>3. /\ hook' \in Hooks /\ hook'.events = hook.events /\ hook'.reported = hook.reported
        /\ hook'.sample = hook.sample /\ hook'.failed = hook.failed
    BY Zenon, <2>1, <2>2 DEF Hooks
  <2> QED BY <1>5, <2>3 DEF HookCounts
<1>6. CASE HookPublishes
  <2>1. /\ hook' \in Hooks /\ hook'.events = hook.events /\ hook'.reported = hook.reported
        /\ hook'.sample /\ hook'.failed = hook.failed
    BY Zenon, <1>6 DEF HookPublishes, Hooks
  <2> QED BY <1>6, <2>1 DEF HookPublishes
<1>7. CASE LeaveLoop
  BY <1>7 DEF LeaveLoop, Counters, Hooks, Dues
<1>8. CASE ProcessEnds
  <2>1. counts' \in Counters /\ hook' \in Hooks /\ due' \in Dues
    BY <1>8 DEF ProcessEnds, NoCounts, NoPanics, Counters, Hooks, Dues
  <2>2. instance' \in Instances /\ instance'.phase = "off"
    <3>1. PICK i : i = [instance EXCEPT !.id = 0] /\ instance' = [i EXCEPT !.phase = "off"]
      BY <1>8, Zenon DEF ProcessEnds
    <3>2. i \in Instances
      BY Zenon, <3>1 DEF Instances
    <3> QED BY Zenon, <3>1, <3>2 DEF Instances
  <2>3. Fresh' /\ MarkerInv'
    BY Zenon, <1>8, <2>2 DEF ProcessEnds
  <2>4. CountInv' /\ PanicInv'
    BY SMTT(60), <1>8 DEF ProcessEnds, NoCounts, NoPanics
  <2> QED BY Zenon, <1>8, <2>1, <2>2, <2>3, <2>4 DEF ProcessEnds
<1>9. ASSUME NEW message \in {"finish", "disconnected"}, FinishEvidence(message) PROVE EvidenceInv'
  BY <1>9 DEF FinishEvidence, Instances
<1>10. ASSUME NEW ok \in BOOLEAN, NEW readable \in BOOLEAN, ReadMarker(readable, ok) PROVE EvidenceInv'
  BY SMTT(60), <1>10 DEF ReadMarker, runVars, NoMarker, InvalidMarker, Instances, Logs
<1>11. ASSUME NEW ok \in BOOLEAN, WriteMarker(ok) PROVE EvidenceInv'
  BY <1>11 DEF WriteMarker, Instances, Logs
<1>12. ASSUME NEW ok \in BOOLEAN, LastPanic(ok) PROVE EvidenceInv'
  <2>1. /\ hook' \in Hooks /\ hook'.sample = hook.sample
        /\ hook'.reported => hook'.events = 1
        /\ ~hook'.reported => hook'.events = 0
        /\ hook.sample => hook'.reported \/ hook'.failed
    BY Zenon, <1>12, PanicReported DEF LastPanic
  <2>2. PanicInv'
    BY Zenon, <1>12, <2>1 DEF LastPanic
  <2>3. Fresh' /\ MarkerInv' /\ CountInv'
    BY Zenon, <1>12 DEF LastPanic
  <2> QED BY Zenon, <1>12, <2>1, <2>2, <2>3 DEF LastPanic
<1>13. ASSUME NEW ok \in BOOLEAN, LogOutcome(ok) PROVE EvidenceInv'
  BY <1>13 DEF LogOutcome, Certified, Instances, Logs
<1>14. ASSUME NEW ok \in BOOLEAN, FinishMarker(ok) PROVE EvidenceInv'
  BY Zenon, <1>14 DEF FinishMarker, NoMarker
<1>15. ASSUME NEW ok \in BOOLEAN, NEW first \in BOOLEAN, LastFailures(first, ok) PROVE EvidenceInv'
  <2>1. /\ counts' \in Counters /\ counts'.written + counts'.lost = counts'.reported
        /\ counts'.failures = counts.failures /\ counts'.reported = counts.failures
    BY ZenonT(40), <1>15, ReportedAddUp DEF LastFailures
  <2>2. CountInv'
    <3>1. due.failures <= counts.failures /\ UNCHANGED due
      BY Zenon, <1>15 DEF LastFailures
    <3>2. counts.failures \in Nat
      BY Zenon DEF Counters
    <3> QED BY SMTT(60), <2>1, <3>1, <3>2
  <2>3. PanicInv' /\ Fresh' /\ MarkerInv'
    BY <1>15 DEF LastFailures
  <2> QED BY Zenon, <1>15, <2>1, <2>2, <2>3 DEF LastFailures
<1>16. ASSUME NEW ok \in BOOLEAN, NEW first \in BOOLEAN, NEW elapsed \in BOOLEAN, Poll(elapsed, first, ok)
       PROVE EvidenceInv'
  <2>1. (elapsed /\ counts.reported > 0) \in BOOLEAN
    BY Zenon
  <2>2. /\ hook' \in Hooks /\ hook'.sample = hook.sample
        /\ hook'.reported => hook'.events = 1
        /\ ~hook'.reported => hook'.events = 0
    BY Zenon, <1>16, PanicReported DEF Poll
  <2>3. /\ counts' \in Counters /\ counts'.written + counts'.lost = counts'.reported
        /\ counts'.failures = counts.failures /\ counts'.reported <= counts.failures
        /\ counts.reported <= counts'.reported
    BY Zenon, <1>16, <2>1, ReportedAddUp DEF Poll
  <2>4. CountInv'
    BY <1>16, <2>3 DEF Poll
  <2>5. PanicInv'
    BY Zenon, <1>16, <2>2 DEF Poll
  <2>6. Fresh' /\ MarkerInv'
    BY Zenon, <1>16 DEF Poll
  <2> QED BY Zenon, <1>16, <2>2, <2>3, <2>4, <2>5, <2>6 DEF Poll
<1>17. CASE UNCHANGED evidenceVars
  BY <1>17 DEF evidenceVars, runVars
<1> QED
  BY ZenonT(40), <1>1, <1>2, <1>3, <1>4, <1>5, <1>6, <1>7, <1>8, <1>9, <1>10, <1>11, <1>12, <1>13, <1>14, <1>15,
     <1>16, <1>17, Zenon DEF EvidenceNext

\* Wherever processes are killed and whichever writes fail: the marker of a run goes
\* only after its outcome was logged or a later instance has tried to report it, and
\* the run is traceless only if that one report could not be written; the events,
\* written or lost, account for every failure counted before the end; a captured
\* panic is in the log once, unless the last attempt to write it failed.
THEOREM EvidenceHolds == EvidenceSpec => []EvidenceIsComplete
<1>1. EvidenceInv => EvidenceIsComplete
  <2>1. EvidenceInv => NoRunDisappears
    BY DEF EvidenceInv, MarkerInv, NoRunDisappears
  <2>2. EvidenceInv => FailuresAddUp
    BY Zenon DEF EvidenceInv, EvidenceTypeOK, Counters, Dues, CountInv, FailuresAddUp
  <2>3. EvidenceInv => PanicReachesLog
    BY DEF EvidenceInv, PanicInv, PanicReachesLog
  <2> QED BY <2>1, <2>2, <2>3, Zenon DEF EvidenceIsComplete
<1> QED BY <1>1, EvidenceInitInv, EvidenceStepInv, PTL DEF EvidenceSpec
-----------------------------------------------------------------------------
(* The outbound attempts. *)


Places == {"idle", "routing", "routingLookup", "checks", "lookup", "literal", "refused", "dial", "tls",
           "request", "open", "failedRouting", "failedChecks", "failedLookup", "failedDial",
           "failedTls", "failedRequest"}
Labels == [stage : {"none", "dns", "udp", "connect", "tls"}, source : {"none", "target", "proxy", "proxy_protocol"}]
AttemptRecords ==
    [proxy : OutboundKinds \cup {"none"}, place : Places, left : Nat,
     stage : {"none", "dns", "udp", "connect", "tls"}, source : {"none", "target", "proxy", "proxy_protocol"},
     counted : Labels]

Peer(r) == IF r.proxy = "direct" THEN "target" ELSE "proxy"
First(r) == IF Udp(r.proxy) THEN "udp" ELSE "connect"

\* The labels the context of an attempt holds wherever it may fail.
Labelled(r) ==
    /\ r.place \in {"routing", "routingLookup"} => r.stage = "dns" /\ r.source = "target"
    /\ r.place = "checks" => r.stage = First(r) /\ r.source = Peer(r)
    /\ r.place \in {"lookup", "literal", "refused"} => r.stage = "dns" /\ r.source = Peer(r)
    /\ r.place = "dial" => r.stage = "connect" /\ r.source = Peer(r)
    /\ r.place = "tls" => r.stage = "tls" /\ r.source = Peer(r)
    /\ r.place = "request" => r.stage = "connect" /\ r.source = "proxy_protocol"

\* What was counted for an attempt that failed.
Counted(r) ==
    /\ r.place = "failedRouting" => r.counted.stage = "dns" /\ r.counted.source = "target"
    /\ r.place = "failedChecks" => r.counted.stage = First(r) /\ r.counted.source = Peer(r)
    /\ r.place = "failedLookup" => r.counted.stage = "dns" /\ r.counted.source = Peer(r)
    /\ r.place = "failedDial" => r.counted.stage = "connect" /\ r.counted.source = Peer(r)
    /\ r.place = "failedTls" => r.counted.stage = "tls" /\ r.counted.source = Peer(r)
    /\ r.place = "failedRequest" => r.counted.stage = "connect" /\ r.counted.source = "proxy_protocol"

Sound(r) == r \in AttemptRecords /\ Labelled(r) /\ Counted(r)

Looking == {a \in Attempts : attempts[a].place \in {"routingLookup", "lookup"}}
Held(r) == IF r.place \in {"routingLookup", "lookup"} THEN 2 ELSE 0

OutboundInv ==
    /\ attempts \in [Attempts -> AttemptRecords]
    /\ permits \in Int
    /\ \A a \in Attempts : Sound(attempts[a])
    /\ permits = DnsSlots - 2 * Cardinality(Looking)
-----------------------------------------------------------------------------
\* An attempt that moves from one sound record to another and takes or gives
\* back the permits of its lookup keeps the invariant.
LEMMA MovesKeep ==
    ASSUME OutboundInv, NEW a \in Attempts, NEW r, Sound(r), Set(a, r),
           permits' = permits + Held(attempts[a]) - Held(r)
    PROVE  OutboundInv'
<1>0. r \in AttemptRecords /\ attempts' = [attempts EXCEPT ![a] = r] /\ attempts \in [Attempts -> AttemptRecords]
  BY DEF Sound, Set, OutboundInv
<1>1. attempts' \in [Attempts -> AttemptRecords] /\ attempts'[a] = r
      /\ \A b \in Attempts \ {a} : attempts'[b] = attempts[b]
  BY Zenon, <1>0
<1>2. \A b \in Attempts : Sound(attempts'[b])
  BY <1>1, Zenon DEF OutboundInv
<1>3. IsFiniteSet(Looking) /\ Cardinality(Looking) \in Nat
  BY Zenon, AttemptsAssumption, FS_Subset, FS_CardinalityType DEF Looking
<1>4. permits' \in Int /\ permits' = DnsSlots - 2 * Cardinality(Looking')
  <2> DEFINE before == attempts[a].place \in {"routingLookup", "lookup"}
             after == r.place \in {"routingLookup", "lookup"}
  <2>0. permits = DnsSlots - 2 * Cardinality(Looking) /\ DnsSlots \in Nat
    BY Zenon, SlotsAssumption DEF OutboundInv
  <2>1. CASE before <=> after
    <3>1. Looking' = Looking
      BY Zenon, <1>1, <2>1 DEF Looking
    <3>2. permits' = permits
      BY <2>0, <1>3, <2>1 DEF Held
    <3> QED BY <3>1, <3>2, <2>0, <1>3
  <2>2. CASE before /\ ~after
    <3>1. Looking' = Looking \ {a} /\ a \in Looking
      BY <1>1, <2>2 DEF Looking
    <3>2. Cardinality(Looking') = Cardinality(Looking) - 1
      BY Zenon, <3>1, <1>3, FS_RemoveElement
    <3>3. permits' = permits + 2
      BY <2>0, <1>3, <2>2 DEF Held
    <3> QED BY SMTT(60), <3>2, <3>3, <2>0, <1>3
  <2>3. CASE ~before /\ after
    <3>1. Looking' = Looking \cup {a} /\ a \notin Looking
      BY Zenon, <1>1, <2>3 DEF Looking
    <3>2. Cardinality(Looking') = Cardinality(Looking) + 1
      BY Zenon, <3>1, <1>3, FS_AddElement
    <3>3. permits' = permits - 2
      BY <2>0, <1>3, <2>3 DEF Held
    <3> QED BY SMTT(60), <3>2, <3>3, <2>0, <1>3
  <2> QED BY <2>1, <2>2, <2>3
<1> QED BY Zenon, <1>1, <1>2, <1>4 DEF OutboundInv

\* The records an attempt moves to are sound, and hold permits only in a lookup.
LEMMA SoundMoves ==
    ASSUME NEW r, Sound(r)
    PROVE  /\ r.place = "routing" => LET s == [r EXCEPT !.place = "routingLookup"] IN Sound(s) /\ Held(s) = 2
           /\ r.place \in {"routing", "routingLookup"} =>
                LET s == [Observed(r) EXCEPT !.place = "checks"] IN Sound(s) /\ Held(s) = 0
           /\ r.place = "checks" => \A place \in {"literal", "lookup", "refused"} :
                LET s == [r EXCEPT !.stage = "dns", !.place = place]
                IN Sound(s) /\ Held(s) = IF place = "lookup" THEN 2 ELSE 0
           /\ r.place \in {"lookup", "literal"} => \A n \in Nat :
                LET s == [r EXCEPT !.stage = "connect", !.place = "dial", !.left = n] IN Sound(s) /\ Held(s) = 0
           /\ r.place = "dial" /\ r.left > 1 => LET s == [r EXCEPT !.left = @ - 1] IN Sound(s) /\ Held(s) = 0
           /\ r.place = "dial" =>
                LET s == [r EXCEPT !.stage = "tls", !.place = "tls"] IN Sound(s) /\ Held(s) = 0
           /\ r.place = "dial" =>
                LET s == [r EXCEPT !.source = "proxy_protocol", !.place = "request"] IN Sound(s) /\ Held(s) = 0
           /\ r.place \in {"dial", "request"} => LET s == [r EXCEPT !.place = "open"] IN Sound(s) /\ Held(s) = 0
           /\ r.place = "tls" => Sound(Secured(r)) /\ Held(Secured(r)) = 0
<1> USE DEF Sound, AttemptRecords, Labelled, Counted, Places, Labels, Peer, First, Held
<1>1. r.place = "routing" => LET s == [r EXCEPT !.place = "routingLookup"] IN Sound(s) /\ Held(s) = 2
  OBVIOUS
<1>2. r.place \in {"routing", "routingLookup"} =>
        LET s == [Observed(r) EXCEPT !.place = "checks"] IN Sound(s) /\ Held(s) = 0
  BY ZenonT(40) DEF Observed
<1>3. ASSUME r.place = "checks", NEW place \in {"literal", "lookup", "refused"}
      PROVE  LET s == [r EXCEPT !.stage = "dns", !.place = place]
             IN Sound(s) /\ Held(s) = IF place = "lookup" THEN 2 ELSE 0
  BY Zenon, <1>3
<1>4. ASSUME r.place \in {"lookup", "literal"}, NEW n \in Nat
      PROVE  LET s == [r EXCEPT !.stage = "connect", !.place = "dial", !.left = n] IN Sound(s) /\ Held(s) = 0
  BY Zenon, <1>4
<1>5. r.place = "dial" /\ r.left > 1 => LET s == [r EXCEPT !.left = @ - 1] IN Sound(s) /\ Held(s) = 0
  OBVIOUS
<1>6. r.place = "dial" => LET s == [r EXCEPT !.stage = "tls", !.place = "tls"] IN Sound(s) /\ Held(s) = 0
  BY Zenon
<1>7. r.place = "dial" =>
        LET s == [r EXCEPT !.source = "proxy_protocol", !.place = "request"] IN Sound(s) /\ Held(s) = 0
  BY Zenon
<1>8. r.place \in {"dial", "request"} => LET s == [r EXCEPT !.place = "open"] IN Sound(s) /\ Held(s) = 0
  OBVIOUS
<1>9. r.place = "tls" => Sound(Secured(r)) /\ Held(Secured(r)) = 0
  BY Zenon DEF Secured
<1> HIDE DEF Sound, Held
<1> QED BY <1>1, <1>2, <1>3, <1>4, <1>5, <1>6, <1>7, <1>8, <1>9, Zenon

\* A failure is counted as it should be, by an error and by a timeout.
LEMMA SoundFailures ==
    ASSUME NEW r, Sound(r),
           r.place \in {"routing", "routingLookup", "checks", "lookup", "refused", "dial", "tls", "request"}
    PROVE  /\ LET s == [r EXCEPT !.place = FailedAt(r.place), !.counted = [stage |-> Stage(r), source |-> Source(r)]]
              IN Sound(s) /\ Held(s) = 0
           /\ LET s == [r EXCEPT !.place = FailedAt(r.place), !.counted = [stage |-> r.stage, source |-> r.source]]
              IN Sound(s) /\ Held(s) = 0
<1>1. Stage(r) = r.stage /\ Source(r) = r.source
  BY Zenon DEF Stage, Source, Sound, Labelled
<1>2. PICK place \in {"failedRouting", "failedChecks", "failedLookup", "failedDial", "failedTls", "failedRequest"} :
        /\ FailedAt(r.place) = place
        /\ place = "failedRouting" <=> r.place \in {"routing", "routingLookup"}
        /\ place = "failedChecks" <=> r.place = "checks"
        /\ place = "failedLookup" <=> r.place \in {"lookup", "refused"}
        /\ place = "failedDial" <=> r.place = "dial"
        /\ place = "failedTls" <=> r.place = "tls"
        /\ place = "failedRequest" <=> r.place = "request"
  BY DEF FailedAt
<1>3. LET s == [r EXCEPT !.place = place, !.counted = [stage |-> r.stage, source |-> r.source]]
      IN Sound(s) /\ Held(s) = 0
  BY ZenonT(40), <1>2 DEF Sound, AttemptRecords, Labelled, Counted, Places, Labels, Peer, First, Held
<1> QED BY <1>1, <1>2, <1>3, Zenon

\* Every step of an attempt moves it to a sound record.
LEMMA OutboundStepInv == OutboundInv /\ [OutboundNext]_outboundVars => OutboundInv'
<1> SUFFICES ASSUME OutboundInv, [OutboundNext]_outboundVars PROVE OutboundInv'
  OBVIOUS
<1>1. ASSUME NEW a \in Attempts,
             \/ \E p \in OutboundKinds : BeginRoute(a, p)
             \/ \E literal \in BOOLEAN : LookUp(a, literal)
             \/ \E n \in 1 .. MaxAddresses : LookedUp(a, n)
             \/ RouteLookUp(a) \/ Routed(a) \/ NoPermit(a) \/ NextAddress(a) \/ Dialled(a)
             \/ Handshaken(a) \/ Requested(a) \/ StepFails(a) \/ TimesOut(a) \/ Dropped(a)
      PROVE  OutboundInv'
  <2> DEFINE r == attempts[a]
  <2>0. Sound(r) /\ permits \in Int /\ Freed(r, TRUE) = Held(r) /\ Freed(r, FALSE) = Held(r)
    BY DEF OutboundInv, Freed, Held
  <2>m. ASSUME NEW s, Sound(s), Set(a, s), permits' = permits + Held(r) - Held(s) PROVE OutboundInv'
    BY Zenon, <2>m, MovesKeep
  <2>n. ASSUME NEW s, Sound(s), Set(a, s), Held(s) = 0, permits' = permits + Held(r) PROVE OutboundInv'
    BY SMTT(60), <2>n, <2>m, <2>0 DEF Held
  <2>o. r.place \notin {"routingLookup", "lookup"} => Held(r) = 0
    BY Zenon DEF Held
  <2>s. Sound(NoAttempt) /\ Held(NoAttempt) = 0
    BY Zenon DEF Sound, NoAttempt, AttemptRecords, Places, Labels, Labelled, Counted, Held
  <2>1. ASSUME NEW p \in OutboundKinds, BeginRoute(a, p) PROVE OutboundInv'
    <3> DEFINE s == [NoAttempt EXCEPT !.proxy = p, !.place = "routing", !.stage = "dns", !.source = "target"]
    <3>1. Sound(s) /\ Held(s) = 0
      BY ZenonT(40) DEF Sound, NoAttempt, AttemptRecords, Places, Labels, Labelled, Counted, Held
    <3>2. r = NoAttempt /\ Set(a, s) /\ permits' = permits
      BY <2>1 DEF BeginRoute
    <3> HIDE DEF r, s
    <3> QED BY SMTT(60), <3>1, <3>2, <2>0, <2>n, <2>s
  <2>2. ASSUME NEW literal \in BOOLEAN, LookUp(a, literal) PROVE OutboundInv'
    <3> DEFINE place == IF literal THEN "literal" ELSE "lookup"
               s == [r EXCEPT !.stage = "dns", !.place = place]
    <3>1. r.place = "checks" /\ Set(a, s) /\ permits' = IF literal THEN permits ELSE permits - 2
      BY <2>2 DEF LookUp
    <3>2. Sound(s) /\ Held(s) = IF place = "lookup" THEN 2 ELSE 0
      BY Zenon, <3>1, <2>0, SoundMoves
    <3> HIDE DEF r, s
    <3> QED BY SMTT(60), <3>1, <3>2, <2>0, <2>m, <2>o
  <2>3. ASSUME NEW n \in 1 .. MaxAddresses, LookedUp(a, n) PROVE OutboundInv'
    <3> DEFINE s == [r EXCEPT !.stage = "connect", !.place = "dial", !.left = n]
    <3>1. r.place \in {"lookup", "literal"} /\ Set(a, s) /\ permits' = permits + Held(r)
      BY Zenon, <2>3, <2>0 DEF LookedUp
    <3>2. n \in Nat
      BY SlotsAssumption
    <3> QED BY <3>1, <3>2, <2>0, <2>n, SoundMoves, Zenon
  <2>4. CASE RouteLookUp(a)
    <3> DEFINE s == [r EXCEPT !.place = "routingLookup"]
    <3>1. r.place = "routing" /\ Set(a, s) /\ permits' = permits - 2
      BY <2>4 DEF RouteLookUp
    <3>2. Sound(s) /\ Held(s) = 2
      BY <3>1, <2>0, SoundMoves, Zenon
    <3> HIDE DEF r, s
    <3> QED BY SMTT(60), <3>1, <3>2, <2>0, <2>m, <2>o
  <2>5. CASE Routed(a)
    <3> DEFINE s == [Observed(r) EXCEPT !.place = "checks"]
    <3>1. r.place \in {"routing", "routingLookup"} /\ Set(a, s) /\ permits' = permits + Held(r)
      BY Zenon, <2>5, <2>0 DEF Routed
    <3> QED BY <3>1, <2>0, <2>n, SoundMoves, Zenon
  <2>6. CASE NoPermit(a)
    <3> DEFINE s == [r EXCEPT !.stage = "dns", !.place = "refused"]
    <3>1. r.place = "checks" /\ Set(a, s) /\ permits' = permits
      BY Zenon, <2>6 DEF NoPermit
    <3>2. Sound(s) /\ Held(s) = 0
      BY Zenon, <3>1, <2>0, SoundMoves
    <3> HIDE DEF r, s
    <3> QED BY SMTT(60), <3>1, <3>2, <2>0, <2>n, <2>o
  <2>7. CASE NextAddress(a) \/ Dialled(a) \/ Handshaken(a) \/ Requested(a)
    <3>1. permits' = permits /\ r.place \in {"dial", "tls", "request"}
      BY Zenon, <2>7 DEF NextAddress, Dialled, Handshaken, Requested
    <3>2. permits' = permits + Held(r)
      BY SMTT(60), <3>1, <2>0, <2>o
    <3>3. PICK s : Set(a, s) /\ Sound(s) /\ Held(s) = 0
      <4>1. CASE NextAddress(a)
        BY <4>1, <2>0, SoundMoves, Zenon DEF NextAddress
      <4>2. CASE Dialled(a)
        <5>1. PICK s : Set(a, s) /\ s = CASE Tls(r.proxy) -> [r EXCEPT !.stage = "tls", !.place = "tls"]
                                           [] r.proxy = "shadowsocks" -> [r EXCEPT !.source = "proxy_protocol", !.place = "request"]
                                           [] OTHER -> [r EXCEPT !.place = "open"]
          BY <4>2, Zenon DEF Dialled
        <5>2. \/ s = [r EXCEPT !.stage = "tls", !.place = "tls"]
              \/ s = [r EXCEPT !.source = "proxy_protocol", !.place = "request"]
              \/ s = [r EXCEPT !.place = "open"]
          BY Zenon, <5>1 DEF Tls
        <5>3. r.place = "dial"
          BY Zenon, <4>2 DEF Dialled
        <5> QED BY <5>1, <5>2, <5>3, <2>0, SoundMoves, Zenon
      <4>3. CASE Handshaken(a)
        BY <4>3, <2>0, SoundMoves, Zenon DEF Handshaken
      <4>4. CASE Requested(a)
        BY <4>4, <2>0, SoundMoves, Zenon DEF Requested
      <4> QED BY <2>7, <4>1, <4>2, <4>3, <4>4, Zenon
    <3> QED BY Zenon, <3>2, <3>3, <2>n
  <2>8. CASE StepFails(a)
    <3> DEFINE s == [r EXCEPT !.place = FailedAt(r.place), !.counted = [stage |-> Stage(r), source |-> Source(r)]]
    <3>1. /\ r.place \in {"routing", "routingLookup", "checks", "lookup", "refused", "dial", "tls", "request"}
          /\ Set(a, s) /\ permits' = permits + Held(r)
      BY Zenon, <2>8, <2>0 DEF StepFails
    <3> QED BY <3>1, <2>0, <2>n, SoundFailures, Zenon
  <2>9. CASE TimesOut(a)
    <3> DEFINE s == [r EXCEPT !.place = FailedAt(r.place), !.counted = [stage |-> r.stage, source |-> r.source]]
    <3>1. /\ r.place \in {"routing", "routingLookup", "checks", "lookup", "refused", "dial", "tls", "request"}
          /\ Set(a, s) /\ permits' = permits + Held(r)
      BY Zenon, <2>9, <2>0 DEF TimesOut
    <3> QED BY <3>1, <2>0, <2>n, SoundFailures, Zenon
  <2>10. CASE Dropped(a)
    BY Zenon, <2>10, <2>0, <2>n, <2>s DEF Dropped
  <2> QED BY <1>1, <2>1, <2>2, <2>3, <2>4, <2>5, <2>6, <2>7, <2>8, <2>9, <2>10, Zenon
<1>2. CASE UNCHANGED outboundVars
  BY Zenon, <1>2 DEF outboundVars, OutboundInv, Looking
<1> QED BY <1>1, <1>2, Zenon DEF OutboundNext

\* A failure is counted where it happened and every permit comes back, for any
\* number of attempts that share the resolver.
THEOREM OutboundHolds == OutboundSpec => []OutboundsAccount
<1>1. OutboundInit => OutboundInv
  <2> SUFFICES ASSUME OutboundInit PROVE OutboundInv
    OBVIOUS
  <2>1. Sound(NoAttempt)
    BY DEF Sound, NoAttempt, AttemptRecords, Places, Labels, Labelled, Counted
  <2>2. attempts \in [Attempts -> AttemptRecords] /\ \A a \in Attempts : Sound(attempts[a])
    BY Zenon, <2>1 DEF OutboundInit, Sound
  <2>3. Looking = {}
    BY DEF OutboundInit, Looking, NoAttempt
  <2>4. Cardinality(Looking) = 0
    BY Zenon, <2>3, FS_EmptySet
  <2> QED BY SMTT(60), <2>2, <2>4, SlotsAssumption DEF OutboundInv, OutboundInit
<1>2. OutboundInv => OutboundsAccount
  <2> SUFFICES ASSUME OutboundInv PROVE OutboundsAccount
    BY Zenon
  <2>1. PermitsComeBack
    BY Zenon DEF OutboundInv, PermitsComeBack, Looking
  <2>2. CountedWhereItFailed
    <3>1. \A a \in Attempts : attempts[a] \in AttemptRecords /\ Counted(attempts[a])
      BY DEF OutboundInv, Sound
    <3> QED BY <3>1 DEF CountedWhereItFailed, Failed, Counted, AttemptRecords, Labels, Peer, First
  <2> QED BY <2>1, <2>2 DEF OutboundsAccount
<1> QED BY <1>1, <1>2, OutboundStepInv, PTL DEF OutboundSpec
=============================================================================
