------------------------- MODULE ConnectionsProofs -------------------------
(***************************************************************************)
(* What the control API lists of the connections is valid and true, the    *)
(* loop has room for what it accepts and ends with nothing left, a worker  *)
(* has its permit, and neither a closing record nor recorded evidence      *)
(* changes: for any number of connections, permits and tickets.            *)
(***************************************************************************)
EXTENDS ConnectionsSteps, FiniteSetTheorems

\* Sets of connections are finite.
LEMMA FiniteParts ==
    ASSUME NEW S \in SUBSET Connections
    PROVE  IsFiniteSet(S) /\ Cardinality(S) \in Nat
<1>1. IsFiniteSet(Connections)
  BY LimitsAssumption, FS_Interval DEF Connections
<1> QED BY Zenon, <1>1, FS_Subset, FS_CardinalityType

\* A set of connections with one more.
LEMMA CountAdd ==
    ASSUME NEW S \in SUBSET Connections, NEW T, NEW s, s \notin S, T = S \cup {s}
    PROVE  Cardinality(T) = Cardinality(S) + 1
BY Zenon, FiniteParts, FS_AddElement

\* A set of connections with one less.
LEMMA CountRemove ==
    ASSUME NEW S \in SUBSET Connections, NEW T, NEW s, s \in S, T = S \ {s}
    PROVE  Cardinality(T) = Cardinality(S) - 1
BY Zenon, FiniteParts, FS_RemoveElement

\* The permits that are left are as many as the counts say.
LEMMA PermitTypes ==
    ASSUME NEW U \in SUBSET Connections, NEW R \in SUBSET U, NEW p,
           p = MaxConnections - Cardinality(R), Cardinality(U) <= MaxConnections
    PROVE  p \in 0 .. MaxConnections
<1>1. IsFiniteSet(U) /\ Cardinality(U) \in Nat /\ Cardinality(R) \in Nat
  BY Zenon, FiniteParts
<1>2. Cardinality(R) <= Cardinality(U)
  BY Zenon, <1>1, FS_Subset
<1> QED BY SMTT(60), <1>1, <1>2, LimitsAssumption

\* associate takes one of the UDP permits.
LEMMA AssociatedKeeps ==
    ASSUME ConnectionsInv, NEW s \in Connections, Associated(s)
    PROVE  ConnectionsInv'
<1> DEFINE r2 == [task[s] EXCEPT !.pc = "relay", !.permit = TRUE]
<1>1. Fits(task[s], entries[s]) /\ task[s] \in Task /\ task[s].pc = "associate"
  BY Zenon, InvFits DEF Associated, Fits
<1>2. Listed(task[s]) /\ TaskInv(task[s]) /\ RecordInv(task[s], entries[s])
  BY Zenon, <1>1 DEF Fits, Listed, Serves, Runs
<1>3. /\ r2.pc = "relay" /\ r2.permit = TRUE /\ r2.probe = task[s].probe /\ r2.worker = task[s].worker
      /\ r2.inbound = task[s].inbound /\ r2.target = task[s].target /\ r2.route = task[s].route
  BY ZenonT(40), <1>1 DEF Task
<1>4. r2 \in Task
  <2>1. "relay" \in Labels
    BY Zenon DEF Labels, Awaits
  <2> QED BY Zenon, <1>1, <2>1 DEF Task
<1>5. TaskInv(r2)
  BY ZenonT(40), <1>1, <1>2, <1>3, NoneAssumption DEF TaskInv, Serves, Awaits, Runs, Relays, Pinned
<1>6. Listed(r2)
  BY Zenon, <1>3 DEF Listed, Serves, Awaits
<1>7. entries[s].phase # "closing" => Shows(r2, entries[s])
  BY ZenonT(40), <1>1, <1>2, <1>3 DEF RecordInv, Shows, PhaseAt, Serves, Runs, Pinned
<1>8. Fits(r2, entries[s])
  BY Zenon, <1>1, <1>2, <1>4, <1>5, <1>6, <1>7, StayFits
<1>9. ~task[s].permit
  BY Zenon, <1>1, <1>2 DEF TaskInv, Relays
<1> HIDE DEF r2
<1>10. task' = [task EXCEPT ![s] = r2] /\ UNCHANGED <<loopVars, entries, apiVars>>
  BY Zenon DEF Associated, Goes, r2
<1>11. Holders' = Holders \cup {s} /\ s \notin Holders /\ Holders \in SUBSET Connections
  BY Zenon, <1>3, <1>9, <1>10 DEF Holders, ConnectionsInv, TypeOK
<1>12. Cardinality(Holders') = Cardinality(Holders) + 1 /\ Cardinality(Holders) \in Nat
  BY Zenon, <1>11, CountAdd, FiniteParts
<1>13. udpPermits' = MaxUdp - Cardinality(Holders') /\ udpPermits' \in 0 .. MaxUdp
  BY SMTT(60), <1>12, LimitsAssumption DEF Associated, ConnectionsInv, CountInv, TypeOK
<1>14. r2.pc \notin {"dialing", "routed", "connecting", "active"}
  BY Zenon, <1>3
<1> QED BY Zenon, <1>2, <1>3, <1>6, <1>8, <1>10, <1>13, <1>14, HolderStep

\* The permit goes back with the session.
LEMMA DropSessionKeeps ==
    ASSUME ConnectionsInv, NEW s \in Connections, DropSession(s)
    PROVE  ConnectionsInv'
<1> DEFINE r2 == [task[s] EXCEPT !.pc = "record", !.permit = FALSE]
<1>1. Fits(task[s], entries[s]) /\ task[s] \in Task /\ task[s].pc = "session"
  BY Zenon, InvFits DEF DropSession, Fits
<1>2. Listed(task[s]) /\ TaskInv(task[s]) /\ RecordInv(task[s], entries[s])
  BY Zenon, <1>1 DEF Fits, Listed, Ending
<1>3. r2.pc = "record" /\ r2.permit = FALSE /\ r2.probe = task[s].probe /\ r2.worker = task[s].worker
  BY Zenon, <1>1 DEF Task
<1>4. r2 \in Task
  <2>1. "record" \in Labels
    BY Zenon DEF Labels, Ending
  <2> QED BY Zenon, <1>1, <2>1 DEF Task
<1>5. TaskInv(r2)
  BY Zenon, <1>1, <1>2, <1>3, NoneAssumption DEF TaskInv, Serves, Awaits, Runs, Relays, Pinned
<1>6. Listed(r2) /\ r2.pc \notin Serves
  BY Zenon, <1>3 DEF Listed, Serves, Awaits, Runs, Ending
<1>7. Fits(r2, entries[s])
  BY Zenon, <1>1, <1>2, <1>4, <1>5, <1>6, StayFits
<1> HIDE DEF r2
<1>8. task' = [task EXCEPT ![s] = r2] /\ UNCHANGED <<loopVars, entries, apiVars>>
  BY Zenon DEF DropSession, Goes, r2
<1>9. task'[s] = r2 /\ \A c \in Connections \ {s} : task'[c] = task[c]
  BY Zenon, <1>8 DEF ConnectionsInv, TypeOK
<1>10. Holders \in SUBSET Connections /\ Holders' = Holders \ {s}
  BY Zenon, <1>3, <1>9 DEF Holders
<1>11. Cardinality(Holders) \in Nat /\ Cardinality(Holders') \in Nat
  BY Zenon, <1>10, FiniteParts
<1>12. udpPermits' = MaxUdp - Cardinality(Holders')
  <2>1. CASE task[s].permit
    <3>1. Cardinality(Holders') = Cardinality(Holders) - 1
      BY Zenon, <2>1, <1>10, CountRemove DEF Holders
    <3>2. udpPermits' = udpPermits + 1
      BY Zenon, <2>1 DEF DropSession
    <3> QED BY SMTT(60), <3>1, <3>2, <1>11, LimitsAssumption DEF ConnectionsInv, CountInv
  <2>2. CASE ~task[s].permit
    <3>1. Holders' = Holders
      BY Zenon, <2>2, <1>10 DEF Holders
    <3>2. udpPermits' = udpPermits
      BY Zenon, <2>2 DEF DropSession
    <3> QED BY Zenon, <3>1, <3>2 DEF ConnectionsInv, CountInv
  <2> QED BY Zenon, <2>1, <2>2
<1>13. udpPermits' \in 0 .. MaxUdp
  <2>1. udpPermits' \in {udpPermits, udpPermits + 1}
    BY Zenon DEF DropSession
  <2> QED BY SMTT(60), <2>1, <1>11, <1>12, LimitsAssumption DEF ConnectionsInv, TypeOK
<1>14. r2.pc \notin {"dialing", "routed", "connecting", "active"}
  BY Zenon, <1>3
<1> QED BY ZenonT(40), <1>2, <1>3, <1>6, <1>7, <1>8, <1>12, <1>13, <1>14, HolderStep

\* The record and the connection's permit go together.
LEMMA DropRecordKeeps ==
    ASSUME ConnectionsInv, NEW s \in Connections, DropRecord(s)
    PROVE  ConnectionsInv'
<1> DEFINE r2 == [task[s] EXCEPT !.pc = "finished"]
<1>1. Fits(task[s], entries[s]) /\ task[s] \in Task /\ task[s].pc = "record"
  BY Zenon, InvFits DEF DropRecord, Fits
<1>2. Listed(task[s]) /\ TaskInv(task[s]) /\ entries[s] # NONE
  BY Zenon, <1>1 DEF Fits, RecordInv, Listed, Ending
<1>3. r2.pc = "finished" /\ r2.permit = task[s].permit /\ r2.probe = task[s].probe /\ r2.worker = task[s].worker
  BY Zenon, <1>1 DEF Task
<1>4. r2 \in Task
  BY Zenon, <1>1, TaskFields DEF Labels
<1>5. TaskInv(r2)
  BY ZenonT(40), <1>1, <1>2, <1>3, NoneAssumption DEF TaskInv, Serves, Awaits, Runs, Relays, Pinned
<1>6. ~Listed(r2) /\ r2.pc \notin Serves
  BY Zenon, <1>3 DEF Listed, Serves, Awaits, Runs, Ending
<1>7. Fits(r2, NONE)
  BY Zenon, <1>4, <1>5, <1>6 DEF Fits, RecordInv
<1> HIDE DEF r2
<1>8. /\ task' = [task EXCEPT ![s] = r2] /\ entries' = [entries EXCEPT ![s] = NONE]
      /\ permits' = permits + 1 /\ UNCHANGED <<listener, ok, sequence, udpPermits, apiVars>>
  BY Zenon DEF DropRecord, GoesTo, Goes, r2
<1>9. /\ task' \in [Connections -> Task] /\ entries' \in [Connections -> Entry \cup {NONE}]
      /\ \A c \in Connections : TaskInv(task'[c]) /\ RecordInv(task'[c], entries'[c])
      /\ \A c \in Connections \ {s} : task'[c] = task[c] /\ entries'[c] = entries[c]
      /\ task'[s] = r2 /\ entries'[s] = NONE
  BY Zenon, <1>7, <1>8, FitsNext
<1>10. Unjoined' = Unjoined /\ Holders' = Holders
  BY ZenonT(40), <1>1, <1>3, <1>9 DEF Unjoined, Holders
<1>11. Registered \in SUBSET Connections /\ s \in Registered /\ Registered' = Registered \ {s}
  BY Zenon, <1>2, <1>9 DEF Registered
<1>12. Cardinality(Registered') = Cardinality(Registered) - 1 /\ Cardinality(Registered) \in Nat
  BY Zenon, <1>11, CountRemove, FiniteParts
<1>13. permits' = MaxConnections - Cardinality(Registered')
  BY SMTT(60), <1>8, <1>12, LimitsAssumption DEF ConnectionsInv, CountInv
<1>14. CountInv'
  BY Zenon, <1>8, <1>10, <1>13 DEF ConnectionsInv, CountInv
<1>15. permits' \in 0 .. MaxConnections
  <2>1. ASSUME NEW c \in Connections, entries'[c] # NONE PROVE task'[c].pc \notin {"unborn", "joined"}
    BY Zenon, <2>1, <1>9, ListedOpen DEF RecordInv
  <2>2. Unjoined' \in SUBSET Connections /\ Registered' \in SUBSET Unjoined'
    BY Zenon, <2>1 DEF Registered, Unjoined
  <2>3. Cardinality(Unjoined') <= MaxConnections
    BY Zenon, <1>14 DEF CountInv
  <2> QED BY Zenon, <2>2, <2>3, <1>13, PermitTypes
<1>16. TypeOK'
  BY ZenonT(40), <1>8, <1>9, <1>15 DEF ConnectionsInv, TypeOK, apiVars
<1>17. TasksInv'
  BY ZenonT(40), <1>1, <1>8, <1>9 DEF ConnectionsInv, TasksInv
<1>18. LoopInv'
  BY ZenonT(40), <1>3, <1>8, <1>9, <1>10 DEF ConnectionsInv, LoopInv
<1>19. ProbesInv'
  BY Zenon, <1>3, <1>8, ProbesStay DEF ProbeStays
<1> QED BY ZenonT(40), <1>14, <1>16, <1>17, <1>18, <1>19 DEF ConnectionsInv

\* A connection is accepted: it has a permit, a record and a task.
LEMMA AcceptKeeps ==
    ASSUME ConnectionsInv, Accept
    PROVE  ConnectionsInv'
<1> DEFINE s == sequence + 1
           r2 == [task[s] EXCEPT !.pc = "handshake"]
<1>1. s \in Connections /\ sequence \in Nat
  BY SMTT(60), LimitsAssumption DEF Accept, ConnectionsInv, TypeOK, Connections
<1>2. s > sequence
  BY <1>1
<1>3. Fits(task[s], entries[s]) /\ task[s] \in Task /\ task[s].pc = "unborn"
  BY ZenonT(40), <1>1, <1>2, InvFits DEF Fits, ConnectionsInv, TasksInv
<1>4. ~Listed(task[s]) /\ TaskInv(task[s]) /\ entries[s] = NONE
  BY Zenon, <1>3 DEF Fits, RecordInv, Listed, Serves, Awaits, Runs, Ending
<1>5. /\ r2.pc = "handshake" /\ r2.permit = task[s].permit /\ r2.probe = task[s].probe
      /\ r2.worker = task[s].worker /\ r2.inbound = task[s].inbound /\ r2.target = task[s].target
      /\ r2.route = task[s].route /\ r2.pinned = task[s].pinned
  BY Zenon, <1>3 DEF Task
<1>6. r2 \in Task
  BY Zenon, <1>3, TaskFields DEF Labels, Awaits
<1>7. TaskInv(r2)
  BY ZenonT(40), <1>3, <1>4, <1>5, NoneAssumption DEF TaskInv, Serves, Awaits, Runs, Relays, Pinned
<1>8. r2.inbound = NONE /\ r2.target = NONE /\ r2.route = NONE /\ r2.probe = NONE
  BY Zenon, <1>5, <1>7 DEF TaskInv
<1>9. Handshake \in Entry /\ Handshake # NONE /\ ValidEntry(Handshake) /\ Shows(r2, Handshake)
  <2>1. Handshake \in Entry
    BY Zenon DEF Handshake, Entry, Phases
  <2>2. ValidEntry(Handshake)
    BY Zenon, NoneAssumption DEF Handshake, ValidEntry, Inbounds
  <2>3. Shows(r2, Handshake)
    BY Zenon, <1>5, <1>8 DEF Handshake, Shows, PhaseAt, Pinned
  <2> QED BY Zenon, <2>1, <2>2, <2>3, NoneAssumption
<1>10. Fits(r2, Handshake)
  BY ZenonT(40), <1>5, <1>6, <1>7, <1>9 DEF Fits, RecordInv, Listed, Serves, Awaits
<1>11. /\ task' = [task EXCEPT ![s] = r2] /\ entries' = [entries EXCEPT ![s] = Handshake]
       /\ permits' = permits - 1 /\ sequence' = s /\ UNCHANGED <<listener, ok, udpPermits, apiVars>>
       /\ listener = "accepting" /\ Cardinality(Unjoined) < MaxConnections /\ sequence < MaxSequence
  BY Zenon DEF Accept
<1> HIDE DEF r2
<1>12. /\ task' \in [Connections -> Task] /\ entries' \in [Connections -> Entry \cup {NONE}]
       /\ \A c \in Connections : TaskInv(task'[c]) /\ RecordInv(task'[c], entries'[c])
       /\ \A c \in Connections \ {s} : task'[c] = task[c] /\ entries'[c] = entries[c]
       /\ task'[s] = r2 /\ entries'[s] = Handshake
  BY ZenonT(40), <1>1, <1>10, <1>11, FitsNext
<1> HIDE DEF s
<1>13. Holders' = Holders
  BY Zenon, <1>1, <1>5, <1>12 DEF Holders
<1>14. Unjoined \in SUBSET Connections /\ s \notin Unjoined /\ Unjoined' = Unjoined \cup {s}
  BY ZenonT(40), <1>1, <1>3, <1>5, <1>12 DEF Unjoined
<1>15. Registered \in SUBSET Connections /\ s \notin Registered /\ Registered' = Registered \cup {s}
  BY ZenonT(40), <1>1, <1>4, <1>9, <1>12 DEF Registered
<1>16. /\ Cardinality(Registered') = Cardinality(Registered) + 1 /\ Cardinality(Registered) \in Nat
       /\ Cardinality(Unjoined') = Cardinality(Unjoined) + 1 /\ Cardinality(Unjoined) \in Nat
  BY ZenonT(40), <1>14, <1>15, CountAdd, FiniteParts
<1>17. permits' = MaxConnections - Cardinality(Registered') /\ Cardinality(Unjoined') <= MaxConnections
  BY SMTT(30), <1>11, <1>16, LimitsAssumption DEF ConnectionsInv, CountInv
<1>18. CountInv'
  BY ZenonT(40), <1>11, <1>13, <1>17 DEF ConnectionsInv, CountInv
<1>19. permits' \in 0 .. MaxConnections
  <2>1. ASSUME NEW c \in Connections, entries'[c] # NONE PROVE task'[c].pc \notin {"unborn", "joined"}
    BY ZenonT(40), <2>1, <1>12, ListedOpen DEF RecordInv
  <2>2. Unjoined' \in SUBSET Connections /\ Registered' \in SUBSET Unjoined'
    BY Zenon, <2>1 DEF Registered, Unjoined
  <2> QED BY Zenon, <2>2, <1>17, PermitTypes
<1>20. TypeOK'
  <2>1. sequence' \in 0 .. MaxSequence
    BY <1>1, <1>11 DEF s, Connections
  <2> QED BY ZenonT(40), <2>1, <1>11, <1>12, <1>19 DEF ConnectionsInv, TypeOK, apiVars
<1>21. TasksInv'
  <2>1. ASSUME NEW c \in Connections, c > sequence' PROVE task'[c].pc = "unborn"
    <3>1. c > sequence /\ c # s
      BY SMTT(60), <2>1, <1>1, <1>11 DEF s, Connections
    <3> QED BY Zenon, <3>1, <1>12 DEF ConnectionsInv, TasksInv
  <2> QED BY Zenon, <2>1, <1>12 DEF TasksInv
<1>22. LoopInv'
  <2>1. listener' = "accepting" /\ listener = "accepting"
    BY Zenon, <1>11
  <2>2. ASSUME NEW c \in Connections, task'[c].pc = "joined", task'[c].failed PROVE FALSE
    <3>1. c # s
      BY Zenon, <2>2, <1>5, <1>12
    <3> QED BY ZenonT(40), <2>1, <2>2, <3>1, <1>12 DEF ConnectionsInv, LoopInv
  <2> QED BY Zenon, <2>1, <2>2 DEF LoopInv
<1>23. ProbesInv'
  BY ZenonT(40), <1>1, <1>8, <1>11, ProbesStay DEF ProbeStays
<1> QED BY ZenonT(40), <1>18, <1>20, <1>21, <1>22, <1>23 DEF ConnectionsInv

\* The loop takes the result of a task that is done.
LEMMA JoinKeeps ==
    ASSUME ConnectionsInv, NEW s \in Connections, Join(s)
    PROVE  ConnectionsInv'
<1> DEFINE r2 == [Unborn EXCEPT !.pc = "joined", !.failed = task[s].failed]
<1>1. Fits(task[s], entries[s]) /\ task[s] \in Task /\ task[s].pc = "finished"
  BY Zenon, InvFits DEF Join, Fits
<1>2. ~Listed(task[s]) /\ TaskInv(task[s]) /\ entries[s] = NONE
  BY Zenon, <1>1 DEF Fits, RecordInv, Listed, Serves, Awaits, Runs, Ending
<1>3. task[s].permit = FALSE /\ task[s].failed \in BOOLEAN
  BY Zenon, <1>1, <1>2 DEF TaskInv, Task, Relays
<1>4. r2.pc = "joined" /\ r2.permit = FALSE /\ r2.probe = NONE /\ r2.worker = NONE /\ r2.failed = task[s].failed
  BY Zenon DEF Unborn
<1>5. r2 \in Task
  <2>1. [Unborn EXCEPT !.pc = "joined"] \in Task
    BY Zenon, UnbornTask, TaskFields DEF Labels
  <2> QED BY Zenon, <1>3, <2>1, TaskFields
<1> HIDE DEF r2
<1>6. TaskInv(r2)
  BY Zenon, <1>4, NoneAssumption DEF TaskInv, Serves, Awaits, Runs, Relays, Pinned
<1>7. Fits(r2, entries[s])
  BY ZenonT(40), <1>1, <1>2, <1>4, <1>5, <1>6 DEF Fits, RecordInv, Listed, Serves, Awaits, Runs, Ending
<1>8. /\ task' = [task EXCEPT ![s] = r2] /\ ok' = (ok /\ ~task[s].failed)
      /\ UNCHANGED <<sequence, entries, permits, udpPermits, apiVars>>
      /\ listener \in {"accepting", "draining"}
      /\ listener' = IF listener = "accepting" /\ task[s].failed THEN "stopping" ELSE listener
  BY Zenon DEF Join, Goes, ResultWith, r2
<1>9. entries' = [entries EXCEPT ![s] = entries[s]]
  BY Zenon, <1>8, EntriesStay
<1>10. /\ task' \in [Connections -> Task] /\ entries' \in [Connections -> Entry \cup {NONE}]
       /\ \A c \in Connections : TaskInv(task'[c]) /\ RecordInv(task'[c], entries'[c])
       /\ \A c \in Connections \ {s} : task'[c] = task[c] /\ entries'[c] = entries[c]
       /\ task'[s] = r2
  BY ZenonT(40), <1>7, <1>8, <1>9, FitsNext
<1>11. Holders' = Holders /\ Registered' = Registered
  BY ZenonT(40), <1>3, <1>4, <1>8, <1>10 DEF Holders, Registered
<1>12. Unjoined \in SUBSET Connections /\ Unjoined' = Unjoined \ {s} /\ s \in Unjoined
  BY Zenon, <1>1, <1>4, <1>10 DEF Unjoined
<1>13. Cardinality(Unjoined') = Cardinality(Unjoined) - 1 /\ Cardinality(Unjoined) \in Nat
  BY Zenon, <1>12, CountRemove, FiniteParts
<1>14. Cardinality(Unjoined') <= MaxConnections
  BY SMTT(60), <1>13, LimitsAssumption DEF ConnectionsInv, CountInv
<1>15. CountInv'
  BY ZenonT(40), <1>8, <1>11, <1>14 DEF ConnectionsInv, CountInv
<1>16. listener' \in {"accepting", "stopping", "draining"} /\ ok' \in BOOLEAN
  BY Zenon, <1>8
<1>17. TypeOK'
  BY ZenonT(40), <1>8, <1>10, <1>16 DEF ConnectionsInv, TypeOK, apiVars
<1>18. TasksInv'
  BY ZenonT(40), <1>1, <1>8, <1>10 DEF ConnectionsInv, TasksInv
<1>19. LoopInv'
  <2>1. ASSUME NEW c \in Connections, task'[c].pc = "joined", task'[c].failed
        PROVE  listener' # "accepting" /\ ~ok'
    <3>1. CASE c = s
      BY ZenonT(40), <2>1, <3>1, <1>4, <1>8, <1>10
    <3>2. CASE c # s
      BY ZenonT(40), <2>1, <3>2, <1>8, <1>10 DEF ConnectionsInv, LoopInv
    <3> QED BY Zenon, <3>1, <3>2
  <2> QED BY Zenon, <2>1, <1>16 DEF LoopInv
<1>20. ProbesInv'
  BY Zenon, <1>4, <1>8, ProbesStay DEF ProbeStays
<1> QED BY Zenon, <1>15, <1>17, <1>18, <1>19, <1>20 DEF ConnectionsInv

-----------------------------------------------------------------------------

\* When the runtime starts nothing is connected and every permit is free.
LEMMA InitInv == Init => ConnectionsInv
<1> SUFFICES ASSUME Init PROVE ConnectionsInv
  OBVIOUS
<1>1. \A s \in Connections : task[s] = Unborn /\ entries[s] = NONE
  BY Zenon DEF Init
<1>2. Unborn.pc = "unborn" /\ Unborn.permit = FALSE /\ Unborn.probe = NONE /\ Unborn.worker = NONE
      /\ Unborn.failed = FALSE /\ Unborn.inbound = NONE /\ Unborn.target = NONE
      /\ Unborn.route = NONE /\ Unborn.pinned = NONE
  BY Zenon DEF Unborn
<1>3. TaskInv(Unborn)
  BY Zenon, <1>2, NoneAssumption DEF TaskInv, Serves, Awaits, Runs, Relays, Pinned
<1>4. RecordInv(Unborn, NONE)
  BY Zenon, <1>2 DEF RecordInv, Listed, Serves, Awaits, Runs, Ending
<1>5. Registered = {} /\ Unjoined = {} /\ Holders = {}
  BY Zenon, <1>1, <1>2 DEF Registered, Unjoined, Holders
<1>6. TypeOK
  <2>1. task \in [Connections -> Task]
    BY Zenon, UnbornTask DEF Init
  <2> QED BY <2>1, LimitsAssumption DEF Init, TypeOK
<1>7. TasksInv
  BY Zenon, <1>1, <1>2, <1>3, <1>4 DEF TasksInv
<1>8. CountInv
  BY SMTT(60), <1>5, FS_EmptySet, LimitsAssumption DEF Init, CountInv
<1>9. LoopInv
  BY Zenon, <1>1, <1>2 DEF Init, LoopInv
<1>10. ProbesInv
  BY Zenon, <1>1, <1>2 DEF Init, ProbesInv, ProbeInv
<1> QED BY ZenonT(40), <1>6, <1>7, <1>8, <1>9, <1>10 DEF ConnectionsInv

\* Every request, datagram, timeout, panic, close and turn of the loop preserves
\* the invariant.
LEMMA NextInv == ConnectionsInv /\ [Next]_vars => ConnectionsInv'
<1> SUFFICES ASSUME ConnectionsInv, [Next]_vars PROVE ConnectionsInv'
  BY Zenon
<1>1. ASSUME NEW s \in Connections, Request(s) PROVE ConnectionsInv'
  <2>1. ASSUME NEW target \in Targets, Socks5Connect(s, target) PROVE ConnectionsInv'
    BY Zenon, <2>1, Socks5ConnectKeeps
  <2>2. ASSUME NEW inbound \in Clients \cap {"http_connect", "http_forward"}, NEW target \in Targets,
               NEW token \in {NONE} \cup (IF inbound = "http_forward" THEN 1 .. issued ELSE {}),
               HttpRequest(s, target, inbound, token)
        PROVE  ConnectionsInv'
    <3>1. token \in {NONE} \cup 1 .. issued
      BY Zenon
    <3> QED BY Zenon, <2>2, <3>1, HttpRequestKeeps
  <2>3. ASSUME NEW requested \in Senders \cup {NONE}, Socks5Associate(s, requested) PROVE ConnectionsInv'
    BY Zenon, <2>3, Socks5AssociateKeeps
  <2> QED BY ZenonT(40), <1>1, <2>1, <2>2, <2>3 DEF Request
<1>2. ASSUME NEW s \in Connections, Relay(s) PROVE ConnectionsInv'
  BY ZenonT(40), <1>2, DatagramKeeps, FirstDatagramKeeps, UdpOpenedKeeps, WorkerEndsKeeps DEF Relay
<1>3. ASSUME NEW s \in Connections, TaskRuns(s) PROVE ConnectionsInv'
  BY ZenonT(40), <1>3, ClaimProbeKeeps, DialContinueKeeps, AssociateRefusedKeeps, AssociatedKeeps,
     UdpContinueKeeps, InterruptKeeps, AbortWorkerKeeps, SessionClosedKeeps, DropSessionKeeps,
     DropRecordKeeps DEF TaskRuns
<1>4. ASSUME NEW s \in Connections, NEW leaf \in Leaves, DialRoute(s, leaf) \/ UdpRoute(s, leaf)
      PROVE  ConnectionsInv'
  BY Zenon, <1>4, DialRouteKeeps, UdpRouteKeeps
<1>5. ASSUME NEW s \in Connections,
             DialFails(s) \/ Connected(s) \/ KeptAlive(s) \/ Served(s) \/ Panics(s) \/ Close(s)
      PROVE  ConnectionsInv'
  BY ZenonT(40), <1>5, DialFailsKeeps, ConnectedKeeps, KeptAliveKeeps, ServedKeeps, PanicsKeeps, CloseKeeps
<1>6. ASSUME NEW target \in Targets, Reserve(target) PROVE ConnectionsInv'
  BY Zenon, <1>6, ReserveKeeps
<1>7. ASSUME NEW t \in Tokens, Release(t) PROVE ConnectionsInv'
  BY Zenon, <1>7, ReleaseKeeps
<1>8. CASE Accept
  BY Zenon, <1>8, AcceptKeeps
<1>9. ASSUME NEW result \in BOOLEAN, StopAccepting(result) PROVE ConnectionsInv'
  BY Zenon, <1>9, LoopKeeps
<1>10. CASE Loop
  BY ZenonT(40), <1>10, LoopKeeps, JoinKeeps DEF Loop
<1>11. CASE UNCHANGED vars
  <2>1. TypeOK'
    BY Zenon, <1>11 DEF vars, ConnectionsInv, TypeOK
  <2>2. TasksInv'
    BY Zenon, <1>11 DEF vars, ConnectionsInv, TasksInv
  <2>3. CountInv'
    BY Zenon, <1>11 DEF vars, ConnectionsInv, CountInv, Registered, Holders, Unjoined
  <2>4. LoopInv'
    BY Zenon, <1>11 DEF vars, ConnectionsInv, LoopInv, Unjoined
  <2>5. ProbesInv'
    BY Zenon, <1>11 DEF vars, ConnectionsInv, ProbesInv, ProbeInv, Evidence
  <2> QED BY ZenonT(40), <2>1, <2>2, <2>3, <2>4, <2>5 DEF ConnectionsInv
<1> QED BY ZenonT(40), <1>1, <1>2, <1>3, <1>4, <1>5, <1>6, <1>7, <1>8, <1>9, <1>10, <1>11 DEF Next

\* The invariant holds in every reachable state.
THEOREM ConnectionsHold == Spec => []ConnectionsInv
BY InitInv, NextInv, PTL DEF Spec

\* What GET /connections lists passes the command line's checks and shows where
\* each connection that is not being closed was sent.
THEOREM ListingHolds == Spec => []ListingIsSound
<1>1. ConnectionsInv => ListingIsSound
  <2> SUFFICES ASSUME ConnectionsInv, NEW s \in Registered
               PROVE  /\ ValidEntry(entries[s])
                      /\ entries[s].phase # "closing" /\ task[s].pc \in Awaits \cup Runs =>
                            entries[s].route = task[s].route /\ entries[s].target = task[s].target
    BY Zenon DEF ListingIsSound, ListingIsValid, ListingIsTrue
  <2>1. s \in Connections /\ entries[s] # NONE
    BY Zenon DEF Registered
  <2>2. RecordInv(task[s], entries[s])
    BY Zenon, <2>1, InvFits DEF Fits
  <2> QED BY Zenon, <2>1, <2>2 DEF RecordInv, Shows, Serves
<1> QED BY <1>1, ConnectionsHold, PTL

\* A UDP association forwards for one sender, the one its record shows, and
\* every worker holds one of the UDP permits.
THEOREM AssociationsHold == Spec => []AssociationsAreSound
<1>1. ConnectionsInv => AssociationsAreSound
  <2> SUFFICES ASSUME ConnectionsInv PROVE AssociationsAreSound
    BY Zenon
  <2>1. OneSender
    <3> SUFFICES ASSUME NEW s \in Connections, task[s].pc = "relaying"
                 PROVE  /\ task[s].forwarded = {task[s].pinned}
                        /\ entries[s].phase # "closing" => entries[s].sender = task[s].pinned
      BY Zenon DEF OneSender
    <3>1. TaskInv(task[s]) /\ RecordInv(task[s], entries[s])
      BY Zenon, InvFits DEF Fits
    <3> QED BY Zenon, <3>1 DEF TaskInv, RecordInv, Shows, Serves, Awaits, Pinned
  <2>2. ASSUME NEW s \in Workers PROVE s \in Holders /\ task[s].permit /\ entries[s] # NONE
    <3>1. s \in Connections /\ task[s].worker = "running"
      BY Zenon DEF Workers
    <3>2. TaskInv(task[s]) /\ RecordInv(task[s], entries[s]) /\ task[s].pc \in {"relaying", "closing"}
      BY Zenon, <3>1, InvFits, WorkerAt DEF Fits
    <3> QED BY Zenon, <3>1, <3>2 DEF TaskInv, RecordInv, Listed, Serves, Awaits, Ending, Holders
  <2>3. Workers \in SUBSET Holders /\ Holders \in SUBSET Connections
    BY Zenon, <2>2 DEF Holders
  <2>4. IsFiniteSet(Holders) /\ Cardinality(Holders) \in Nat /\ Cardinality(Workers) \in Nat
    BY Zenon, <2>3, FiniteParts
  <2>5. Cardinality(Workers) <= Cardinality(Holders)
    BY Zenon, <2>3, <2>4, FS_Subset
  <2>6. Cardinality(Workers) + udpPermits <= MaxUdp
    BY SMTT(60), <2>4, <2>5, LimitsAssumption DEF ConnectionsInv, CountInv
  <2> QED BY Zenon, <2>1, <2>2, <2>6 DEF AssociationsAreSound, WorkersAreOwned
<1> QED BY <1>1, ConnectionsHold, PTL

\* The loop accepts only with a permit free and room in the registry, its end
\* leaves nothing behind and reports every failure, and a ticket's evidence is
\* that of the request that claimed it.
THEOREM LoopHolds == Spec => []LoopIsSound
<1>1. ConnectionsInv => LoopIsSound
  <2> SUFFICES ASSUME ConnectionsInv PROVE LoopIsSound
    OBVIOUS
  <2>1. /\ Registered \in SUBSET Unjoined /\ Unjoined \in SUBSET Connections
        /\ Holders \in SUBSET Unjoined /\ Workers \in SUBSET Holders
    <3>1. ASSUME NEW s \in Connections
          PROVE  /\ entries[s] # NONE => task[s].pc \notin {"unborn", "joined"}
                 /\ task[s].permit => task[s].pc \notin {"unborn", "joined"}
                 /\ task[s].worker = "running" => task[s].permit
      <4>1. TaskInv(task[s]) /\ RecordInv(task[s], entries[s])
        BY Zenon, InvFits DEF Fits
      <4> QED BY Zenon, <4>1, ListedOpen DEF TaskInv, RecordInv, Relays
    <3> QED BY Zenon, <3>1 DEF Registered, Unjoined, Holders, Workers
  <2>2. /\ IsFiniteSet(Unjoined) /\ Cardinality(Unjoined) \in Nat
        /\ Cardinality(Registered) \in Nat
    BY Zenon, <2>1, FiniteParts
  <2>3. Cardinality(Registered) <= Cardinality(Unjoined)
    BY Zenon, <2>1, <2>2, FS_Subset
  <2>4. AcceptHasRoom
    BY SMTT(60), <2>2, <2>3, LimitsAssumption DEF AcceptHasRoom, ConnectionsInv, CountInv
  <2>5. EndedLeavesNothing
    <3> SUFFICES ASSUME listener = "ended"
                 PROVE  /\ Registered = {} /\ Workers = {}
                        /\ permits = MaxConnections /\ udpPermits = MaxUdp
      BY Zenon DEF EndedLeavesNothing
    <3>1. Unjoined = {}
      BY Zenon DEF ConnectionsInv, LoopInv
    <3>2. Registered = {} /\ Workers = {} /\ Holders = {}
      BY Zenon, <3>1, <2>1
    <3> QED BY SMTT(60), <3>2, FS_EmptySet, LimitsAssumption DEF ConnectionsInv, CountInv
  <2>6. FailureIsReported
    <3> SUFFICES ASSUME listener = "ended", ok, NEW s \in Connections, task[s].failed PROVE FALSE
      BY Zenon DEF FailureIsReported
    <3>1. task[s].pc \in {"unborn", "joined"}
      BY Zenon DEF ConnectionsInv, LoopInv, Unjoined
    <3>2. task[s].pc # "unborn"
      BY Zenon, InvFits DEF Fits, TaskInv
    <3> QED BY Zenon, <3>1, <3>2 DEF ConnectionsInv, LoopInv
  <2>7. EvidenceIsOwn
    BY Zenon, InvFits DEF EvidenceIsOwn, ProbeInv, Evidence
  <2> QED BY Zenon, <2>4, <2>5, <2>6, <2>7 DEF LoopIsSound, ConnectionsInv
<1> QED BY <1>1, ConnectionsHold, PTL

\* A record whose close was accepted stays as it was until it is removed;
\* evidence is never rewritten and a released ticket never comes back.
THEOREM RecordsHold == Spec => RecordsAreFinal
<1>1. ConnectionsInv /\ [Next]_vars => [ClosingStays]_vars /\ [EvidenceStays]_vars
  BY Zenon, NextClosing, NextEvidence
<1> QED BY <1>1, ConnectionsHold, PTL DEF Spec, RecordsAreFinal, ClosingIsFinal, EvidenceIsFinal
=============================================================================
