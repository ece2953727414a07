------------------------- MODULE ConnectionsSteps --------------------------
(***************************************************************************)
(* The data plane's connections, for any number of connections, permits    *)
(* and tickets: the invariant that ties tasks, records, permits and        *)
(* tickets together, and the steps of serve, of the control API and of the *)
(* tickets, which all preserve it and leave closing records and evidence   *)
(* alone.                                                                  *)
(***************************************************************************)
EXTENDS Connections, TLAPS

Serves == Awaits \cup Runs
Listed(r) == r.pc \in Serves \cup Ending
Open(r) == r.pc \notin {"unborn", "joined"}

Relays == {"relay", "udp_routing", "udp_routed", "udp_opening", "relaying"}
Pinned == {"udp_routing", "udp_routed", "udp_opening", "relaying"}

\* What a task holds where it is.
TaskInv(r) ==
    /\ r.pc \in {"unborn", "handshake", "idle"} =>
        r.inbound = NONE /\ r.target = NONE /\ r.route = NONE /\ r.pinned = NONE /\ r.probe = NONE
    /\ r.pc \in Serves \ {"handshake", "idle"} => r.inbound # NONE
    /\ r.pc \in {"claiming", "dialing", "associate", "relay", "udp_routing"} => r.route = NONE
    /\ r.pc = "claiming" => r.probe # NONE
    /\ r.permit => r.pc \in Relays \cup {"closing", "session"}
    /\ r.pc \in Relays => r.permit
    /\ r.worker # NONE => r.pc \in {"relaying", "closing"}
    /\ r.worker = "running" => r.permit
    /\ r.pc = "unborn" => ~r.failed
    /\ r.pc \in Pinned => r.pinned # NONE
    /\ r.pc = "relaying" => r.forwarded = {r.pinned}

\* The phase a record shows while its task is at a label.
PhaseAt(pc, phase) ==
    /\ pc = "handshake" => phase = "handshake"
    /\ pc = "idle" => phase = "idle"
    /\ pc \in {"claiming", "dialing", "udp_routing"} => phase = "routing"
    /\ pc \in {"routed", "connecting", "udp_routed", "udp_opening"} => phase = "connecting"
    /\ pc \in {"active", "relaying"} => phase = "active"
    /\ pc \in {"associate", "relay"} => phase = "udp_wait"

\* What the record e of a task r shows, unless it is being closed.
Shows(r, e) ==
    /\ e.route = r.route /\ e.target = r.target
    /\ r.pc # "idle" => e.inbound = r.inbound
    /\ PhaseAt(r.pc, e.phase)
    /\ r.pc \in Pinned => e.sender = r.pinned

RecordInv(r, e) ==
    /\ e # NONE <=> Listed(r)
    /\ e # NONE => ValidEntry(e)
    /\ r.pc \in Serves /\ e.phase # "closing" => Shows(r, e)

\* What the ticket of the request r of connection s says.
Evidence(s, r, route) ==
    [target |-> r.target, claim |-> [connection |-> s, number |-> r.number, route |-> route]]
ProbeInv(s, r) ==
    r.probe # NONE =>
        /\ r.probe <= issued
        /\ r.pc \in {"dialing", "routed"} => tickets[r.probe] \in {NONE, Evidence(s, r, NONE)}
        /\ r.pc \in {"connecting", "active"} => tickets[r.probe] \in {NONE, Evidence(s, r, r.route)}

Holders == {s \in Connections : task[s].permit}

TasksInv ==
    /\ \A s \in Connections : TaskInv(task[s]) /\ RecordInv(task[s], entries[s])
    /\ \A s \in Connections : s > sequence => task[s].pc = "unborn"

\* Every record has its permit, every association its own.
CountInv ==
    /\ permits = MaxConnections - Cardinality(Registered)
    /\ udpPermits = MaxUdp - Cardinality(Holders)
    /\ Cardinality(Unjoined) <= MaxConnections

\* The loop's result knows of every failure it has joined.
LoopInv ==
    /\ listener = "ended" => Unjoined = {}
    /\ \A s \in Connections : task[s].pc = "joined" /\ task[s].failed => listener # "accepting" /\ ~ok

ProbesInv ==
    /\ \A s \in Connections : ProbeInv(s, task[s])
    /\ \A t \in Tokens : t > issued => tickets[t] = NONE

ConnectionsInv == TypeOK /\ TasksInv /\ CountInv /\ LoopInv /\ ProbesInv

-----------------------------------------------------------------------------

\* A task and its record fit each other.
Fits(r, e) == r \in Task /\ e \in Entry \cup {NONE} /\ TaskInv(r) /\ RecordInv(r, e)

\* What a request knows of its ticket does not change with this step.
ProbeStays(r, r2) ==
    \/ r2.probe = NONE \/ r2 = r
    \/ /\ r2.probe = r.probe \/ r2.probe <= issued
       /\ r2.pc \notin {"dialing", "routed", "connecting", "active"}
    \/ /\ r2.probe = r.probe /\ r2.target = r.target /\ r2.number = r.number
       /\ \/ r.pc = "dialing" /\ r2.pc = "routed"
          \/ r.pc = "connecting" /\ r2.pc = "active" /\ r2.route = r.route

\* A step of a task r that stays listed and keeps its UDP permit, if it has one.
Moves(r, r2, e2) ==
    Fits(r2, e2) /\ Listed(r) /\ Listed(r2) /\ r2.permit = r.permit

\* Guard::update of the record e.
Updated(e, new) == IF e.phase = "closing" THEN e ELSE new

\* A record that is listed is an entry.
LEMMA ListedEntry ==
    ASSUME NEW r, NEW e, Fits(r, e), Listed(r)
    PROVE  e \in Entry /\ e # NONE /\ ValidEntry(e)
BY Zenon DEF Fits, RecordInv

\* An update of the record keeps the two fitting, closing or not.
LEMMA UpdateFits ==
    ASSUME NEW r, NEW e, Fits(r, e), Listed(r), NEW r2 \in Task, TaskInv(r2), Listed(r2),
           NEW new \in Entry,
           e.phase # "closing" => ValidEntry(new) /\ (r2.pc \in Serves => Shows(r2, new))
    PROVE  Fits(r2, Updated(e, new))
<1>1. e \in Entry /\ e # NONE /\ ValidEntry(e)
  BY Zenon, ListedEntry
<1>2. new # NONE
  BY Zenon, NoneAssumption
<1> QED BY Zenon, <1>1, <1>2 DEF Fits, RecordInv, Updated

\* A step that leaves the record alone keeps the two fitting.
LEMMA StayFits ==
    ASSUME NEW r, NEW e, Fits(r, e), Listed(r), NEW r2 \in Task, TaskInv(r2), Listed(r2),
           e.phase # "closing" /\ r2.pc \in Serves => Shows(r2, e)
    PROVE  Fits(r2, e)
BY Zenon DEF Fits, RecordInv

\* A task that was not started is a task.
LEMMA UnbornTask == Unborn \in Task
<1>1. "unborn" \in Labels
  BY Zenon DEF Labels
<1> QED BY <1>1, LimitsAssumption DEF Task, Unborn

\* A task whose label, worker, permit or outcome changes is a task.
LEMMA TaskFields ==
    ASSUME NEW u \in Task
    PROVE  /\ \A pc \in Labels : [u EXCEPT !.pc = pc] \in Task
           /\ \A worker \in {NONE, "running", "ended", "panicked"} : [u EXCEPT !.worker = worker] \in Task
           /\ \A permit \in BOOLEAN : [u EXCEPT !.permit = permit] \in Task
           /\ \A failed \in BOOLEAN : [u EXCEPT !.failed = failed] \in Task
<1>1. ASSUME NEW pc \in Labels PROVE [u EXCEPT !.pc = pc] \in Task
  BY DEF Task
<1>2. ASSUME NEW worker \in {NONE, "running", "ended", "panicked"} PROVE [u EXCEPT !.worker = worker] \in Task
  BY DEF Task
<1>3. ASSUME NEW permit \in BOOLEAN PROVE [u EXCEPT !.permit = permit] \in Task
  BY DEF Task
<1>4. ASSUME NEW failed \in BOOLEAN PROVE [u EXCEPT !.failed = failed] \in Task
  BY DEF Task
<1> QED BY Zenon, <1>1, <1>2, <1>3, <1>4

\* What is left of a task when serve has ended.
LEMMA LeftTask ==
    ASSUME NEW permit \in BOOLEAN, NEW worker \in {NONE, "running", "ended", "panicked"},
           NEW failed \in BOOLEAN, NEW pc \in Labels
    PROVE  [Unborn EXCEPT !.pc = pc, !.permit = permit, !.worker = worker,
                          !.failed = failed] \in Task
<1>1. [Unborn EXCEPT !.pc = pc] \in Task
  BY Zenon, UnbornTask, TaskFields
<1>2. [Unborn EXCEPT !.pc = pc, !.permit = permit] \in Task
  BY Zenon, <1>1, TaskFields
<1>3. [Unborn EXCEPT !.pc = pc, !.permit = permit, !.worker = worker] \in Task
  BY Zenon, <1>2, TaskFields
<1> QED BY Zenon, <1>3, TaskFields

\* A TCP request: its record is routing (set_target).
LEMMA RequestMoves ==
    ASSUME NEW r, NEW e, Fits(r, e), r.pc \in {"handshake", "idle"}, NEW target \in Targets,
           NEW inbound \in Inbounds \ {"socks5_udp"}, NEW token \in Tokens \cup {NONE}
    PROVE  LET r2 == [r EXCEPT !.pc = IF token = NONE THEN "dialing" ELSE "claiming",
                                !.target = target, !.inbound = inbound, !.probe = token]
               new == [e EXCEPT !.inbound = inbound, !.target = target, !.route = NONE,
                                !.phase = "routing", !.sender = NONE]
           IN Moves(r, r2, Updated(e, new))
<1> DEFINE r2 == [r EXCEPT !.pc = IF token = NONE THEN "dialing" ELSE "claiming",
                           !.target = target, !.inbound = inbound, !.probe = token]
           new == [e EXCEPT !.inbound = inbound, !.target = target, !.route = NONE,
                            !.phase = "routing", !.sender = NONE]
<1>0. r \in Task /\ e \in Entry /\ ValidEntry(e) /\ Listed(r) /\ TaskInv(r) /\ RecordInv(r, e)
  BY Zenon, ListedEntry DEF Fits, Listed, Serves, Awaits, Runs, Ending
<1>1. r2 \in Task
  <2>1. {"dialing", "claiming"} \subseteq Labels
    BY Zenon DEF Labels, Awaits, Runs, Ending
  <2> QED BY Zenon, <1>0, <2>1 DEF Task
<1>2. r2.pc \in {"dialing", "claiming"} /\ (r2.pc = "claiming" => r2.probe # NONE)
      /\ r2.target = target /\ r2.inbound = inbound /\ r2.route = r.route
      /\ r2.permit = r.permit /\ r2.worker = r.worker
  BY <1>0 DEF Task
<1>3. TaskInv(r2)
  BY Zenon, <1>0, <1>2, NoneAssumption DEF TaskInv, Serves, Awaits, Runs, Ending, Relays, Pinned
<1>4. new \in Entry
  BY Zenon, <1>0 DEF Entry, Phases, Inbounds
<1>5. e.phase # "closing" => ValidEntry(new) /\ (r2.pc \in Serves => Shows(r2, new))
  BY <1>0, <1>2, NoneAssumption DEF Entry, ValidEntry, RecordInv, Shows, PhaseAt, TaskInv, Serves, Awaits, Runs, Ending, Relays, Pinned
<1>6. Listed(r2)
  BY Zenon, <1>2 DEF Listed, Serves, Awaits, Runs, Ending
<1> QED BY Zenon, <1>0, <1>1, <1>2, <1>3, <1>4, <1>5, <1>6, UpdateFits DEF Moves

\* A SOCKS5 request has no ticket; its record is routing.
LEMMA ConnectMoves ==
    ASSUME NEW r, NEW e, Fits(r, e), r.pc = "handshake", NEW target \in Targets
    PROVE  LET r2 == [r EXCEPT !.pc = "dialing", !.target = target, !.inbound = "socks5_connect"]
               new == [e EXCEPT !.inbound = "socks5_connect", !.target = target, !.route = NONE,
                                !.phase = "routing", !.sender = NONE]
           IN Moves(r, r2, Updated(e, new))
<1> DEFINE r2 == [r EXCEPT !.pc = "dialing", !.target = target, !.inbound = "socks5_connect"]
           new == [e EXCEPT !.inbound = "socks5_connect", !.target = target, !.route = NONE,
                            !.phase = "routing", !.sender = NONE]
<1>0. r \in Task /\ e \in Entry /\ ValidEntry(e) /\ Listed(r) /\ TaskInv(r) /\ RecordInv(r, e)
  BY Zenon, ListedEntry DEF Fits, Listed, Serves, Awaits, Runs, Ending
<1>1. r2 \in Task
  <2>1. {"dialing"} \subseteq Labels
    BY Zenon DEF Labels, Awaits, Runs, Ending
  <2> QED BY Zenon, <1>0, <2>1 DEF Task, Inbounds
<1>2. r2.pc \in {"dialing"} /\ r2.target = target /\ r2.inbound = "socks5_connect" /\ r2.route = r.route
      /\ r2.permit = r.permit /\ r2.worker = r.worker
  BY <1>0 DEF Task
<1>3. TaskInv(r2)
  BY <1>0, <1>2, NoneAssumption DEF TaskInv, Serves, Awaits, Runs, Ending, Relays, Pinned, Inbounds
<1>4. new \in Entry
  BY Zenon, <1>0 DEF Entry, Phases, Inbounds
<1>5. e.phase # "closing" => ValidEntry(new) /\ (r2.pc \in Serves => Shows(r2, new))
  BY <1>0, <1>2, NoneAssumption DEF Entry, ValidEntry, RecordInv, Shows, PhaseAt, TaskInv, Serves, Awaits, Runs, Ending, Relays, Pinned
<1>6. Listed(r2)
  BY Zenon, <1>2 DEF Listed, Serves, Awaits, Runs, Ending
<1> QED BY Zenon, <1>0, <1>1, <1>2, <1>3, <1>4, <1>5, <1>6, UpdateFits DEF Moves

\* A claimed ticket: the request goes on to dial.
LEMMA ClaimMoves ==
    ASSUME NEW r, NEW e, Fits(r, e), r.pc = "claiming"
    PROVE  LET r2 == [r EXCEPT !.pc = "dialing"]
           IN Moves(r, r2, e)
<1> DEFINE r2 == [r EXCEPT !.pc = "dialing"]
<1>0. r \in Task /\ e \in Entry /\ ValidEntry(e) /\ Listed(r) /\ TaskInv(r) /\ RecordInv(r, e)
  BY Zenon, ListedEntry DEF Fits, Listed, Serves, Awaits, Runs, Ending
<1>1. r2 \in Task
  <2>1. {"dialing"} \subseteq Labels
    BY Zenon DEF Labels, Awaits, Runs, Ending
  <2> QED BY <1>0, <2>1 DEF Task
<1>2. r2.pc \in {"dialing"} /\ r2.inbound = r.inbound /\ r2.target = r.target /\ r2.route = r.route
      /\ r2.permit = r.permit /\ r2.worker = r.worker
  BY <1>0 DEF Task
<1>3. TaskInv(r2)
  BY <1>0, <1>2, NoneAssumption DEF TaskInv, Serves, Awaits, Runs, Ending, Relays, Pinned
<1>5. e.phase # "closing" /\ r2.pc \in Serves => Shows(r2, e)
  BY <1>0, <1>2, NoneAssumption DEF RecordInv, Shows, PhaseAt, TaskInv, Serves, Awaits, Runs, Ending, Relays, Pinned
<1>6. Listed(r2)
  BY Zenon, <1>2 DEF Listed, Serves, Awaits, Runs, Ending
<1> QED BY Zenon, <1>0, <1>1, <1>2, <1>3, <1>5, <1>6, StayFits DEF Moves

\* A ticket that cannot be claimed: the client gets an error reply.
LEMMA UnclaimedMoves ==
    ASSUME NEW r, NEW e, Fits(r, e), r.pc = "claiming"
    PROVE  LET r2 == [r EXCEPT !.pc = "replying", !.probe = NONE]
           IN Moves(r, r2, e)
<1> DEFINE r2 == [r EXCEPT !.pc = "replying", !.probe = NONE]
<1>0. r \in Task /\ e \in Entry /\ ValidEntry(e) /\ Listed(r) /\ TaskInv(r) /\ RecordInv(r, e)
  BY Zenon, ListedEntry DEF Fits, Listed, Serves, Awaits, Runs, Ending
<1>1. r2 \in Task
  <2>1. {"replying"} \subseteq Labels
    BY Zenon DEF Labels, Awaits, Runs, Ending
  <2> QED BY Zenon, <1>0, <2>1 DEF Task
<1>2. r2.pc \in {"replying"} /\ r2.inbound = r.inbound /\ r2.target = r.target /\ r2.route = r.route
      /\ r2.permit = r.permit /\ r2.worker = r.worker
  BY <1>0 DEF Task
<1>3. TaskInv(r2)
  BY <1>0, <1>2, NoneAssumption DEF TaskInv, Serves, Awaits, Runs, Ending, Relays, Pinned
<1>5. e.phase # "closing" /\ r2.pc \in Serves => Shows(r2, e)
  BY <1>0, <1>2, NoneAssumption DEF RecordInv, Shows, PhaseAt, TaskInv, Serves, Awaits, Runs, Ending, Relays, Pinned
<1>6. Listed(r2)
  BY Zenon, <1>2 DEF Listed, Serves, Awaits, Runs, Ending
<1> QED BY Zenon, <1>0, <1>1, <1>2, <1>3, <1>5, <1>6, StayFits DEF Moves

\* dial records the route it will use.
LEMMA DialRouteMoves ==
    ASSUME NEW r, NEW e, Fits(r, e), r.pc = "dialing", NEW leaf \in Leaves
    PROVE  LET r2 == [r EXCEPT !.pc = "routed", !.route = leaf]
               new == [e EXCEPT !.route = leaf, !.phase = "connecting"]
           IN Moves(r, r2, Updated(e, new))
<1> DEFINE r2 == [r EXCEPT !.pc = "routed", !.route = leaf]
           new == [e EXCEPT !.route = leaf, !.phase = "connecting"]
<1>0. r \in Task /\ e \in Entry /\ ValidEntry(e) /\ Listed(r) /\ TaskInv(r) /\ RecordInv(r, e)
  BY Zenon, ListedEntry DEF Fits, Listed, Serves, Awaits, Runs, Ending
<1>1. r2 \in Task
  <2>1. {"routed"} \subseteq Labels
    BY Zenon DEF Labels, Awaits, Runs, Ending
  <2> QED BY Zenon, <1>0, <2>1 DEF Task
<1>2. r2.pc \in {"routed"} /\ r2.inbound = r.inbound /\ r2.target = r.target /\ r2.route = leaf
      /\ r2.pinned = r.pinned /\ r2.permit = r.permit /\ r2.worker = r.worker
  BY <1>0 DEF Task
<1>3. TaskInv(r2)
  BY Zenon, <1>0, <1>2, NoneAssumption DEF TaskInv, Serves, Awaits, Runs, Ending, Relays, Pinned
<1>4. new \in Entry
  BY Zenon, <1>0 DEF Entry, Phases, Inbounds
<1>5. e.phase # "closing" => ValidEntry(new) /\ (r2.pc \in Serves => Shows(r2, new))
  BY <1>0, <1>2, NoneAssumption DEF Entry, ValidEntry, RecordInv, Shows, PhaseAt, TaskInv, Serves, Awaits, Runs, Ending, Relays, Pinned
<1>6. Listed(r2)
  BY Zenon, <1>2 DEF Listed, Serves, Awaits, Runs, Ending
<1> QED BY Zenon, <1>0, <1>1, <1>2, <1>3, <1>4, <1>5, <1>6, UpdateFits DEF Moves

\* A rule that rejects: the record says so.
LEMMA RejectMoves ==
    ASSUME NEW r, NEW e, Fits(r, e), r.pc = "routed"
    PROVE  LET r2 == [r EXCEPT !.pc = "replying"]
               new == [e EXCEPT !.phase = "rejected"]
           IN Moves(r, r2, Updated(e, new))
<1> DEFINE r2 == [r EXCEPT !.pc = "replying"]
           new == [e EXCEPT !.phase = "rejected"]
<1>0. r \in Task /\ e \in Entry /\ ValidEntry(e) /\ Listed(r) /\ TaskInv(r) /\ RecordInv(r, e)
  BY Zenon, ListedEntry DEF Fits, Listed, Serves, Awaits, Runs, Ending
<1>1. r2 \in Task
  <2>1. {"replying"} \subseteq Labels
    BY Zenon DEF Labels, Awaits, Runs, Ending
  <2> QED BY <1>0, <2>1 DEF Task
<1>2. r2.pc \in {"replying"} /\ r2.inbound = r.inbound /\ r2.target = r.target /\ r2.route = r.route
      /\ r2.permit = r.permit /\ r2.worker = r.worker
  BY <1>0 DEF Task
<1>3. TaskInv(r2)
  BY Zenon, <1>0, <1>2, NoneAssumption DEF TaskInv, Serves, Awaits, Runs, Ending, Relays, Pinned
<1>4. new \in Entry
  BY Zenon, <1>0 DEF Entry, Phases, Inbounds
<1>5. e.phase # "closing" => ValidEntry(new) /\ (r2.pc \in Serves => Shows(r2, new))
  BY <1>0, <1>2, NoneAssumption DEF Entry, ValidEntry, RecordInv, Shows, PhaseAt, TaskInv, Serves, Awaits, Runs, Ending, Relays, Pinned
<1>6. Listed(r2)
  BY Zenon, <1>2 DEF Listed, Serves, Awaits, Runs, Ending
<1> QED BY Zenon, <1>0, <1>1, <1>2, <1>3, <1>4, <1>5, <1>6, UpdateFits DEF Moves

\* dial goes on to connect; the record already says so.
LEMMA ConnectingMoves ==
    ASSUME NEW r, NEW e, Fits(r, e), r.pc = "routed"
    PROVE  LET r2 == [r EXCEPT !.pc = "connecting"]
           IN Moves(r, r2, e)
<1> DEFINE r2 == [r EXCEPT !.pc = "connecting"]
<1>0. r \in Task /\ e \in Entry /\ ValidEntry(e) /\ Listed(r) /\ TaskInv(r) /\ RecordInv(r, e)
  BY Zenon, ListedEntry DEF Fits, Listed, Serves, Awaits, Runs, Ending
<1>1. r2 \in Task
  <2>1. {"connecting"} \subseteq Labels
    BY Zenon DEF Labels, Awaits, Runs, Ending
  <2> QED BY Zenon, <1>0, <2>1 DEF Task
<1>2. r2.pc \in {"connecting"} /\ r2.inbound = r.inbound /\ r2.target = r.target /\ r2.route = r.route
      /\ r2.permit = r.permit /\ r2.worker = r.worker
  BY Zenon, <1>0 DEF Task
<1>3. TaskInv(r2)
  BY Zenon, <1>0, <1>2, NoneAssumption DEF TaskInv, Serves, Awaits, Runs, Ending, Relays, Pinned
<1>5. e.phase # "closing" /\ r2.pc \in Serves => Shows(r2, e)
  BY Zenon, <1>0, <1>2, NoneAssumption DEF RecordInv, Shows, PhaseAt, TaskInv, Serves, Awaits, Runs, Ending, Relays, Pinned
<1>6. Listed(r2)
  BY Zenon, <1>2 DEF Listed, Serves, Awaits, Runs, Ending
<1> QED BY Zenon, <1>0, <1>1, <1>2, <1>3, <1>5, <1>6, StayFits DEF Moves

\* Dialling or an association fails: the client gets an error reply.
LEMMA DialFailsMoves ==
    ASSUME NEW r, NEW e, Fits(r, e), r.pc \in {"dialing", "connecting", "associate"}
    PROVE  LET r2 == [r EXCEPT !.pc = "replying"]
           IN Moves(r, r2, e)
<1> DEFINE r2 == [r EXCEPT !.pc = "replying"]
<1>0. r \in Task /\ e \in Entry /\ ValidEntry(e) /\ Listed(r) /\ TaskInv(r) /\ RecordInv(r, e)
  BY Zenon, ListedEntry DEF Fits, Listed, Serves, Awaits, Runs, Ending
<1>1. r2 \in Task
  <2>1. {"replying"} \subseteq Labels
    BY Zenon DEF Labels, Awaits, Runs, Ending
  <2> QED BY Zenon, <1>0, <2>1 DEF Task
<1>2. r2.pc \in {"replying"} /\ r2.inbound = r.inbound /\ r2.target = r.target /\ r2.route = r.route
      /\ r2.permit = r.permit /\ r2.worker = r.worker
  BY Zenon, <1>0 DEF Task
<1>3. TaskInv(r2)
  BY Zenon, <1>0, <1>2, NoneAssumption DEF TaskInv, Serves, Awaits, Runs, Ending, Relays, Pinned
<1>5. e.phase # "closing" /\ r2.pc \in Serves => Shows(r2, e)
  BY Zenon, <1>0, <1>2, NoneAssumption DEF RecordInv, Shows, PhaseAt, TaskInv, Serves, Awaits, Runs, Ending, Relays, Pinned
<1>6. Listed(r2)
  BY Zenon, <1>2 DEF Listed, Serves, Awaits, Runs, Ending
<1> QED BY Zenon, <1>0, <1>1, <1>2, <1>3, <1>5, <1>6, StayFits DEF Moves

\* The connection is relayed; its record is active.
LEMMA ConnectedMoves ==
    ASSUME NEW r, NEW e, Fits(r, e), r.pc = "connecting"
    PROVE  LET r2 == [r EXCEPT !.pc = "active"]
               new == [e EXCEPT !.phase = "active"]
           IN Moves(r, r2, Updated(e, new))
<1> DEFINE r2 == [r EXCEPT !.pc = "active"]
           new == [e EXCEPT !.phase = "active"]
<1>0. r \in Task /\ e \in Entry /\ ValidEntry(e) /\ Listed(r) /\ TaskInv(r) /\ RecordInv(r, e)
  BY Zenon, ListedEntry DEF Fits, Listed, Serves, Awaits, Runs, Ending
<1>1. r2 \in Task
  <2>1. {"active"} \subseteq Labels
    BY Zenon DEF Labels, Awaits, Runs, Ending
  <2> QED BY Zenon, <1>0, <2>1 DEF Task
<1>2. r2.pc \in {"active"} /\ r2.inbound = r.inbound /\ r2.target = r.target /\ r2.route = r.route
      /\ r2.permit = r.permit /\ r2.worker = r.worker
  BY Zenon, <1>0 DEF Task
<1>3. TaskInv(r2)
  BY <1>0, <1>2, NoneAssumption DEF TaskInv, Serves, Awaits, Runs, Ending, Relays, Pinned
<1>4. new \in Entry
  BY Zenon, <1>0 DEF Entry, Phases, Inbounds
<1>5. e.phase # "closing" => ValidEntry(new) /\ (r2.pc \in Serves => Shows(r2, new))
  BY <1>0, <1>2, NoneAssumption DEF Entry, ValidEntry, RecordInv, Shows, PhaseAt, TaskInv, Serves, Awaits, Runs, Ending, Relays, Pinned
<1>6. Listed(r2)
  BY Zenon, <1>2 DEF Listed, Serves, Awaits, Runs, Ending
<1> QED BY Zenon, <1>0, <1>1, <1>2, <1>3, <1>4, <1>5, <1>6, UpdateFits DEF Moves

\* A connection is kept alive: nothing of the request is kept (set_idle).
LEMMA KeptAliveMoves ==
    ASSUME NEW r, NEW e, Fits(r, e), r.pc = "active", r.inbound = "http_forward", r.number < MaxRequests - 1
    PROVE  LET r2 == [Unborn EXCEPT !.pc = "idle", !.number = r.number + 1]
               new == [e EXCEPT !.phase = "idle", !.target = NONE, !.route = NONE]
           IN Moves(r, r2, Updated(e, new))
<1> DEFINE r2 == [Unborn EXCEPT !.pc = "idle", !.number = r.number + 1]
           new == [e EXCEPT !.phase = "idle", !.target = NONE, !.route = NONE]
<1>0. r \in Task /\ e \in Entry /\ ValidEntry(e) /\ Listed(r) /\ TaskInv(r) /\ RecordInv(r, e)
  BY Zenon, ListedEntry DEF Fits, Listed, Serves, Awaits, Runs, Ending
<1>a. r.permit = FALSE /\ r.number + 1 \in 0 .. MaxRequests
  BY <1>0, NoneAssumption, LimitsAssumption DEF Task, TaskInv, Serves, Awaits, Runs, Ending, Relays, Pinned
<1>1. r2 \in Task
  <2>1. {"idle"} \subseteq Labels
    BY Zenon DEF Labels, Awaits, Runs, Ending
  <2> QED BY Zenon, <1>0, <1>a, <2>1 DEF Task, Unborn
<1>2. r2.pc \in {"idle"} /\ r2.inbound = NONE /\ r2.target = NONE /\ r2.route = NONE /\ r2.pinned = NONE /\ r2.probe = NONE
      /\ r2.worker = NONE /\ r2.permit = FALSE /\ r.permit = FALSE
  BY Zenon, <1>0, <1>a DEF Task, Unborn
<1>3. TaskInv(r2)
  BY <1>0, <1>a, <1>2, NoneAssumption DEF TaskInv, Serves, Awaits, Runs, Ending, Relays, Pinned
<1>4. new \in Entry
  BY Zenon, <1>0 DEF Entry, Phases, Inbounds
<1>5. e.phase # "closing" => ValidEntry(new) /\ (r2.pc \in Serves => Shows(r2, new))
  BY <1>0, <1>2, NoneAssumption DEF Entry, ValidEntry, RecordInv, Shows, PhaseAt, TaskInv, Serves, Awaits, Runs, Ending, Relays, Pinned
<1>6. Listed(r2)
  BY Zenon, <1>2 DEF Listed, Serves, Awaits, Runs, Ending
<1> QED BY Zenon, <1>0, <1>1, <1>2, <1>3, <1>4, <1>5, <1>6, UpdateFits DEF Moves

\* A UDP association is asked for: the record waits for datagrams (set_inbound).
LEMMA AssociateMoves ==
    ASSUME NEW r, NEW e, Fits(r, e), r.pc = "handshake", NEW requested \in Senders \cup {NONE}
    PROVE  LET r2 == [r EXCEPT !.pc = "associate", !.inbound = "socks5_udp", !.pinned = requested]
               new == [e EXCEPT !.inbound = "socks5_udp", !.udp = TRUE, !.phase = "udp_wait"]
           IN Moves(r, r2, Updated(e, new))
<1> DEFINE r2 == [r EXCEPT !.pc = "associate", !.inbound = "socks5_udp", !.pinned = requested]
           new == [e EXCEPT !.inbound = "socks5_udp", !.udp = TRUE, !.phase = "udp_wait"]
<1>0. r \in Task /\ e \in Entry /\ ValidEntry(e) /\ Listed(r) /\ TaskInv(r) /\ RecordInv(r, e)
  BY Zenon, ListedEntry DEF Fits, Listed, Serves, Awaits, Runs, Ending
<1>1. r2 \in Task
  <2>1. {"associate"} \subseteq Labels
    BY Zenon DEF Labels, Awaits, Runs, Ending
  <2> QED BY Zenon, <1>0, <2>1 DEF Task, Inbounds
<1>2. r2.pc \in {"associate"} /\ r2.inbound = "socks5_udp" /\ r2.target = r.target /\ r2.route = r.route
      /\ r2.permit = r.permit /\ r2.worker = r.worker
  BY <1>0 DEF Task
<1>3. TaskInv(r2)
  BY <1>0, <1>2, NoneAssumption DEF TaskInv, Serves, Awaits, Runs, Ending, Relays, Pinned, Inbounds
<1>4. new \in Entry
  BY Zenon, <1>0 DEF Entry, Phases, Inbounds
<1>5. e.phase # "closing" => ValidEntry(new) /\ (r2.pc \in Serves => Shows(r2, new))
  BY <1>0, <1>2, NoneAssumption DEF Entry, ValidEntry, RecordInv, Shows, PhaseAt, TaskInv, Serves, Awaits, Runs, Ending, Relays, Pinned
<1>6. Listed(r2)
  BY Zenon, <1>2 DEF Listed, Serves, Awaits, Runs, Ending
<1> QED BY Zenon, <1>0, <1>1, <1>2, <1>3, <1>4, <1>5, <1>6, UpdateFits DEF Moves

\* The first datagram pins its sender; the record is routing (set_target).
LEMMA FirstDatagramMoves ==
    ASSUME NEW r, NEW e, Fits(r, e), r.pc = "relay", NEW sender \in Senders, NEW target \in Targets
    PROVE  LET r2 == [r EXCEPT !.pc = "udp_routing", !.pinned = sender, !.target = target]
               new == [e EXCEPT !.inbound = "socks5_udp", !.target = target, !.route = NONE,
                                !.phase = "routing", !.sender = sender]
           IN Moves(r, r2, Updated(e, new))
<1> DEFINE r2 == [r EXCEPT !.pc = "udp_routing", !.pinned = sender, !.target = target]
           new == [e EXCEPT !.inbound = "socks5_udp", !.target = target, !.route = NONE,
                            !.phase = "routing", !.sender = sender]
<1>0. r \in Task /\ e \in Entry /\ ValidEntry(e) /\ Listed(r) /\ TaskInv(r) /\ RecordInv(r, e)
  BY Zenon, ListedEntry DEF Fits, Listed, Serves, Awaits, Runs, Ending
<1>1. r2 \in Task
  <2>1. {"udp_routing"} \subseteq Labels
    BY Zenon DEF Labels, Awaits, Runs, Ending
  <2> QED BY Zenon, <1>0, <2>1 DEF Task
<1>2. r2.pc \in {"udp_routing"} /\ r2.inbound = r.inbound /\ r2.target = target /\ r2.route = r.route /\ r2.pinned = sender
      /\ r2.permit = r.permit /\ r2.worker = r.worker
  BY <1>0 DEF Task
<1>3. TaskInv(r2)
  BY <1>0, <1>2, NoneAssumption DEF TaskInv, Serves, Awaits, Runs, Ending, Relays, Pinned
<1>4. new \in Entry
  BY Zenon, <1>0 DEF Entry, Phases, Inbounds
<1>5. e.phase # "closing" => ValidEntry(new) /\ (r2.pc \in Serves => Shows(r2, new))
  BY <1>0, <1>2, NoneAssumption DEF Entry, ValidEntry, RecordInv, Shows, PhaseAt, TaskInv, Serves, Awaits, Runs, Ending, Relays, Pinned
<1>6. Listed(r2)
  BY Zenon, <1>2 DEF Listed, Serves, Awaits, Runs, Ending
<1> QED BY Zenon, <1>0, <1>1, <1>2, <1>3, <1>4, <1>5, <1>6, UpdateFits DEF Moves

\* udp_relay records the route it will use.
LEMMA UdpRouteMoves ==
    ASSUME NEW r, NEW e, Fits(r, e), r.pc = "udp_routing", NEW leaf \in Leaves
    PROVE  LET r2 == [r EXCEPT !.pc = "udp_routed", !.route = leaf]
               new == [e EXCEPT !.route = leaf, !.phase = "connecting"]
           IN Moves(r, r2, Updated(e, new))
<1> DEFINE r2 == [r EXCEPT !.pc = "udp_routed", !.route = leaf]
           new == [e EXCEPT !.route = leaf, !.phase = "connecting"]
<1>0. r \in Task /\ e \in Entry /\ ValidEntry(e) /\ Listed(r) /\ TaskInv(r) /\ RecordInv(r, e)
  BY Zenon, ListedEntry DEF Fits, Listed, Serves, Awaits, Runs, Ending
<1>1. r2 \in Task
  <2>1. {"udp_routed"} \subseteq Labels
    BY Zenon DEF Labels, Awaits, Runs, Ending
  <2> QED BY Zenon, <1>0, <2>1 DEF Task
<1>2. r2.pc \in {"udp_routed"} /\ r2.inbound = r.inbound /\ r2.target = r.target /\ r2.route = leaf
      /\ r2.pinned = r.pinned /\ r2.permit = r.permit /\ r2.worker = r.worker
  BY <1>0 DEF Task
<1>3. TaskInv(r2)
  BY <1>0, <1>2, NoneAssumption DEF TaskInv, Serves, Awaits, Runs, Ending, Relays, Pinned
<1>4. new \in Entry
  BY Zenon, <1>0 DEF Entry, Phases, Inbounds
<1>5. e.phase # "closing" => ValidEntry(new) /\ (r2.pc \in Serves => Shows(r2, new))
  BY <1>0, <1>2, NoneAssumption DEF Entry, ValidEntry, RecordInv, Shows, PhaseAt, TaskInv, Serves, Awaits, Runs, Ending, Relays, Pinned
<1>6. Listed(r2)
  BY Zenon, <1>2 DEF Listed, Serves, Awaits, Runs, Ending
<1> QED BY Zenon, <1>0, <1>1, <1>2, <1>3, <1>4, <1>5, <1>6, UpdateFits DEF Moves

\* The route relays UDP: the session is opened.
LEMMA UdpOpeningMoves ==
    ASSUME NEW r, NEW e, Fits(r, e), r.pc = "udp_routed"
    PROVE  LET r2 == [r EXCEPT !.pc = "udp_opening"]
           IN Moves(r, r2, e)
<1> DEFINE r2 == [r EXCEPT !.pc = "udp_opening"]
<1>0. r \in Task /\ e \in Entry /\ ValidEntry(e) /\ Listed(r) /\ TaskInv(r) /\ RecordInv(r, e)
  BY Zenon, ListedEntry DEF Fits, Listed, Serves, Awaits, Runs, Ending
<1>1. r2 \in Task
  <2>1. {"udp_opening"} \subseteq Labels
    BY Zenon DEF Labels, Awaits, Runs, Ending
  <2> QED BY <1>0, <2>1 DEF Task
<1>2. r2.pc \in {"udp_opening"} /\ r2.inbound = r.inbound /\ r2.target = r.target /\ r2.route = r.route
      /\ r2.permit = r.permit /\ r2.worker = r.worker
      /\ r2.pinned = r.pinned
  BY <1>0 DEF Task
<1>3. TaskInv(r2)
  BY Zenon, <1>0, <1>2, NoneAssumption DEF TaskInv, Serves, Awaits, Runs, Ending, Relays, Pinned
<1>5. e.phase # "closing" /\ r2.pc \in Serves => Shows(r2, e)
  BY <1>0, <1>2, NoneAssumption DEF RecordInv, Shows, PhaseAt, TaskInv, Serves, Awaits, Runs, Ending, Relays, Pinned
<1>6. Listed(r2)
  BY Zenon, <1>2 DEF Listed, Serves, Awaits, Runs, Ending
<1> QED BY Zenon, <1>0, <1>1, <1>2, <1>3, <1>5, <1>6, StayFits DEF Moves

\* The session is open, with its worker if it has one; the record is active.
LEMMA UdpOpenedMoves ==
    ASSUME NEW r, NEW e, Fits(r, e), r.pc = "udp_opening"
    PROVE  LET r2 == [r EXCEPT !.pc = "relaying", !.forwarded = {r.pinned},
                                !.worker = IF r.route \in Trojan THEN "running" ELSE NONE]
               new == [e EXCEPT !.phase = "active"]
           IN Moves(r, r2, Updated(e, new))
<1> DEFINE r2 == [r EXCEPT !.pc = "relaying", !.forwarded = {r.pinned},
                           !.worker = IF r.route \in Trojan THEN "running" ELSE NONE]
           new == [e EXCEPT !.phase = "active"]
<1>0. r \in Task /\ e \in Entry /\ ValidEntry(e) /\ Listed(r) /\ TaskInv(r) /\ RecordInv(r, e)
  BY Zenon, ListedEntry DEF Fits, Listed, Serves, Awaits, Runs, Ending
<1>a. r.pinned \in Senders
  BY Zenon, <1>0, NoneAssumption, LimitsAssumption DEF Task, TaskInv, Serves, Awaits, Runs, Ending, Relays, Pinned
<1>1. r2 \in Task
  <2>1. {"relaying"} \subseteq Labels
    BY Zenon DEF Labels, Awaits, Runs, Ending
  <2>2. {r.pinned} \in SUBSET Senders
        /\ (IF r.route \in Trojan THEN "running" ELSE NONE) \in {NONE, "running", "ended", "panicked"}
    BY Zenon, <1>a
  <2> QED BY ZenonT(40), <1>0, <2>1, <2>2 DEF Task
<1>2. r2.pc \in {"relaying"} /\ r2.inbound = r.inbound /\ r2.target = r.target /\ r2.route = r.route
      /\ r2.permit = r.permit /\ r2.pinned = r.pinned /\ r2.forwarded = {r.pinned}
  BY Zenon, <1>0, <1>a DEF Task
<1>3. TaskInv(r2)
  BY Zenon, <1>0, <1>a, <1>2, NoneAssumption DEF TaskInv, Serves, Awaits, Runs, Ending, Relays, Pinned
<1>4. new \in Entry
  BY Zenon, <1>0 DEF Entry, Phases, Inbounds
<1>5. e.phase # "closing" => ValidEntry(new) /\ (r2.pc \in Serves => Shows(r2, new))
  BY ZenonT(40), <1>0, <1>2, NoneAssumption DEF Entry, ValidEntry, RecordInv, Shows, PhaseAt, TaskInv, Serves, Awaits, Runs, Ending, Relays, Pinned
<1>6. Listed(r2)
  BY Zenon, <1>2 DEF Listed, Serves, Awaits, Runs, Ending
<1> QED BY Zenon, <1>0, <1>1, <1>2, <1>3, <1>4, <1>5, <1>6, UpdateFits DEF Moves

\* A datagram is forwarded only for the pinned sender.
LEMMA DatagramMoves ==
    ASSUME NEW r, NEW e, Fits(r, e), r.pc = "relaying", NEW sender \in Senders, r.pinned \in {NONE, sender}
    PROVE  LET r2 == [r EXCEPT !.forwarded = @ \cup {sender}, !.pinned = sender]
           IN Moves(r, r2, e)
<1> DEFINE r2 == [r EXCEPT !.forwarded = @ \cup {sender}, !.pinned = sender]
<1>0. r \in Task /\ e \in Entry /\ ValidEntry(e) /\ Listed(r) /\ TaskInv(r) /\ RecordInv(r, e)
  BY Zenon, ListedEntry DEF Fits, Listed, Serves, Awaits, Runs, Ending
<1>a. r.pinned = sender /\ r.forwarded = {sender}
  BY Zenon, <1>0, NoneAssumption, LimitsAssumption DEF Task, TaskInv, Serves, Awaits, Runs, Ending, Relays, Pinned
<1>1. r2 \in Task
  <2>1. {"relaying"} \subseteq Labels
    BY Zenon DEF Labels, Awaits, Runs, Ending
  <2>2. r.forwarded \cup {sender} \in SUBSET Senders
    BY Zenon, <1>a
  <2> QED BY ZenonT(40), <1>0, <2>1, <2>2 DEF Task
<1>2. r2.pc \in {"relaying"} /\ r2.inbound = r.inbound /\ r2.target = r.target /\ r2.route = r.route
      /\ r2.permit = r.permit /\ r2.worker = r.worker
      /\ r2.pinned = sender /\ r.pinned = sender /\ r2.forwarded = {sender}
  BY Zenon, <1>0, <1>a DEF Task
<1>3. TaskInv(r2)
  BY Zenon, <1>0, <1>a, <1>2, NoneAssumption DEF TaskInv, Serves, Awaits, Runs, Ending, Relays, Pinned
<1>5. e.phase # "closing" /\ r2.pc \in Serves => Shows(r2, e)
  BY <1>0, <1>2, NoneAssumption DEF RecordInv, Shows, PhaseAt, TaskInv, Serves, Awaits, Runs, Ending, Relays, Pinned
<1>6. Listed(r2)
  BY Zenon, <1>2 DEF Listed, Serves, Awaits, Runs, Ending
<1> QED BY Zenon, <1>0, <1>1, <1>2, <1>3, <1>5, <1>6, StayFits DEF Moves

\* The worker of a session ends, by itself or aborted.
LEMMA WorkerMoves ==
    ASSUME NEW r, NEW e, Fits(r, e), r.worker = "running", NEW how \in {"ended", "panicked"}
    PROVE  LET r2 == [r EXCEPT !.worker = how]
           IN Moves(r, r2, e)
<1> DEFINE r2 == [r EXCEPT !.worker = how]
<1>0. r \in Task /\ e \in Entry /\ ValidEntry(e) /\ Listed(r) /\ TaskInv(r) /\ RecordInv(r, e)
  BY Zenon, ListedEntry, NoneAssumption DEF Fits, Listed, Serves, Awaits, Runs, Ending, TaskInv
<1>a. r.pc \in {"relaying", "closing"}
  BY Zenon, <1>0, NoneAssumption, LimitsAssumption DEF Task, TaskInv, Serves, Awaits, Runs, Ending, Relays, Pinned
<1>1. r2 \in Task
  <2>1. {"relaying", "closing"} \subseteq Labels
    BY Zenon DEF Labels, Awaits, Runs, Ending
  <2> QED BY <1>0, <1>a, <2>1 DEF Task
<1>2. r2.pc \in {"relaying", "closing"} /\ r2.pc = r.pc /\ r2.inbound = r.inbound /\ r2.target = r.target /\ r2.route = r.route
      /\ r2.permit = r.permit /\ r2.pinned = r.pinned /\ r2.forwarded = r.forwarded
      /\ r2.worker # "running"
  BY ZenonT(40), <1>0, <1>a DEF Task
<1>3. TaskInv(r2)
  BY Zenon, <1>0, <1>a, <1>2, NoneAssumption DEF TaskInv, Serves, Awaits, Runs, Ending, Relays, Pinned
<1>5. e.phase # "closing" /\ r2.pc \in Serves => Shows(r2, e)
  BY ZenonT(40), <1>0, <1>2, NoneAssumption DEF RecordInv, Shows, PhaseAt, TaskInv, Serves, Awaits, Runs, Ending, Relays, Pinned
<1>6. Listed(r2)
  BY Zenon, <1>2 DEF Listed, Serves, Awaits, Runs, Ending
<1> QED BY Zenon, <1>0, <1>1, <1>2, <1>3, <1>5, <1>6, StayFits DEF Moves

\* serve ends: the session and the permit are still held.
LEMMA LeavesMoves ==
    ASSUME NEW r, NEW e, Fits(r, e), r.pc \in Serves, NEW failed \in BOOLEAN
    PROVE  LET r2 == [Unborn EXCEPT !.pc = "closing", !.permit = r.permit, !.worker = r.worker,
                                     !.failed = failed]
           IN Moves(r, r2, e)
<1> DEFINE r2 == [Unborn EXCEPT !.pc = "closing", !.permit = r.permit, !.worker = r.worker,
                                !.failed = failed]
<1>0. r \in Task /\ e \in Entry /\ ValidEntry(e) /\ Listed(r) /\ TaskInv(r) /\ RecordInv(r, e)
  BY Zenon, ListedEntry DEF Fits, Listed, Serves, Awaits, Runs, Ending
<1>a. r.permit \in BOOLEAN /\ r.worker \in {NONE, "running", "ended", "panicked"}
  BY ZenonT(40), <1>0, NoneAssumption, LimitsAssumption DEF Task, TaskInv, Serves, Awaits, Runs, Ending, Relays, Pinned
<1>1. r2 \in Task
  <2>1. {"closing"} \subseteq Labels
    BY Zenon DEF Labels, Awaits, Runs, Ending
  <2> QED BY ZenonT(40), <1>a, <2>1, LeftTask
<1>2. r2.pc \in {"closing"} /\ r2.permit = r.permit /\ r2.worker = r.worker
  BY Zenon, <1>0, <1>a DEF Task, Unborn
<1>3. TaskInv(r2)
  BY ZenonT(40), <1>0, <1>a, <1>2, NoneAssumption DEF TaskInv, Serves, Awaits, Runs, Ending, Relays, Pinned
<1>5. e.phase # "closing" /\ r2.pc \in Serves => Shows(r2, e)
  BY Zenon, <1>0, <1>2, NoneAssumption DEF RecordInv, Shows, PhaseAt, TaskInv, Serves, Awaits, Runs, Ending, Relays, Pinned
<1>6. Listed(r2)
  BY Zenon, <1>2 DEF Listed, Serves, Awaits, Runs, Ending
<1> QED BY Zenon, <1>0, <1>1, <1>2, <1>3, <1>5, <1>6, StayFits DEF Moves

\* An association whose route does not relay UDP is rejected and ends.
LEMMA RejectedMoves ==
    ASSUME NEW r, NEW e, Fits(r, e), r.pc = "udp_routed", NEW failed \in BOOLEAN
    PROVE  LET r2 == [Unborn EXCEPT !.pc = "closing", !.permit = r.permit, !.worker = r.worker,
                                     !.failed = failed]
               new == [e EXCEPT !.phase = "rejected"]
           IN Moves(r, r2, Updated(e, new))
<1> DEFINE r2 == [Unborn EXCEPT !.pc = "closing", !.permit = r.permit, !.worker = r.worker,
                                !.failed = failed]
           new == [e EXCEPT !.phase = "rejected"]
<1>0. r \in Task /\ e \in Entry /\ ValidEntry(e) /\ Listed(r) /\ TaskInv(r) /\ RecordInv(r, e)
  BY Zenon, ListedEntry DEF Fits, Listed, Serves, Awaits, Runs, Ending
<1>a. r.permit \in BOOLEAN /\ r.worker \in {NONE, "running", "ended", "panicked"}
  BY Zenon, <1>0, NoneAssumption, LimitsAssumption DEF Task, TaskInv, Serves, Awaits, Runs, Ending, Relays, Pinned
<1>1. r2 \in Task
  <2>1. {"closing"} \subseteq Labels
    BY Zenon DEF Labels, Awaits, Runs, Ending
  <2> QED BY ZenonT(40), <1>a, <2>1, LeftTask
<1>2. r2.pc \in {"closing"} /\ r2.permit = r.permit /\ r2.worker = r.worker
  BY Zenon, <1>0, <1>a DEF Task, Unborn
<1>3. TaskInv(r2)
  BY Zenon, <1>0, <1>a, <1>2, NoneAssumption DEF TaskInv, Serves, Awaits, Runs, Ending, Relays, Pinned
<1>4. new \in Entry
  BY Zenon, <1>0 DEF Entry, Phases, Inbounds
<1>5. e.phase # "closing" => ValidEntry(new) /\ (r2.pc \in Serves => Shows(r2, new))
  BY Zenon, <1>0, <1>2, NoneAssumption DEF Entry, ValidEntry, RecordInv, Shows, PhaseAt, TaskInv, Serves, Awaits, Runs, Ending, Relays, Pinned
<1>6. Listed(r2)
  BY Zenon, <1>2 DEF Listed, Serves, Awaits, Runs, Ending
<1> QED BY Zenon, <1>0, <1>1, <1>2, <1>3, <1>4, <1>5, <1>6, UpdateFits DEF Moves

\* The session is closed: its worker is gone.
LEMMA SessionMoves ==
    ASSUME NEW r, NEW e, Fits(r, e), r.pc = "closing", NEW failed \in BOOLEAN
    PROVE  LET r2 == [r EXCEPT !.pc = "session", !.worker = NONE, !.failed = failed]
           IN Moves(r, r2, e)
<1> DEFINE r2 == [r EXCEPT !.pc = "session", !.worker = NONE, !.failed = failed]
<1>0. r \in Task /\ e \in Entry /\ ValidEntry(e) /\ Listed(r) /\ TaskInv(r) /\ RecordInv(r, e)
  BY Zenon, ListedEntry DEF Fits, Listed, Serves, Awaits, Runs, Ending
<1>1. r2 \in Task
  <2>1. {"session"} \subseteq Labels
    BY Zenon DEF Labels, Awaits, Runs, Ending
  <2> QED BY Zenon, <1>0, <2>1 DEF Task
<1>2. r2.pc \in {"session"} /\ r2.permit = r.permit /\ r2.worker = NONE
  BY <1>0 DEF Task
<1>3. TaskInv(r2)
  BY Zenon, <1>0, <1>2, NoneAssumption DEF TaskInv, Serves, Awaits, Runs, Ending, Relays, Pinned
<1>5. e.phase # "closing" /\ r2.pc \in Serves => Shows(r2, e)
  BY ZenonT(40), <1>0, <1>2, NoneAssumption DEF RecordInv, Shows, PhaseAt, TaskInv, Serves, Awaits, Runs, Ending, Relays, Pinned
<1>6. Listed(r2)
  BY Zenon, <1>2 DEF Listed, Serves, Awaits, Runs, Ending
<1> QED BY Zenon, <1>0, <1>1, <1>2, <1>3, <1>5, <1>6, StayFits DEF Moves


-----------------------------------------------------------------------------

\* In a reachable state every task fits its record.
LEMMA InvFits ==
    ASSUME ConnectionsInv, NEW s \in Connections
    PROVE  Fits(task[s], entries[s]) /\ ProbeInv(s, task[s])
BY Zenon DEF ConnectionsInv, TypeOK, TasksInv, Fits, ProbesInv

\* Guard::update, as the record it leaves.
LEMMA UpdateIs ==
    ASSUME NEW s, NEW entry, Update(s, entry)
    PROVE  entries' = [entries EXCEPT ![s] = Updated(entries[s], entry)]
BY Zenon DEF Update, Updated

\* A record that is not written stays.
LEMMA EntriesStay ==
    ASSUME ConnectionsInv, NEW s \in Connections, entries' = entries
    PROVE  entries' = [entries EXCEPT ![s] = entries[s]]
BY Zenon DEF ConnectionsInv, TypeOK

\* A step of connection s concerns no other task or record.
LEMMA FitsNext ==
    ASSUME ConnectionsInv, NEW s \in Connections, NEW r2, NEW e2, Fits(r2, e2),
           task' = [task EXCEPT ![s] = r2], entries' = [entries EXCEPT ![s] = e2]
    PROVE  /\ task' \in [Connections -> Task] /\ entries' \in [Connections -> Entry \cup {NONE}]
           /\ \A c \in Connections : TaskInv(task'[c]) /\ RecordInv(task'[c], entries'[c])
           /\ \A c \in Connections \ {s} : task'[c] = task[c] /\ entries'[c] = entries[c]
           /\ task'[s] = r2 /\ entries'[s] = e2
<1>1. task \in [Connections -> Task] /\ entries \in [Connections -> Entry \cup {NONE}]
  BY Zenon DEF ConnectionsInv, TypeOK
<1>2. r2 \in Task /\ e2 \in Entry \cup {NONE} /\ TaskInv(r2) /\ RecordInv(r2, e2)
  BY Zenon DEF Fits
<1>3. \A c \in Connections : TaskInv(task[c]) /\ RecordInv(task[c], entries[c])
  BY Zenon DEF ConnectionsInv, TasksInv
<1>4. \A c \in Connections \ {s} : task'[c] = task[c] /\ entries'[c] = entries[c]
  BY Zenon, <1>1
<1>5. task'[s] = r2 /\ entries'[s] = e2
  BY Zenon, <1>1
<1>6. task' \in [Connections -> Task] /\ entries' \in [Connections -> Entry \cup {NONE}]
  BY Zenon, <1>1, <1>2
<1>7. ASSUME NEW c \in Connections PROVE TaskInv(task'[c]) /\ RecordInv(task'[c], entries'[c])
  <2>1. CASE c = s
    BY Zenon, <2>1, <1>2, <1>5
  <2>2. CASE c # s
    BY Zenon, <2>2, <1>3, <1>4
  <2> QED BY Zenon, <2>1, <2>2
<1> QED BY Zenon, <1>4, <1>5, <1>6, <1>7

\* A step of a listed task, with what it does to its ticket shown elsewhere.
LEMMA StepKeeps ==
    ASSUME ConnectionsInv, NEW s \in Connections, NEW r2, NEW e2, Moves(task[s], r2, e2),
           task' = [task EXCEPT ![s] = r2], entries' = [entries EXCEPT ![s] = e2],
           UNCHANGED <<loopVars, udpPermits>>,
           tickets' \in [Tokens -> Ticket \cup {NONE}], issued' \in 0 .. MaxTickets, ProbesInv'
    PROVE  ConnectionsInv'
<1>0. Fits(r2, e2) /\ Listed(task[s]) /\ Listed(r2) /\ r2.permit = task[s].permit
  BY Zenon DEF Moves
<1>1. /\ task' \in [Connections -> Task] /\ entries' \in [Connections -> Entry \cup {NONE}]
      /\ \A c \in Connections : TaskInv(task'[c]) /\ RecordInv(task'[c], entries'[c])
      /\ \A c \in Connections \ {s} : task'[c] = task[c] /\ entries'[c] = entries[c]
      /\ task'[s] = r2 /\ entries'[s] = e2
  BY Zenon, <1>0, FitsNext
<1>2. \A r : Listed(r) => r.pc \notin {"unborn", "finished", "joined"}
  BY Zenon DEF Listed, Serves, Awaits, Runs, Ending
<1>3. e2 # NONE /\ entries[s] # NONE
  BY Zenon, <1>0, InvFits DEF Fits, RecordInv
<1>4. Registered' = Registered
  BY Zenon, <1>1, <1>3 DEF Registered
<1>5. Holders' = Holders
  BY Zenon, <1>0, <1>1 DEF Holders
<1>6. Unjoined' = Unjoined
  BY ZenonT(40), <1>0, <1>1, <1>2 DEF Unjoined
<1>7. TypeOK'
  BY Zenon, <1>1 DEF ConnectionsInv, TypeOK, loopVars
<1>8. TasksInv'
  <2>1. sequence' = sequence
    BY Zenon DEF loopVars
  <2>2. ASSUME NEW c \in Connections, c > sequence' PROVE task'[c].pc = "unborn"
    <3>1. task[c].pc = "unborn"
      BY Zenon, <2>1, <2>2 DEF ConnectionsInv, TasksInv
    <3>2. c # s
      BY Zenon, <3>1, <1>0, <1>2
    <3> QED BY Zenon, <3>1, <3>2, <1>1
  <2> QED BY Zenon, <1>1, <2>2 DEF TasksInv
<1>9. CountInv'
  BY Zenon, <1>4, <1>5, <1>6 DEF ConnectionsInv, CountInv, loopVars
<1>10. LoopInv'
  <2>1. listener' = listener /\ ok' = ok
    BY Zenon DEF loopVars
  <2>2. ASSUME NEW c \in Connections, task'[c].pc = "joined", task'[c].failed
        PROVE  listener' # "accepting" /\ ~ok'
    <3>1. c # s
      BY Zenon, <2>2, <1>0, <1>1, <1>2
    <3> QED BY Zenon, <2>1, <2>2, <3>1, <1>1 DEF ConnectionsInv, LoopInv
  <2> QED BY Zenon, <2>1, <2>2, <1>6 DEF ConnectionsInv, LoopInv
<1> QED BY Zenon, <1>7, <1>8, <1>9, <1>10 DEF ConnectionsInv

\* A step that leaves the tickets alone.
LEMMA ProbesStay ==
    ASSUME ConnectionsInv, NEW s \in Connections, NEW r2, ProbeStays(task[s], r2),
           task' = [task EXCEPT ![s] = r2], UNCHANGED apiVars
    PROVE  ProbesInv'
<1>1. tickets' = tickets /\ issued' = issued /\ task \in [Connections -> Task]
  BY Zenon DEF apiVars, ConnectionsInv, TypeOK
<1>2. ASSUME NEW c \in Connections PROVE ProbeInv(c, task[c])
  BY Zenon, InvFits
<1>3. ASSUME NEW c \in Connections PROVE ProbeInv(c, task[c])'
  <2>1. CASE c # s
    <3>1. task'[c] = task[c]
      BY Zenon, <2>1, <1>1
    <3> QED BY Zenon, <3>1, <1>1, <1>2 DEF ProbeInv
  <2>2. CASE c = s
    <3>1. task'[s] = r2
      BY Zenon, <1>1
    <3>2. ProbeInv(s, task[s])
      BY Zenon, <1>2
    <3>3. CASE r2.probe = NONE
      BY Zenon, <2>2, <3>1, <3>3 DEF ProbeInv
    <3>4. CASE /\ r2.probe = task[s].probe \/ r2.probe <= issued
               /\ r2.pc \notin {"dialing", "routed", "connecting", "active"}
      BY Zenon, <2>2, <3>1, <3>2, <3>4, <1>1 DEF ProbeInv
    <3>7. CASE r2 = task[s]
      BY Zenon, <2>2, <3>1, <3>2, <3>7, <1>1 DEF ProbeInv
    <3>5. CASE /\ r2.probe = task[s].probe /\ r2.target = task[s].target /\ r2.number = task[s].number
               /\ task[s].pc = "dialing" /\ r2.pc = "routed"
      BY Zenon, <2>2, <3>1, <3>2, <3>5, <1>1 DEF ProbeInv, Evidence
    <3>6. CASE /\ r2.probe = task[s].probe /\ r2.target = task[s].target /\ r2.number = task[s].number
               /\ task[s].pc = "connecting" /\ r2.pc = "active" /\ r2.route = task[s].route
      BY Zenon, <2>2, <3>1, <3>2, <3>6, <1>1 DEF ProbeInv, Evidence
    <3> QED BY Zenon, <3>3, <3>4, <3>5, <3>6, <3>7 DEF ProbeStays
  <2> QED BY Zenon, <2>1, <2>2
<1>4. \A t \in Tokens : t > issued' => tickets'[t] = NONE
  BY Zenon, <1>1 DEF ConnectionsInv, ProbesInv
<1> QED BY Zenon, <1>3, <1>4 DEF ProbesInv

\* A step of a listed task that concerns neither the loop nor the tickets.
LEMMA TaskStep ==
    ASSUME ConnectionsInv, NEW s \in Connections, NEW r2, NEW e2,
           Moves(task[s], r2, e2), ProbeStays(task[s], r2),
           task' = [task EXCEPT ![s] = r2], entries' = [entries EXCEPT ![s] = e2],
           UNCHANGED <<loopVars, udpPermits, apiVars>>
    PROVE  ConnectionsInv'
<1>1. tickets' \in [Tokens -> Ticket \cup {NONE}] /\ issued' \in 0 .. MaxTickets
  BY Zenon DEF ConnectionsInv, TypeOK, apiVars
<1>2. ProbesInv'
  BY Zenon, ProbesStay
<1> QED BY Zenon, <1>1, <1>2, StepKeeps

-----------------------------------------------------------------------------

\* Until its first request a task has no ticket.
LEMMA HandshakeProbe ==
    ASSUME NEW r, NEW e, Fits(r, e), r.pc = "handshake"
    PROVE  r.probe = NONE
BY Zenon DEF Fits, TaskInv

\* A worker runs where its session is used or closed.
LEMMA WorkerAt ==
    ASSUME NEW r, NEW e, Fits(r, e), r.worker = "running"
    PROVE  r.pc \in {"relaying", "closing"}
BY Zenon, NoneAssumption DEF Fits, TaskInv

\* The outcome of a task is known or not.
LEMMA FailedIs ==
    ASSUME NEW r, NEW e, Fits(r, e)
    PROVE  r.failed \in BOOLEAN
BY ZenonT(40) DEF Fits, Task

\* serve: a SOCKS5 CONNECT request.
LEMMA Socks5ConnectKeeps ==
    ASSUME ConnectionsInv, NEW s \in Connections, NEW target \in Targets, Socks5Connect(s, target)
    PROVE  ConnectionsInv'
<1> DEFINE r2 == [task[s] EXCEPT !.pc = "dialing", !.target = target, !.inbound = "socks5_connect"]
           new == [entries[s] EXCEPT !.inbound = "socks5_connect", !.target = target, !.route = NONE,
                                     !.phase = "routing", !.sender = NONE]
<1>1. Fits(task[s], entries[s])
  BY Zenon, InvFits
<1>2. Moves(task[s], r2, Updated(entries[s], new))
  BY Zenon, <1>1, ConnectMoves DEF Socks5Connect
<1>3. ProbeStays(task[s], r2)
  BY ZenonT(40), <1>1, HandshakeProbe DEF ProbeStays, Fits, Task, Socks5Connect
<1>4. task' = [task EXCEPT ![s] = r2] /\ entries' = [entries EXCEPT ![s] = Updated(entries[s], new)]
  BY Zenon, UpdateIs DEF Socks5Connect, Goes, GoesTo, SetTarget
<1>5. UNCHANGED <<loopVars, udpPermits, apiVars>>
  BY Zenon DEF Socks5Connect
<1> QED BY Zenon, <1>2, <1>3, <1>4, <1>5, TaskStep

\* serve: an HTTP request, the first or a later one, with or without a ticket.
LEMMA HttpRequestKeeps ==
    ASSUME ConnectionsInv, NEW s \in Connections, NEW target \in Targets,
           NEW inbound \in {"http_connect", "http_forward"}, NEW token \in {NONE} \cup 1 .. issued,
           HttpRequest(s, target, inbound, token)
    PROVE  ConnectionsInv'
<1> DEFINE r2 == [task[s] EXCEPT !.pc = IF token = NONE THEN "dialing" ELSE "claiming",
                                 !.target = target, !.inbound = inbound, !.probe = token]
           new == [entries[s] EXCEPT !.inbound = inbound, !.target = target, !.route = NONE,
                                     !.phase = "routing", !.sender = NONE]
<1>1. Fits(task[s], entries[s])
  BY Zenon, InvFits
<1>0. inbound \in Inbounds \ {"socks5_udp"} /\ token \in Tokens \cup {NONE}
  BY LimitsAssumption DEF ConnectionsInv, TypeOK, Inbounds, Tokens
<1>2. Moves(task[s], r2, Updated(entries[s], new))
  BY Zenon, <1>0, <1>1, RequestMoves DEF HttpRequest
<1>3. ProbeStays(task[s], r2)
  BY <1>1 DEF ProbeStays, Fits, Task, HttpRequest
<1>4. task' = [task EXCEPT ![s] = r2] /\ entries' = [entries EXCEPT ![s] = Updated(entries[s], new)]
  BY Zenon, UpdateIs DEF HttpRequest, Goes, GoesTo, SetTarget
<1>5. UNCHANGED <<loopVars, udpPermits, apiVars>>
  BY Zenon DEF HttpRequest
<1> QED BY Zenon, <1>2, <1>3, <1>4, <1>5, TaskStep

\* dial: the route is recorded.
LEMMA DialRouteKeeps ==
    ASSUME ConnectionsInv, NEW s \in Connections, NEW leaf \in Leaves, DialRoute(s, leaf)
    PROVE  ConnectionsInv'
<1> DEFINE r2 == [task[s] EXCEPT !.pc = "routed", !.route = leaf]
           new == [entries[s] EXCEPT !.route = leaf, !.phase = "connecting"]
<1>1. Fits(task[s], entries[s])
  BY Zenon, InvFits
<1>2. Moves(task[s], r2, Updated(entries[s], new))
  BY Zenon, <1>1, DialRouteMoves DEF DialRoute
<1>3. ProbeStays(task[s], r2)
  BY Zenon, <1>1 DEF ProbeStays, Fits, Task, DialRoute
<1>4. task' = [task EXCEPT ![s] = r2] /\ entries' = [entries EXCEPT ![s] = Updated(entries[s], new)]
  BY Zenon, UpdateIs DEF DialRoute, Goes, GoesTo, SetRouted
<1>5. UNCHANGED <<loopVars, udpPermits, apiVars>>
  BY Zenon DEF DialRoute
<1> QED BY Zenon, <1>2, <1>3, <1>4, <1>5, TaskStep

\* dial fails.
LEMMA DialFailsKeeps ==
    ASSUME ConnectionsInv, NEW s \in Connections, DialFails(s)
    PROVE  ConnectionsInv'
<1> DEFINE r2 == [task[s] EXCEPT !.pc = "replying"]
<1>1. Fits(task[s], entries[s])
  BY Zenon, InvFits
<1>2. Moves(task[s], r2, entries[s])
  BY Zenon, <1>1, DialFailsMoves DEF DialFails
<1>3. ProbeStays(task[s], r2)
  BY Zenon, <1>1 DEF ProbeStays, Fits, Task, DialFails
<1>4. task' = [task EXCEPT ![s] = r2] /\ entries' = [entries EXCEPT ![s] = entries[s]]
  BY Zenon, EntriesStay DEF DialFails, Goes, GoesTo
<1>5. UNCHANGED <<loopVars, udpPermits, apiVars>>
  BY Zenon DEF DialFails
<1> QED BY Zenon, <1>2, <1>3, <1>4, <1>5, TaskStep

\* associate refuses.
LEMMA AssociateRefusedKeeps ==
    ASSUME ConnectionsInv, NEW s \in Connections, AssociateRefused(s)
    PROVE  ConnectionsInv'
<1> DEFINE r2 == [task[s] EXCEPT !.pc = "replying"]
<1>1. Fits(task[s], entries[s])
  BY Zenon, InvFits
<1>2. Moves(task[s], r2, entries[s])
  BY Zenon, <1>1, DialFailsMoves DEF AssociateRefused
<1>3. ProbeStays(task[s], r2)
  BY Zenon, <1>1 DEF ProbeStays, Fits, Task, AssociateRefused
<1>4. task' = [task EXCEPT ![s] = r2] /\ entries' = [entries EXCEPT ![s] = entries[s]]
  BY Zenon, EntriesStay DEF AssociateRefused, Goes, GoesTo
<1>5. UNCHANGED <<loopVars, udpPermits, apiVars>>
  BY Zenon DEF AssociateRefused
<1> QED BY Zenon, <1>2, <1>3, <1>4, <1>5, TaskStep

\* serve relays.
LEMMA ConnectedKeeps ==
    ASSUME ConnectionsInv, NEW s \in Connections, Connected(s)
    PROVE  ConnectionsInv'
<1> DEFINE r2 == [task[s] EXCEPT !.pc = "active"]
           new == [entries[s] EXCEPT !.phase = "active"]
<1>1. Fits(task[s], entries[s])
  BY Zenon, InvFits
<1>2. Moves(task[s], r2, Updated(entries[s], new))
  BY Zenon, <1>1, ConnectedMoves DEF Connected
<1>3. ProbeStays(task[s], r2)
  BY <1>1 DEF ProbeStays, Fits, Task, Connected
<1>4. task' = [task EXCEPT ![s] = r2] /\ entries' = [entries EXCEPT ![s] = Updated(entries[s], new)]
  BY Zenon, UpdateIs DEF Connected, Goes, GoesTo, SetPhase
<1>5. UNCHANGED <<loopVars, udpPermits, apiVars>>
  BY Zenon DEF Connected
<1> QED BY Zenon, <1>2, <1>3, <1>4, <1>5, TaskStep

\* serve waits for the next request of a client.
LEMMA KeptAliveKeeps ==
    ASSUME ConnectionsInv, NEW s \in Connections, KeptAlive(s)
    PROVE  ConnectionsInv'
<1> DEFINE r2 == [Unborn EXCEPT !.pc = "idle", !.number = task[s].number + 1]
           new == [entries[s] EXCEPT !.phase = "idle", !.target = NONE, !.route = NONE]
<1>1. Fits(task[s], entries[s])
  BY Zenon, InvFits
<1>2. Moves(task[s], r2, Updated(entries[s], new))
  BY Zenon, <1>1, KeptAliveMoves DEF KeptAlive
<1>3. ProbeStays(task[s], r2)
  BY Zenon, <1>1 DEF ProbeStays, Unborn
<1>4. task' = [task EXCEPT ![s] = r2] /\ entries' = [entries EXCEPT ![s] = Updated(entries[s], new)]
  BY Zenon, UpdateIs DEF KeptAlive, Goes, GoesTo, SetIdle
<1>5. UNCHANGED <<loopVars, udpPermits, apiVars>>
  BY Zenon DEF KeptAlive
<1> QED BY Zenon, <1>2, <1>3, <1>4, <1>5, TaskStep

\* serve: a SOCKS5 UDP ASSOCIATE request.
LEMMA Socks5AssociateKeeps ==
    ASSUME ConnectionsInv, NEW s \in Connections, NEW requested \in Senders \cup {NONE}, Socks5Associate(s, requested)
    PROVE  ConnectionsInv'
<1> DEFINE r2 == [task[s] EXCEPT !.pc = "associate", !.inbound = "socks5_udp", !.pinned = requested]
           new == [entries[s] EXCEPT !.inbound = "socks5_udp", !.udp = TRUE, !.phase = "udp_wait"]
<1>1. Fits(task[s], entries[s])
  BY Zenon, InvFits
<1>2. Moves(task[s], r2, Updated(entries[s], new))
  BY Zenon, <1>1, AssociateMoves DEF Socks5Associate
<1>3. ProbeStays(task[s], r2)
  BY Zenon, <1>1 DEF ProbeStays, Fits, Task, Socks5Associate
<1>4. task' = [task EXCEPT ![s] = r2] /\ entries' = [entries EXCEPT ![s] = Updated(entries[s], new)]
  BY Zenon, UpdateIs DEF Socks5Associate, Goes, GoesTo, SetInbound
<1>5. UNCHANGED <<loopVars, udpPermits, apiVars>>
  BY Zenon DEF Socks5Associate
<1> QED BY Zenon, <1>2, <1>3, <1>4, <1>5, TaskStep

\* udp_relay: the first datagram of an association.
LEMMA FirstDatagramKeeps ==
    ASSUME ConnectionsInv, NEW s \in Connections, NEW sender \in Senders, NEW target \in Targets,
           FirstDatagram(s, sender, target)
    PROVE  ConnectionsInv'
<1> DEFINE r2 == [task[s] EXCEPT !.pc = "udp_routing", !.pinned = sender, !.target = target]
           new == [entries[s] EXCEPT !.inbound = "socks5_udp", !.target = target, !.route = NONE,
                                     !.phase = "routing", !.sender = sender]
<1>1. Fits(task[s], entries[s])
  BY Zenon, InvFits
<1>2. Moves(task[s], r2, Updated(entries[s], new))
  BY Zenon, <1>1, FirstDatagramMoves DEF FirstDatagram
<1>3. ProbeStays(task[s], r2)
  BY Zenon, <1>1 DEF ProbeStays, Fits, Task, FirstDatagram
<1>4. task' = [task EXCEPT ![s] = r2] /\ entries' = [entries EXCEPT ![s] = Updated(entries[s], new)]
  BY Zenon, UpdateIs DEF FirstDatagram, Goes, GoesTo, SetTarget
<1>5. UNCHANGED <<loopVars, udpPermits, apiVars>>
  BY Zenon DEF FirstDatagram
<1> QED BY Zenon, <1>2, <1>3, <1>4, <1>5, TaskStep

\* udp_relay: the route is recorded.
LEMMA UdpRouteKeeps ==
    ASSUME ConnectionsInv, NEW s \in Connections, NEW leaf \in Leaves, UdpRoute(s, leaf)
    PROVE  ConnectionsInv'
<1> DEFINE r2 == [task[s] EXCEPT !.pc = "udp_routed", !.route = leaf]
           new == [entries[s] EXCEPT !.route = leaf, !.phase = "connecting"]
<1>1. Fits(task[s], entries[s])
  BY Zenon, InvFits
<1>2. Moves(task[s], r2, Updated(entries[s], new))
  BY Zenon, <1>1, UdpRouteMoves DEF UdpRoute
<1>3. ProbeStays(task[s], r2)
  BY <1>1 DEF ProbeStays, Fits, Task, UdpRoute
<1>4. task' = [task EXCEPT ![s] = r2] /\ entries' = [entries EXCEPT ![s] = Updated(entries[s], new)]
  BY Zenon, UpdateIs DEF UdpRoute, Goes, GoesTo, SetRouted
<1>5. UNCHANGED <<loopVars, udpPermits, apiVars>>
  BY Zenon DEF UdpRoute
<1> QED BY Zenon, <1>2, <1>3, <1>4, <1>5, TaskStep

\* udp_relay: the session is open.
LEMMA UdpOpenedKeeps ==
    ASSUME ConnectionsInv, NEW s \in Connections, UdpOpened(s)
    PROVE  ConnectionsInv'
<1> DEFINE r2 == [task[s] EXCEPT !.pc = "relaying", !.forwarded = {task[s].pinned},
                                 !.worker = IF task[s].route \in Trojan THEN "running" ELSE NONE]
           new == [entries[s] EXCEPT !.phase = "active"]
<1>1. Fits(task[s], entries[s])
  BY Zenon, InvFits
<1>2. Moves(task[s], r2, Updated(entries[s], new))
  BY Zenon, <1>1, UdpOpenedMoves DEF UdpOpened
<1>3. ProbeStays(task[s], r2)
  BY Zenon, <1>1 DEF ProbeStays, Fits, Task, UdpOpened
<1>4. task' = [task EXCEPT ![s] = r2] /\ entries' = [entries EXCEPT ![s] = Updated(entries[s], new)]
  BY Zenon, UpdateIs DEF UdpOpened, Goes, GoesTo, SetPhase
<1>5. UNCHANGED <<loopVars, udpPermits, apiVars>>
  BY Zenon DEF UdpOpened
<1> QED BY Zenon, <1>2, <1>3, <1>4, <1>5, TaskStep

\* udp_relay: a further datagram.
LEMMA DatagramKeeps ==
    ASSUME ConnectionsInv, NEW s \in Connections, NEW sender \in Senders, Datagram(s, sender)
    PROVE  ConnectionsInv'
<1> DEFINE r2 == [task[s] EXCEPT !.forwarded = @ \cup {sender}, !.pinned = sender]
<1>1. Fits(task[s], entries[s])
  BY Zenon, InvFits
<1>2. Moves(task[s], r2, entries[s])
  BY Zenon, <1>1, DatagramMoves DEF Datagram, FromPinned
<1>3. ProbeStays(task[s], r2)
  BY <1>1 DEF ProbeStays, Fits, Task, Datagram, FromPinned
<1>4. task' = [task EXCEPT ![s] = r2] /\ entries' = [entries EXCEPT ![s] = entries[s]]
  BY Zenon, EntriesStay DEF Datagram, Goes, GoesTo, FromPinned
<1>5. UNCHANGED <<loopVars, udpPermits, apiVars>>
  BY Zenon DEF Datagram
<1> QED BY Zenon, <1>2, <1>3, <1>4, <1>5, TaskStep

\* trojan_worker ends.
LEMMA WorkerEndsKeeps ==
    ASSUME ConnectionsInv, NEW s \in Connections, NEW how \in {"ended", "panicked"}, WorkerEnds(s, how)
    PROVE  ConnectionsInv'
<1> DEFINE r2 == [task[s] EXCEPT !.worker = how]
<1>1. Fits(task[s], entries[s])
  BY Zenon, InvFits
<1>2. Moves(task[s], r2, entries[s])
  BY Zenon, <1>1, WorkerMoves DEF WorkerEnds
<1>3. ProbeStays(task[s], r2)
  BY Zenon, <1>1, WorkerAt DEF ProbeStays, Fits, Task, WorkerEnds
<1>4. task' = [task EXCEPT ![s] = r2] /\ entries' = [entries EXCEPT ![s] = entries[s]]
  BY Zenon, EntriesStay DEF WorkerEnds, Goes, GoesTo
<1>5. UNCHANGED <<loopVars, udpPermits, apiVars>>
  BY Zenon DEF WorkerEnds
<1> QED BY Zenon, <1>2, <1>3, <1>4, <1>5, TaskStep

\* UdpSession::close aborts the worker.
LEMMA AbortWorkerKeeps ==
    ASSUME ConnectionsInv, NEW s \in Connections, AbortWorker(s)
    PROVE  ConnectionsInv'
<1> DEFINE r2 == [task[s] EXCEPT !.worker = "ended"]
<1>1. Fits(task[s], entries[s])
  BY Zenon, InvFits
<1>2. Moves(task[s], r2, entries[s])
  BY Zenon, <1>1, WorkerMoves DEF AbortWorker
<1>3. ProbeStays(task[s], r2)
  BY Zenon, <1>1 DEF ProbeStays, Fits, Task, AbortWorker
<1>4. task' = [task EXCEPT ![s] = r2] /\ entries' = [entries EXCEPT ![s] = entries[s]]
  BY Zenon, EntriesStay DEF AbortWorker, Goes, GoesTo
<1>5. UNCHANGED <<loopVars, udpPermits, apiVars>>
  BY Zenon DEF AbortWorker
<1> QED BY Zenon, <1>2, <1>3, <1>4, <1>5, TaskStep

\* serve returns.
LEMMA ServedKeeps ==
    ASSUME ConnectionsInv, NEW s \in Connections, Served(s)
    PROVE  ConnectionsInv'
<1> DEFINE r2 == [Unborn EXCEPT !.pc = "closing", !.permit = task[s].permit, !.worker = task[s].worker,
                                !.failed = task[s].failed]
<1>1. Fits(task[s], entries[s])
  BY Zenon, InvFits
<1>2. Moves(task[s], r2, entries[s])
  BY Zenon, <1>1, LeavesMoves, FailedIs DEF Served, Left, Serves
<1>3. ProbeStays(task[s], r2)
  BY Zenon, <1>1 DEF ProbeStays, Unborn, Left, Serves
<1>4. task' = [task EXCEPT ![s] = r2] /\ entries' = [entries EXCEPT ![s] = entries[s]]
  BY Zenon, EntriesStay DEF Served, Goes, GoesTo, Left, Serves
<1>5. UNCHANGED <<loopVars, udpPermits, apiVars>>
  BY Zenon DEF Served
<1> QED BY Zenon, <1>2, <1>3, <1>4, <1>5, TaskStep

\* serve panics.
LEMMA PanicsKeeps ==
    ASSUME ConnectionsInv, NEW s \in Connections, Panics(s)
    PROVE  ConnectionsInv'
<1> DEFINE r2 == [Unborn EXCEPT !.pc = "closing", !.permit = task[s].permit, !.worker = task[s].worker,
                                !.failed = TRUE]
<1>1. Fits(task[s], entries[s])
  BY Zenon, InvFits
<1>2. Moves(task[s], r2, entries[s])
  BY Zenon, <1>1, LeavesMoves DEF Panics, Left, Serves
<1>3. ProbeStays(task[s], r2)
  BY Zenon, <1>1 DEF ProbeStays, Unborn, Left, Serves
<1>4. task' = [task EXCEPT ![s] = r2] /\ entries' = [entries EXCEPT ![s] = entries[s]]
  BY Zenon, EntriesStay DEF Panics, Goes, GoesTo, Left, Serves
<1>5. UNCHANGED <<loopVars, udpPermits, apiVars>>
  BY Zenon DEF Panics
<1> QED BY Zenon, <1>2, <1>3, <1>4, <1>5, TaskStep

\* The select around serve sees a stop or a cancellation.
LEMMA InterruptKeeps ==
    ASSUME ConnectionsInv, NEW s \in Connections, Interrupt(s)
    PROVE  ConnectionsInv'
<1> DEFINE r2 == [Unborn EXCEPT !.pc = "closing", !.permit = task[s].permit, !.worker = task[s].worker,
                                !.failed = task[s].failed]
<1>1. Fits(task[s], entries[s])
  BY Zenon, InvFits
<1>2. Moves(task[s], r2, entries[s])
  BY Zenon, <1>1, LeavesMoves, FailedIs DEF Interrupt, Left, Serves
<1>3. ProbeStays(task[s], r2)
  BY Zenon, <1>1 DEF ProbeStays, Unborn, Left, Serves
<1>4. task' = [task EXCEPT ![s] = r2] /\ entries' = [entries EXCEPT ![s] = entries[s]]
  BY Zenon, EntriesStay DEF Interrupt, Goes, GoesTo, Left, Serves
<1>5. UNCHANGED <<loopVars, udpPermits, apiVars>>
  BY Zenon DEF Interrupt
<1> QED BY Zenon, <1>2, <1>3, <1>4, <1>5, TaskStep

\* The UDP session is closed.
LEMMA SessionClosedKeeps ==
    ASSUME ConnectionsInv, NEW s \in Connections, SessionClosed(s)
    PROVE  ConnectionsInv'
<1> DEFINE r2 == [task[s] EXCEPT !.pc = "session", !.worker = NONE,
                                 !.failed = @ \/ task[s].worker = "panicked"]
<1>1. Fits(task[s], entries[s])
  BY Zenon, InvFits
<1>2. Moves(task[s], r2, entries[s])
  BY Zenon, <1>1, SessionMoves, FailedIs DEF SessionClosed
<1>3. ProbeStays(task[s], r2)
  BY Zenon, <1>1 DEF ProbeStays, Fits, Task, SessionClosed
<1>4. task' = [task EXCEPT ![s] = r2] /\ entries' = [entries EXCEPT ![s] = entries[s]]
  BY Zenon, EntriesStay DEF SessionClosed, Goes, GoesTo
<1>5. UNCHANGED <<loopVars, udpPermits, apiVars>>
  BY Zenon DEF SessionClosed
<1> QED BY Zenon, <1>2, <1>3, <1>4, <1>5, TaskStep

-----------------------------------------------------------------------------

\* UdpContinue: the route relays UDP, or the association is rejected and ends.
LEMMA UdpContinueKeeps ==
    ASSUME ConnectionsInv, NEW s \in Connections, UdpContinue(s)
    PROVE  ConnectionsInv'
<1> DEFINE left == [Unborn EXCEPT !.pc = "closing", !.permit = task[s].permit,
                                  !.worker = task[s].worker, !.failed = task[s].failed]
           new == [entries[s] EXCEPT !.phase = "rejected"]
           next == [task[s] EXCEPT !.pc = "udp_opening"]
<1>1. Fits(task[s], entries[s])
  BY Zenon, InvFits
<1>2. task[s].pc = "udp_routed" /\ UNCHANGED <<loopVars, udpPermits, apiVars>>
  BY Zenon DEF UdpContinue
<1>3. CASE SetPhase(s, "rejected") /\ Goes(s, left)
  <2>1. Moves(task[s], left, Updated(entries[s], new))
    BY Zenon, <1>1, <1>2, RejectedMoves, FailedIs
  <2>2. ProbeStays(task[s], left)
    BY Zenon DEF ProbeStays, Unborn
  <2>3. task' = [task EXCEPT ![s] = left] /\ entries' = [entries EXCEPT ![s] = Updated(entries[s], new)]
    BY Zenon, <1>3, UpdateIs DEF Goes, SetPhase
  <2> QED BY Zenon, <1>2, <2>1, <2>2, <2>3, TaskStep
<1>4. CASE GoesTo(s, "udp_opening") /\ UNCHANGED entries
  <2>1. Moves(task[s], next, entries[s])
    BY Zenon, <1>1, <1>2, UdpOpeningMoves
  <2>2. ProbeStays(task[s], next)
    BY <1>1 DEF ProbeStays, Fits, Task
  <2>3. task' = [task EXCEPT ![s] = next] /\ entries' = [entries EXCEPT ![s] = entries[s]]
    BY Zenon, <1>4, EntriesStay DEF Goes, GoesTo
  <2> QED BY Zenon, <1>2, <2>1, <2>2, <2>3, TaskStep
<1> QED BY Zenon, <1>3, <1>4 DEF UdpContinue, Left

\* Registry::close marks the record and leaves the task to notice.
LEMMA CloseKeeps ==
    ASSUME ConnectionsInv, NEW s \in Connections, Close(s)
    PROVE  ConnectionsInv'
<1> DEFINE e2 == [entries[s] EXCEPT !.phase = "closing"]
<1>1. Fits(task[s], entries[s]) /\ entries[s] # NONE
  BY Zenon, InvFits DEF Close, Registered
<1>2. Listed(task[s]) /\ entries[s] \in Entry /\ ValidEntry(entries[s])
  BY Zenon, <1>1 DEF Fits, RecordInv
<1>3. e2 \in Entry /\ e2.phase = "closing"
  BY Zenon, <1>2 DEF Entry, Phases
<1>4. ValidEntry(e2)
  BY ZenonT(40), <1>2, <1>3 DEF Entry, ValidEntry
<1>5. Fits(task[s], e2)
  BY Zenon, <1>1, <1>2, <1>3, <1>4, NoneAssumption DEF Fits, RecordInv
<1>6. Moves(task[s], task[s], e2)
  BY Zenon, <1>2, <1>5 DEF Moves
<1>7. ProbeStays(task[s], task[s])
  BY Zenon DEF ProbeStays
<1>8. task' = [task EXCEPT ![s] = task[s]] /\ entries' = [entries EXCEPT ![s] = e2]
  BY Zenon DEF Close, ConnectionsInv, TypeOK
<1>9. UNCHANGED <<loopVars, udpPermits, apiVars>>
  BY Zenon DEF Close, loopVars, apiVars
<1> QED BY Zenon, <1>6, <1>7, <1>8, <1>9, TaskStep

\* What a ticket says of a request is a claim.
LEMMA EvidenceIs ==
    ASSUME NEW s \in Connections, NEW r \in Task, NEW route \in Leaves \cup {NONE}
    PROVE  /\ Evidence(s, r, route).claim \in Claim
           /\ Evidence(s, r, route).claim # NONE
           /\ Evidence(s, r, route).claim.connection = s
           /\ Evidence(s, r, route).target = r.target
           /\ r.target # NONE => Evidence(s, r, route) \in Ticket
<1>1. r.number \in 0 .. MaxRequests /\ r.target \in Targets \cup {NONE}
  BY Zenon DEF Task
<1>2. [connection |-> s, number |-> r.number, route |-> route] \in Claim
  BY Zenon, <1>1 DEF Claim
<1>3. [connection |-> s, number |-> r.number, route |-> route].connection = s
  BY Zenon
<1>4. r.target # NONE => Evidence(s, r, route) \in Ticket
  BY Zenon, <1>1, <1>2 DEF Evidence, Ticket
<1>5. /\ Evidence(s, r, route).claim = [connection |-> s, number |-> r.number, route |-> route]
      /\ Evidence(s, r, route).target = r.target
  BY Zenon DEF Evidence
<1> QED BY Zenon, <1>2, <1>3, <1>4, <1>5, NoneAssumption

\* A ticket without a claim, or with one of s, is of no other request under way.
LEMMA NoOtherClaim ==
    ASSUME ConnectionsInv, NEW s \in Connections, NEW c \in Connections \ {s}, NEW t \in Tokens,
           tickets[t] # NONE, tickets[t].claim = NONE \/ tickets[t].claim.connection = s,
           task[c].probe = t
    PROVE  task[c].pc \notin {"dialing", "routed", "connecting", "active"}
<1>1. task[c] \in Task /\ ProbeInv(c, task[c])
  BY Zenon, InvFits DEF Fits
<1>2. task[c].route \in Leaves \cup {NONE} /\ task[c].probe # NONE
  BY <1>1, NoneAssumption, LimitsAssumption DEF Task, Tokens
<1>3. ASSUME NEW route \in Leaves \cup {NONE}, tickets[t] = Evidence(c, task[c], route) PROVE FALSE
  <2>1. Evidence(c, task[c], route).claim # NONE /\ Evidence(c, task[c], route).claim.connection = c
    BY ZenonT(40), <1>1, EvidenceIs
  <2> QED BY Zenon, <2>1, <1>3
<1> QED BY Zenon, <1>1, <1>2, <1>3 DEF ProbeInv

\* A request writes its claim or its route to its ticket.
LEMMA TicketWritten ==
    ASSUME ConnectionsInv, NEW s \in Connections, NEW t \in Tokens, NEW k \in Ticket,
           NEW r2, task[s].probe = t, r2.probe = t, tickets[t] # NONE,
           tickets[t].claim = NONE \/ tickets[t].claim.connection = s,
           r2.pc \in {"dialing", "routed"} => k = Evidence(s, r2, NONE),
           r2.pc \in {"connecting", "active"} => k = Evidence(s, r2, r2.route),
           task' = [task EXCEPT ![s] = r2], tickets' = [tickets EXCEPT ![t] = k],
           issued' = issued
    PROVE  ProbesInv' /\ tickets' \in [Tokens -> Ticket \cup {NONE}]
<1>1. tickets \in [Tokens -> Ticket \cup {NONE}] /\ task \in [Connections -> Task]
  BY Zenon DEF ConnectionsInv, TypeOK
<1>2. tickets' \in [Tokens -> Ticket \cup {NONE}]
  BY Zenon, <1>1
<1>3. tickets'[t] = k /\ \A u \in Tokens \ {t} : tickets'[u] = tickets[u]
  BY Zenon, <1>1
<1>4. t # NONE /\ ProbeInv(s, task[s])
  BY SMTT(60), InvFits, NoneAssumption, LimitsAssumption DEF Tokens
<1>5. t <= issued
  BY Zenon, <1>4 DEF ProbeInv
<1>6. ASSUME NEW c \in Connections PROVE ProbeInv(c, task[c])'
  <2>1. CASE c = s
    <3>1. task'[c] = r2
      BY Zenon, <2>1, <1>1
    <3> QED BY Zenon, <2>1, <3>1, <1>3, <1>5 DEF ProbeInv, Evidence
  <2>2. CASE c # s /\ task[c].probe = t
    <3>1. task'[c] = task[c]
      BY Zenon, <2>2, <1>1
    <3>2. task[c].pc \notin {"dialing", "routed", "connecting", "active"}
      BY Zenon, <2>2, NoOtherClaim
    <3> QED BY Zenon, <2>2, <3>1, <3>2, <1>5 DEF ProbeInv
  <2>3. CASE c # s /\ task[c].probe # t
    <3>1. task'[c] = task[c] /\ ProbeInv(c, task[c])
      BY Zenon, <2>3, <1>1, InvFits
    <3>2. task[c].probe # NONE => tickets'[task[c].probe] = tickets[task[c].probe]
      <4>1. task[c].probe \in Tokens \cup {NONE}
        BY <1>1 DEF Task
      <4> QED BY Zenon, <4>1, <2>3, <1>3
    <3> QED BY Zenon, <3>1, <3>2 DEF ProbeInv, Evidence
  <2> QED BY Zenon, <2>1, <2>2, <2>3
<1>7. ASSUME NEW u \in Tokens, u > issued' PROVE tickets'[u] = NONE
  <2>1. u # t
    BY SMTT(60), <1>5, <1>7, LimitsAssumption DEF Tokens, ConnectionsInv, TypeOK
  <2> QED BY Zenon, <2>1, <1>3, <1>7 DEF ConnectionsInv, ProbesInv
<1> QED BY Zenon, <1>2, <1>6, <1>7 DEF ProbesInv

\* claim_probe: the request has the ticket for itself, or gets an error.
LEMMA ClaimProbeKeeps ==
    ASSUME ConnectionsInv, NEW s \in Connections, ClaimProbe(s)
    PROVE  ConnectionsInv'
<1> DEFINE t == task[s].probe
           claim == [connection |-> s, number |-> task[s].number, route |-> NONE]
           next == [task[s] EXCEPT !.pc = "dialing"]
           error == [task[s] EXCEPT !.pc = "replying", !.probe = NONE]
<1>1. /\ Fits(task[s], entries[s]) /\ task[s] \in Task /\ task[s].pc = "claiming"
      /\ UNCHANGED <<loopVars, entries, udpPermits, issued>>
  BY Zenon, InvFits DEF ClaimProbe, Fits
<1>2. entries' = [entries EXCEPT ![s] = entries[s]]
  BY Zenon, <1>1, EntriesStay
<1>3. CASE Claimable(s) /\ tickets' = [tickets EXCEPT ![t].claim = claim] /\ GoesTo(s, "dialing")
  <2> DEFINE k == [tickets[t] EXCEPT !.claim = claim]
  <2>1. t \in Tokens
    <3>1. t # NONE
      BY Zenon, <1>1 DEF Fits, TaskInv
    <3>2. t \in Tokens \cup {NONE}
      BY Zenon, <1>1 DEF Task
    <3> QED BY Zenon, <3>1, <3>2
  <2>2. /\ tickets[t] # NONE /\ tickets[t] \in Ticket
        /\ tickets[t].claim = NONE /\ tickets[t].target = task[s].target
    BY Zenon, <1>3, <2>1 DEF Claimable, ConnectionsInv, TypeOK
  <2>3. next.probe = t /\ next.pc = "dialing" /\ next.target = task[s].target /\ next.number = task[s].number
    BY Zenon, <1>1 DEF Task
  <2>4. k = Evidence(s, next, NONE)
    BY <2>2, <2>3 DEF Evidence, Ticket
  <2>5. Moves(task[s], next, entries[s])
    BY Zenon, <1>1, ClaimMoves
  <2>6. k \in Ticket
    <3>1. next \in Task
      BY Zenon, <2>5 DEF Moves, Fits
    <3>2. next.target # NONE
      BY Zenon, <2>2, <2>3, NoneAssumption DEF Ticket
    <3>3. NONE \in Leaves \cup {NONE}
      BY Zenon
    <3>4. Evidence(s, next, NONE) \in Ticket
      <4> HIDE DEF next
      <4> QED BY Zenon, <3>1, <3>2, <3>3, EvidenceIs
    <3> QED BY Zenon, <2>4, <3>4
  <2>7. task' = [task EXCEPT ![s] = next] /\ tickets' = [tickets EXCEPT ![t] = k]
    BY ZenonT(40), <1>3 DEF GoesTo, Goes
  <2>8. ProbesInv' /\ tickets' \in [Tokens -> Ticket \cup {NONE}]
    <3> HIDE DEF k, next, t
    <3> QED BY Zenon, <1>1, <2>1, <2>2, <2>3, <2>4, <2>6, <2>7, TicketWritten DEF t
  <2>9. issued' \in 0 .. MaxTickets
    BY Zenon, <1>1 DEF ConnectionsInv, TypeOK
  <2> QED BY Zenon, <1>1, <1>2, <2>5, <2>7, <2>8, <2>9, StepKeeps
<1>4. CASE Goes(s, error) /\ UNCHANGED tickets
  <2>1. Moves(task[s], error, entries[s])
    BY Zenon, <1>1, UnclaimedMoves
  <2>2. ProbeStays(task[s], error)
    BY Zenon, <1>1 DEF ProbeStays, Task
  <2> QED BY Zenon, <1>1, <1>2, <1>4, <2>1, <2>2, TaskStep DEF Goes, apiVars
<1> QED BY Zenon, <1>3, <1>4 DEF ClaimProbe

\* Probe::routed and the rest of dial: the route joins the request's own claim.
LEMMA DialContinueKeeps ==
    ASSUME ConnectionsInv, NEW s \in Connections, DialContinue(s)
    PROVE  ConnectionsInv'
<1> DEFINE t == task[s].probe
           reject == [task[s] EXCEPT !.pc = "replying"]
           next == [task[s] EXCEPT !.pc = "connecting"]
           new == [entries[s] EXCEPT !.phase = "rejected"]
<1>1. /\ Fits(task[s], entries[s]) /\ task[s] \in Task /\ task[s].pc = "routed" /\ RouteProbe(s)
      /\ UNCHANGED <<loopVars, udpPermits, issued>>
  BY Zenon, InvFits DEF DialContinue, Fits
<1>2. PICK r2, e2 :
        /\ Moves(task[s], r2, e2)
        /\ task' = [task EXCEPT ![s] = r2] /\ entries' = [entries EXCEPT ![s] = e2]
        /\ r2.pc \in {"replying", "connecting"} /\ r2.probe = t /\ r2.target = task[s].target
        /\ r2.number = task[s].number /\ r2.route = task[s].route
  <2>1. CASE SetPhase(s, "rejected") /\ GoesTo(s, "replying")
    <3>1. Moves(task[s], reject, Updated(entries[s], new))
      BY Zenon, <1>1, RejectMoves
    <3>2. /\ reject.pc = "replying" /\ reject.probe = t /\ reject.target = task[s].target
          /\ reject.number = task[s].number /\ reject.route = task[s].route
      BY Zenon, <1>1 DEF Task
    <3>3. task' = [task EXCEPT ![s] = reject] /\ entries' = [entries EXCEPT ![s] = Updated(entries[s], new)]
      BY Zenon, <2>1, UpdateIs DEF Goes, GoesTo, SetPhase
    <3> HIDE DEF reject, new
    <3> QED BY Zenon, <3>1, <3>2, <3>3
  <2>2. CASE GoesTo(s, "connecting") /\ UNCHANGED entries
    <3>1. Moves(task[s], next, entries[s])
      BY Zenon, <1>1, ConnectingMoves
    <3>2. /\ next.pc = "connecting" /\ next.probe = t /\ next.target = task[s].target
          /\ next.number = task[s].number /\ next.route = task[s].route
      BY Zenon, <1>1 DEF Task
    <3>3. task' = [task EXCEPT ![s] = next] /\ entries' = [entries EXCEPT ![s] = entries[s]]
      BY Zenon, <2>2, EntriesStay DEF Goes, GoesTo
    <3> HIDE DEF next
    <3> QED BY Zenon, <3>1, <3>2, <3>3
  <2> QED BY Zenon, <2>1, <2>2 DEF DialContinue
<1>3. issued' \in 0 .. MaxTickets
  BY Zenon, <1>1 DEF ConnectionsInv, TypeOK
<1>4. t \in Tokens \cup {NONE} /\ task[s].route \in Leaves \cup {NONE}
  BY <1>1 DEF Task
<1>5. ProbesInv' /\ tickets' \in [Tokens -> Ticket \cup {NONE}]
  <2>1. CASE t = NONE
    <3>1. UNCHANGED apiVars
      BY Zenon, <2>1, <1>1 DEF RouteProbe, apiVars
    <3>2. ProbeStays(task[s], r2)
      BY Zenon, <2>1, <1>2 DEF ProbeStays
    <3> QED BY Zenon, <1>2, <3>1, <3>2, ProbesStay DEF ConnectionsInv, TypeOK, apiVars
  <2>2. CASE t # NONE /\ tickets[t] = NONE
    <3>1. UNCHANGED apiVars
      BY Zenon, <2>2, <1>1 DEF RouteProbe, apiVars
    <3>2. ASSUME NEW c \in Connections PROVE ProbeInv(c, task[c])'
      <4>1. CASE c # s
        <5>1. task'[c] = task[c] /\ ProbeInv(c, task[c])
          BY Zenon, <4>1, <1>2, InvFits DEF ConnectionsInv, TypeOK
        <5> QED BY Zenon, <5>1, <3>1 DEF ProbeInv, apiVars
      <4>2. CASE c = s
        <5>1. task'[s] = r2 /\ ProbeInv(s, task[s])
          BY Zenon, <1>2, InvFits DEF ConnectionsInv, TypeOK
        <5> QED BY Zenon, <4>2, <5>1, <3>1, <2>2, <1>2 DEF ProbeInv, apiVars
      <4> QED BY Zenon, <4>1, <4>2
    <3> QED BY Zenon, <3>1, <3>2 DEF ProbesInv, ConnectionsInv, TypeOK, apiVars
  <2>3. CASE t # NONE /\ tickets[t] # NONE
    <3> DEFINE k == [tickets[t] EXCEPT !.claim.route = IF @ = NONE THEN task[s].route ELSE @]
    <3>1. t \in Tokens /\ tickets' = [tickets EXCEPT ![t] = k]
      BY Zenon, <2>3, <1>1, <1>4 DEF RouteProbe
    <3>2. tickets[t] = Evidence(s, task[s], NONE)
      BY Zenon, <2>3, <1>1, InvFits DEF ProbeInv
    <3>3. tickets[t].claim.connection = s /\ tickets[t].target = task[s].target
      <4>1. NONE \in Leaves \cup {NONE}
        BY Zenon
      <4>2. /\ Evidence(s, task[s], NONE).claim.connection = s
            /\ Evidence(s, task[s], NONE).target = task[s].target
        <5>1. task[s] \in Task
          BY Zenon, <1>1
        <5> QED BY ZenonT(40), <4>1, <5>1, EvidenceIs
      <4> QED BY Zenon, <4>2, <3>2
    <3>4. k = Evidence(s, r2, r2.route)
      BY <3>2, <1>2 DEF Evidence
    <3>5. k \in Ticket
      <4>1. r2 \in Task
        BY Zenon, <1>2 DEF Moves, Fits
      <4>2. tickets[t] \in Ticket /\ tickets[t].target = task[s].target
        BY Zenon, <2>3, <3>1, <3>3 DEF ConnectionsInv, TypeOK
      <4>3. task[s].target # NONE
        BY Zenon, <4>2, NoneAssumption DEF Ticket
      <4> HIDE DEF k
      <4> QED BY Zenon, <1>2, <1>4, <3>4, <4>1, <4>3, EvidenceIs
    <3> HIDE DEF k, t
    <3>6. task[s].probe = t /\ r2.probe = t
      BY Zenon, <1>2 DEF t
    <3>7. r2.pc \notin {"dialing", "routed"}
      BY Zenon, <1>2
    <3> QED BY Zenon, <1>1, <1>2, <2>3, <3>1, <3>3, <3>4, <3>5, <3>6, <3>7, TicketWritten
  <2> QED BY Zenon, <2>1, <2>2, <2>3
<1> QED BY Zenon, <1>1, <1>2, <1>3, <1>5, StepKeeps

\* A new ticket has a token that no request carries as its own evidence.
LEMMA ReserveKeeps ==
    ASSUME ConnectionsInv, NEW target \in Targets, Reserve(target)
    PROVE  ConnectionsInv'
<1> DEFINE k == [target |-> target, claim |-> NONE]
<1>1. issued \in 0 .. MaxTickets /\ tickets \in [Tokens -> Ticket \cup {NONE}] /\ task \in [Connections -> Task]
  BY Zenon DEF ConnectionsInv, TypeOK
<1>2. issued' = issued + 1 /\ issued < MaxTickets /\ tickets' = [tickets EXCEPT ![issued + 1] = k]
  BY Zenon DEF Reserve
<1>3. issued + 1 \in Tokens /\ issued' \in 0 .. MaxTickets
  BY SMTT(60), <1>1, <1>2, LimitsAssumption DEF Tokens
<1>4. k \in Ticket
  BY Zenon DEF Ticket
<1>5. tickets' \in [Tokens -> Ticket \cup {NONE}]
  BY Zenon, <1>1, <1>2, <1>4
<1>6. TypeOK' /\ TasksInv' /\ CountInv' /\ LoopInv'
  <2>1. UNCHANGED <<listener, ok, sequence, entries, permits, udpPermits, task>>
    BY Zenon DEF Reserve
  <2>2. TypeOK'
    BY Zenon, <2>1, <1>3, <1>5 DEF ConnectionsInv, TypeOK
  <2>3. TasksInv'
    BY Zenon, <2>1 DEF ConnectionsInv, TasksInv
  <2>4. CountInv'
    BY Zenon, <2>1 DEF ConnectionsInv, CountInv, Registered, Holders, Unjoined
  <2>5. LoopInv'
    BY Zenon, <2>1 DEF ConnectionsInv, LoopInv, Unjoined
  <2> QED BY Zenon, <2>2, <2>3, <2>4, <2>5
<1>7. ASSUME NEW c \in Connections PROVE ProbeInv(c, task[c])'
  <2>1. task' = task /\ ProbeInv(c, task[c]) /\ task[c].probe \in Tokens \cup {NONE}
    BY Zenon, InvFits, <1>1 DEF Reserve, Task
  <2>2. CASE task[c].probe = NONE
    BY Zenon, <2>1, <2>2 DEF ProbeInv
  <2>3. CASE task[c].probe # NONE
    <3>1. task[c].probe <= issued /\ task[c].probe \in Tokens
      BY Zenon, <2>1, <2>3 DEF ProbeInv
    <3>2. task[c].probe # issued + 1 /\ task[c].probe <= issued'
      BY SMTT(60), <3>1, <1>1, <1>2 DEF Tokens
    <3>3. tickets'[task[c].probe] = tickets[task[c].probe]
      BY Zenon, <1>1, <1>2, <3>1, <3>2
    <3> QED BY Zenon, <2>1, <2>3, <3>2, <3>3 DEF ProbeInv, Evidence
  <2> QED BY Zenon, <2>2, <2>3
<1>8. ASSUME NEW u \in Tokens, u > issued' PROVE tickets'[u] = NONE
  <2>1. u # issued + 1 /\ u > issued
    BY SMTT(30), <1>1, <1>2, <1>8 DEF Tokens
  <2> QED BY Zenon, <2>1, <1>1, <1>2 DEF ConnectionsInv, ProbesInv
<1> QED BY Zenon, <1>6, <1>7, <1>8 DEF ConnectionsInv, ProbesInv

\* A ticket that is released is no evidence any more.
LEMMA ReleaseKeeps ==
    ASSUME ConnectionsInv, NEW t \in Tokens, Release(t)
    PROVE  ConnectionsInv'
<1>1. tickets \in [Tokens -> Ticket \cup {NONE}] /\ task \in [Connections -> Task]
  BY Zenon DEF ConnectionsInv, TypeOK
<1>2. /\ tickets' = [tickets EXCEPT ![t] = NONE] /\ issued' = issued
      /\ UNCHANGED <<listener, ok, sequence, entries, permits, udpPermits, task>>
  BY Zenon DEF Release
<1>3. tickets' \in [Tokens -> Ticket \cup {NONE}]
  BY Zenon, <1>1, <1>2
<1>4. TypeOK'
  BY Zenon, <1>2, <1>3 DEF ConnectionsInv, TypeOK
<1>5. TasksInv'
  BY Zenon, <1>2 DEF ConnectionsInv, TasksInv
<1>6. CountInv'
  BY Zenon, <1>2 DEF ConnectionsInv, CountInv, Registered, Holders, Unjoined
<1>7. LoopInv'
  BY Zenon, <1>2 DEF ConnectionsInv, LoopInv, Unjoined
<1>8. \A u \in Tokens : tickets'[u] \in {NONE, tickets[u]}
  BY Zenon, <1>1, <1>2
<1>9. ASSUME NEW c \in Connections PROVE ProbeInv(c, task[c])'
  <2>1. task' = task /\ ProbeInv(c, task[c]) /\ task[c].probe \in Tokens \cup {NONE}
    BY Zenon, InvFits, <1>1, <1>2 DEF Task
  <2>2. task[c].probe # NONE => tickets'[task[c].probe] \in {NONE, tickets[task[c].probe]}
    BY Zenon, <2>1, <1>8
  <2> QED BY Zenon, <2>1, <2>2, <1>2 DEF ProbeInv, Evidence
<1>10. ProbesInv'
  <2>1. \A u \in Tokens : u > issued' => tickets'[u] = NONE
    BY Zenon, <1>2, <1>8 DEF ConnectionsInv, ProbesInv
  <2> QED BY Zenon, <1>9, <2>1 DEF ProbesInv
<1> QED BY Zenon, <1>4, <1>5, <1>6, <1>7, <1>10 DEF ConnectionsInv

\* A task that is listed has started and is not over (its record is not dropped).
LEMMA ListedOpen ==
    ASSUME NEW r, Listed(r)
    PROVE  r.pc \notin {"unborn", "finished", "joined"}
BY Zenon DEF Listed, Serves, Awaits, Runs, Ending

\* A step of connection s that changes who holds a permit: what is left to show.
LEMMA HolderStep ==
    ASSUME ConnectionsInv, NEW s \in Connections, NEW r2, Fits(r2, entries[s]),
           Listed(task[s]), Listed(r2), r2.probe = task[s].probe,
           r2.pc \notin {"dialing", "routed", "connecting", "active"},
           task' = [task EXCEPT ![s] = r2], UNCHANGED <<loopVars, entries, apiVars>>,
           udpPermits' = MaxUdp - Cardinality(Holders'), udpPermits' \in 0 .. MaxUdp
    PROVE  ConnectionsInv'
<1>0. entries' = [entries EXCEPT ![s] = entries[s]] /\ entries' = entries
  BY Zenon, EntriesStay
<1>1. /\ task' \in [Connections -> Task] /\ entries' \in [Connections -> Entry \cup {NONE}]
      /\ \A c \in Connections : TaskInv(task'[c]) /\ RecordInv(task'[c], entries'[c])
      /\ \A c \in Connections \ {s} : task'[c] = task[c] /\ entries'[c] = entries[c]
      /\ task'[s] = r2
  BY Zenon, <1>0, FitsNext
<1>2. task[s].pc \notin {"unborn", "finished", "joined"} /\ r2.pc \notin {"unborn", "finished", "joined"}
  BY Zenon, ListedOpen
<1>3. Registered' = Registered /\ Unjoined' = Unjoined
  BY ZenonT(40), <1>0, <1>1, <1>2 DEF Registered, Unjoined
<1>4. TypeOK'
  BY Zenon, <1>1 DEF ConnectionsInv, TypeOK, loopVars, apiVars
<1>5. TasksInv'
  BY Zenon, <1>1, <1>2 DEF ConnectionsInv, TasksInv, loopVars
<1>6. CountInv'
  BY Zenon, <1>3 DEF ConnectionsInv, CountInv, loopVars
<1>7. LoopInv'
  BY Zenon, <1>1, <1>2, <1>3 DEF ConnectionsInv, LoopInv, loopVars
<1>8. ProbesInv'
  BY Zenon, ProbesStay DEF ProbeStays
<1> QED BY Zenon, <1>4, <1>5, <1>6, <1>7, <1>8 DEF ConnectionsInv

\* The loop alone moves: it stops, sends the stop, or ends with nothing left.
LEMMA LoopKeeps ==
    ASSUME ConnectionsInv, SendStop \/ End \/ \E result \in BOOLEAN : StopAccepting(result)
    PROVE  ConnectionsInv'
<1>1. UNCHANGED <<sequence, entries, permits, udpPermits, task, tickets, issued>>
  BY Zenon DEF SendStop, End, StopAccepting, apiVars
<1>2. listener' \in {"stopping", "draining", "ended"} /\ ok' \in BOOLEAN
  BY Zenon DEF SendStop, End, StopAccepting, ConnectionsInv, TypeOK
<1>3. /\ listener' = "ended" => Unjoined = {}
      /\ listener # "accepting" => ok' = ok
  BY Zenon DEF SendStop, End, StopAccepting
<1>4. TypeOK'
  BY Zenon, <1>1, <1>2 DEF ConnectionsInv, TypeOK
<1>5. TasksInv'
  BY Zenon, <1>1 DEF ConnectionsInv, TasksInv
<1>6. CountInv'
  BY Zenon, <1>1 DEF ConnectionsInv, CountInv, Registered, Holders, Unjoined
<1>7. LoopInv'
  <2>1. Unjoined' = Unjoined
    BY Zenon, <1>1 DEF Unjoined
  <2>2. ASSUME NEW c \in Connections, task'[c].pc = "joined", task'[c].failed
        PROVE  listener' # "accepting" /\ ~ok'
    <3>1. task[c].pc = "joined" /\ task[c].failed
      BY Zenon, <2>2, <1>1
    <3>2. listener # "accepting" /\ ~ok
      BY Zenon, <3>1 DEF ConnectionsInv, LoopInv
    <3>3. ok' = ok /\ listener' # "accepting"
      BY Zenon, <3>2, <1>2, <1>3
    <3> QED BY Zenon, <3>2, <3>3
  <2> QED BY Zenon, <2>1, <2>2, <1>3 DEF LoopInv
<1>8. ProbesInv'
  BY Zenon, <1>1 DEF ConnectionsInv, ProbesInv, ProbeInv, Evidence
<1> QED BY Zenon, <1>4, <1>5, <1>6, <1>7, <1>8 DEF ConnectionsInv

-----------------------------------------------------------------------------

\* A step that writes no record, or writes one through Guard::update, leaves the
\* records alone that are being closed.
LEMMA ClosingUpdate ==
    ASSUME ConnectionsInv,
           UNCHANGED entries \/ \E s \in Connections : \E entry : Update(s, entry)
    PROVE  ClosingStays
<1> SUFFICES ASSUME NEW c \in Registered, entries[c].phase = "closing"
             PROVE  entries'[c] \in {NONE, entries[c]}
  BY Zenon DEF ClosingStays
<1>1. c \in Connections /\ entries \in [Connections -> Entry \cup {NONE}]
  BY Zenon DEF Registered, ConnectionsInv, TypeOK
<1>2. CASE UNCHANGED entries
  BY Zenon, <1>2
<1>3. ASSUME NEW s \in Connections, NEW entry, Update(s, entry) PROVE entries'[c] = entries[c]
  BY Zenon, <1>1, <1>3 DEF Update
<1> QED BY Zenon, <1>2, <1>3

\* A record is closed once, removed by its task, and its number not used again.
LEMMA ClosingWritten ==
    ASSUME ConnectionsInv, (\E s \in Connections : Close(s) \/ DropRecord(s)) \/ Accept
    PROVE  ClosingStays
<1> SUFFICES ASSUME NEW c \in Registered, entries[c].phase = "closing"
             PROVE  entries'[c] \in {NONE, entries[c]}
  BY Zenon DEF ClosingStays
<1>1. c \in Connections /\ entries[c] # NONE /\ entries \in [Connections -> Entry \cup {NONE}]
  BY Zenon DEF Registered, ConnectionsInv, TypeOK
<1>2. ASSUME NEW s \in Connections, Close(s) PROVE entries'[c] = entries[c]
  <2>1. [entries[c] EXCEPT !.phase = "closing"] = entries[c]
    <3>1. entries[c] \in Entry
      BY Zenon, <1>1
    <3> QED BY Zenon, <3>1 DEF Entry
  <2>2. entries' = [entries EXCEPT ![s] = [entries[s] EXCEPT !.phase = "closing"]]
    BY Zenon, <1>2 DEF Close
  <2> QED BY Zenon, <1>1, <2>1, <2>2
<1>3. ASSUME NEW s \in Connections, DropRecord(s) PROVE entries'[c] \in {NONE, entries[c]}
  BY Zenon, <1>1, <1>3 DEF DropRecord
<1>4. CASE Accept
  <2>1. c # sequence + 1
    <3>1. Listed(task[c])
      BY Zenon, <1>1, InvFits DEF Fits, RecordInv
    <3>2. task[c].pc # "unborn"
      BY Zenon, <3>1, ListedOpen
    <3>3. ~(c > sequence)
      BY Zenon, <1>1, <3>2 DEF ConnectionsInv, TasksInv
    <3> QED BY SMTT(60), <1>1, <3>3, LimitsAssumption DEF ConnectionsInv, TypeOK, Connections
  <2> QED BY Zenon, <1>1, <1>4, <2>1 DEF Accept
<1> QED BY Zenon, <1>2, <1>3, <1>4

\* Every step leaves a closing record as it is, or removes it.
LEMMA NextClosing == ConnectionsInv /\ [Next]_vars => ClosingStays
<1> SUFFICES ASSUME ConnectionsInv, [Next]_vars PROVE ClosingStays
  BY Zenon
<1>1. ASSUME NEW s \in Connections, Request(s) PROVE ClosingStays
  BY Zenon, <1>1, ClosingUpdate DEF Request, Socks5Connect, HttpRequest, Socks5Associate, SetTarget, SetInbound
<1>2. ASSUME NEW s \in Connections, Relay(s) PROVE ClosingStays
  BY Zenon, <1>2, ClosingUpdate DEF Relay, Datagram, FirstDatagram, UdpOpened, WorkerEnds, SetTarget, SetPhase
<1>3. ASSUME NEW s \in Connections, TaskRuns(s) PROVE ClosingStays
  <2>1. CASE ClaimProbe(s) \/ AssociateRefused(s) \/ Associated(s) \/ Interrupt(s) \/ AbortWorker(s)
             \/ SessionClosed(s) \/ DropSession(s)
    <3>1. UNCHANGED entries
      BY Zenon, <2>1 DEF ClaimProbe, AssociateRefused, Associated, Interrupt, AbortWorker, SessionClosed, DropSession
    <3> QED BY Zenon, <3>1, ClosingUpdate
  <2>2. CASE DialContinue(s) \/ UdpContinue(s)
    BY Zenon, <2>2, ClosingUpdate DEF DialContinue, UdpContinue, SetPhase
  <2>3. CASE DropRecord(s)
    BY Zenon, <2>3, ClosingWritten
  <2> QED BY Zenon, <1>3, <2>1, <2>2, <2>3 DEF TaskRuns
<1>4. ASSUME NEW s \in Connections, NEW leaf \in Leaves, DialRoute(s, leaf) \/ UdpRoute(s, leaf)
      PROVE  ClosingStays
  BY Zenon, <1>4, ClosingUpdate DEF DialRoute, UdpRoute, SetRouted
<1>5. ASSUME NEW s \in Connections,
             DialFails(s) \/ Connected(s) \/ KeptAlive(s) \/ Served(s) \/ Panics(s)
      PROVE  ClosingStays
  BY Zenon, <1>5, ClosingUpdate DEF DialFails, Connected, KeptAlive, Served, Panics, SetPhase, SetIdle
<1>6. ASSUME NEW s \in Connections, Close(s) PROVE ClosingStays
  BY Zenon, <1>6, ClosingWritten
<1>7. CASE Accept
  BY Zenon, <1>7, ClosingWritten
<1>8. CASE \/ \E target \in Targets : Reserve(target)
           \/ \E t \in Tokens : Release(t)
           \/ \E result \in BOOLEAN : StopAccepting(result)
           \/ Loop \/ UNCHANGED vars
  <2>1. UNCHANGED entries
    BY Zenon, <1>8 DEF Reserve, Release, StopAccepting, Loop, SendStop, End, Join, vars
  <2> QED BY Zenon, <2>1, ClosingUpdate
<1> QED BY Zenon, <1>1, <1>2, <1>3, <1>4, <1>5, <1>6, <1>7, <1>8 DEF Next

\* Evidence is written by claim_probe and Probe::routed only, once each.
LEMMA EvidenceWritten ==
    ASSUME ConnectionsInv, NEW s \in Connections, ClaimProbe(s) \/ DialContinue(s)
    PROVE  EvidenceStays
<1> DEFINE t == task[s].probe
           claim == [connection |-> s, number |-> task[s].number, route |-> NONE]
<1>1. task[s] \in Task /\ tickets \in [Tokens -> Ticket \cup {NONE}] /\ ProbeInv(s, task[s])
  BY Zenon, InvFits DEF Fits, ConnectionsInv, TypeOK
<1>2. CASE UNCHANGED tickets
  BY Zenon, <1>2 DEF EvidenceStays, Live
<1>3. CASE Claimable(s) /\ tickets' = [tickets EXCEPT ![t].claim = claim]
  <2>1. tickets[t] # NONE /\ tickets[t].claim = NONE
    BY Zenon, <1>3 DEF Claimable
  <2>2. \A u \in Tokens : u # t => tickets'[u] = tickets[u]
    BY Zenon, <1>1, <1>3
  <2>3. ASSUME NEW u \in Tokens
        PROVE  /\ u <= issued /\ tickets[u] = NONE => tickets'[u] = NONE
               /\ tickets[u] # NONE /\ tickets[u].claim # NONE => tickets'[u] = tickets[u]
    BY Zenon, <2>1, <2>2
  <2> QED BY Zenon, <2>3 DEF EvidenceStays, Live
<1>4. CASE /\ task[s].pc = "routed" /\ t # NONE /\ tickets[t] # NONE
           /\ tickets' = [tickets EXCEPT ![t].claim.route = IF @ = NONE THEN task[s].route ELSE @]
  <2>1. tickets[t] = Evidence(s, task[s], NONE)
    BY Zenon, <1>1, <1>4 DEF ProbeInv
  <2>2. t \in Tokens
    BY ZenonT(40), <1>1, <1>4 DEF Task
  <2>3. tickets'[t] = Evidence(s, task[s], task[s].route)
    <3>1. tickets'[t] = [tickets[t] EXCEPT !.claim.route = IF @ = NONE THEN task[s].route ELSE @]
      BY Zenon, <1>1, <1>4, <2>2
    <3>2. [Evidence(s, task[s], NONE) EXCEPT !.claim.route = IF @ = NONE THEN task[s].route ELSE @]
          = Evidence(s, task[s], task[s].route)
      BY DEF Evidence
    <3> QED BY Zenon, <2>1, <3>1, <3>2
  <2>4. ASSUME NEW route PROVE /\ Evidence(s, task[s], route).claim.connection = s
                               /\ Evidence(s, task[s], route).claim.number = task[s].number
                               /\ Evidence(s, task[s], route).claim.route = route
    BY Zenon DEF Evidence
  <2>5. \A u \in Tokens : u # t => tickets'[u] = tickets[u]
    BY Zenon, <1>1, <1>4
  <2>6. ASSUME NEW u \in Tokens
        PROVE  /\ u <= issued /\ tickets[u] = NONE => tickets'[u] = NONE
               /\ u \in Live /\ tickets'[u] # NONE /\ tickets[u].claim # NONE =>
                    /\ tickets'[u].claim.connection = tickets[u].claim.connection
                    /\ tickets'[u].claim.number = tickets[u].claim.number
                    /\ tickets[u].claim.route \in {NONE, tickets'[u].claim.route}
    <3>1. CASE u = t
      <4>1. /\ tickets[t].claim.connection = s /\ tickets'[t].claim.connection = s
            /\ tickets[t].claim.number = task[s].number /\ tickets'[t].claim.number = task[s].number
            /\ tickets[t].claim.route = NONE
        <5>1. tickets[t].claim.connection = s /\ tickets[t].claim.number = task[s].number
              /\ tickets[t].claim.route = NONE
          BY Zenon, <2>1, <2>4
        <5>2. tickets'[t].claim.connection = s /\ tickets'[t].claim.number = task[s].number
          BY Zenon, <2>3, <2>4
        <5> QED BY Zenon, <5>1, <5>2
      <4>2. tickets[t] # NONE
        BY Zenon, <1>4
      <4> HIDE DEF t
      <4> QED BY Zenon, <3>1, <4>1, <4>2
    <3>2. CASE u # t
      BY Zenon, <3>2, <2>5
    <3> QED BY Zenon, <3>1, <3>2
  <2> QED BY Zenon, <2>6 DEF EvidenceStays
<1> QED BY Zenon, <1>2, <1>3, <1>4 DEF ClaimProbe, DialContinue, RouteProbe

\* A token is new when it is reserved; what is released is gone.
LEMMA EvidenceReserved ==
    ASSUME ConnectionsInv,
           (\E target \in Targets : Reserve(target)) \/ (\E t \in Tokens : Release(t))
    PROVE  EvidenceStays
<1>1. tickets \in [Tokens -> Ticket \cup {NONE}] /\ issued \in 0 .. MaxTickets
  BY Zenon DEF ConnectionsInv, TypeOK
<1>2. ASSUME NEW target \in Targets, Reserve(target) PROVE EvidenceStays
  <2>1. tickets' = [tickets EXCEPT ![issued + 1] = [target |-> target, claim |-> NONE]] /\ issued < MaxTickets
    BY Zenon, <1>2 DEF Reserve
  <2>2. issued + 1 > issued /\ issued + 1 \in Tokens /\ ~(issued + 1 <= issued)
    BY SMTT(60), <1>1, <2>1, LimitsAssumption DEF Tokens
  <2>3. tickets[issued + 1] = NONE
    BY Zenon, <2>2 DEF ConnectionsInv, ProbesInv
  <2>4. \A u \in Tokens : u # issued + 1 => tickets'[u] = tickets[u]
    BY Zenon, <1>1, <2>1
  <2>5. ASSUME NEW u \in Tokens
        PROVE  /\ u <= issued /\ tickets[u] = NONE => tickets'[u] = NONE
               /\ tickets[u] # NONE => tickets'[u] = tickets[u]
    BY Zenon, <2>2, <2>3, <2>4
  <2> QED BY Zenon, <2>5 DEF EvidenceStays, Live
<1>3. ASSUME NEW t \in Tokens, Release(t) PROVE EvidenceStays
  <2>1. ASSUME NEW u \in Tokens PROVE tickets'[u] = NONE \/ tickets'[u] = tickets[u]
    BY Zenon, <1>1, <1>3 DEF Release
  <2> QED BY Zenon, <2>1 DEF EvidenceStays, Live
<1> QED BY Zenon, <1>2, <1>3

\* No step rewrites evidence or brings a ticket back.
LEMMA NextEvidence == ConnectionsInv /\ [Next]_vars => EvidenceStays
<1> SUFFICES ASSUME ConnectionsInv, [Next]_vars PROVE EvidenceStays
  OBVIOUS
<1>0. UNCHANGED tickets => EvidenceStays
  BY Zenon DEF EvidenceStays, Live
<1>1. ASSUME NEW s \in Connections, Request(s) \/ Relay(s) PROVE EvidenceStays
  BY Zenon, <1>0, <1>1 DEF Request, Socks5Connect, HttpRequest, Socks5Associate, Relay, Datagram,
     FirstDatagram, UdpOpened, WorkerEnds, apiVars
<1>2. ASSUME NEW s \in Connections, TaskRuns(s) PROVE EvidenceStays
  <2>1. CASE ClaimProbe(s) \/ DialContinue(s)
    BY Zenon, <2>1, EvidenceWritten
  <2>2. CASE AssociateRefused(s) \/ Associated(s) \/ UdpContinue(s) \/ Interrupt(s) \/ AbortWorker(s)
             \/ SessionClosed(s) \/ DropSession(s) \/ DropRecord(s)
    BY Zenon, <1>0, <2>2 DEF AssociateRefused, Associated, UdpContinue, Interrupt, AbortWorker, SessionClosed,
       DropSession, DropRecord, apiVars
  <2> QED BY Zenon, <1>2, <2>1, <2>2 DEF TaskRuns
<1>3. ASSUME NEW s \in Connections, NEW leaf \in Leaves, DialRoute(s, leaf) \/ UdpRoute(s, leaf)
      PROVE  EvidenceStays
  BY Zenon, <1>0, <1>3 DEF DialRoute, UdpRoute, apiVars
<1>4. ASSUME NEW s \in Connections,
             DialFails(s) \/ Connected(s) \/ KeptAlive(s) \/ Served(s) \/ Panics(s) \/ Close(s)
      PROVE  EvidenceStays
  BY Zenon, <1>0, <1>4 DEF DialFails, Connected, KeptAlive, Served, Panics, Close, apiVars
<1>5. CASE (\E target \in Targets : Reserve(target)) \/ (\E t \in Tokens : Release(t))
  BY Zenon, <1>5, EvidenceReserved
<1>6. CASE Accept \/ (\E result \in BOOLEAN : StopAccepting(result)) \/ Loop \/ UNCHANGED vars
  BY Zenon, <1>0, <1>6 DEF Accept, StopAccepting, Loop, SendStop, End, Join, apiVars, vars
<1> QED BY Zenon, <1>1, <1>2, <1>3, <1>4, <1>5, <1>6 DEF Next
=============================================================================
