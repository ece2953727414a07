---------------------------- MODULE Connections ----------------------------
(***************************************************************************)
(* The data plane's connections: the accept loop and its tasks             *)
(* (Runtime::run, serve, dial, associate and udp_relay in                  *)
(* src/src/runtime.rs), the registry in which every task keeps a record    *)
(* for the control API (src/src/connection.rs) and the probe tickets that  *)
(* tie a diagnostic request to its route (connection/probes.rs).           *)
(*                                                                         *)
(* A task is cancelled only where it awaits; between two awaits it runs    *)
(* on, concurrently with the accept loop, the control API and the other    *)
(* tasks.  A step below is the code between two accesses to shared state.  *)
(***************************************************************************)
EXTENDS Integers, FiniteSets

CONSTANTS
    MaxConnections, \* connection::LIMIT
    MaxUdp,         \* MAX_UDP_ASSOCIATIONS
    MaxRequests,    \* requests on one client connection (1024)
    TicketLimit,    \* probes::LIMIT
    MaxSequence,    \* bound: connections accepted
    MaxTickets,     \* bound: tickets issued
    Clients,        \* the kinds of requests clients make
    Targets,
    Leaves,         \* outbound proxies
    Reject,         \* those that refuse
    Udp,            \* those that relay UDP
    Trojan,         \* those whose UDP session has a worker task
    Senders,        \* UDP addresses of a client
    NONE

ASSUME LimitsAssumption ==
    /\ MaxConnections \in Nat /\ MaxUdp \in Nat /\ MaxRequests \in Nat \ {0}
    /\ TicketLimit \in Nat /\ MaxSequence \in Nat /\ MaxTickets \in Nat
ASSUME ClientsAssumption ==
    Clients \subseteq {"http_connect", "http_forward", "socks5_connect", "socks5_udp"}
ASSUME LeavesAssumption == Reject \subseteq Leaves /\ Trojan \subseteq Udp /\ Udp \subseteq Leaves \ Reject

Connections == 1 .. MaxSequence
Tokens == 1 .. MaxTickets
Inbounds == {"http_connect", "http_forward", "socks5_connect", "socks5_udp"}
Phases == {"handshake", "routing", "connecting", "active", "idle", "udp_wait",
           "rejected", "closing"}

\* Metadata and route of an entry.  protocol is udp exactly when udp; route
\* stands for routed_target, rule and leaf, sender for datagram_source and
\* target_scope: the code sets each of these groups at once.
Entry == [phase : Phases, udp : BOOLEAN, inbound : Inbounds \cup {NONE},
          target : Targets \cup {NONE}, route : Leaves \cup {NONE},
          sender : Senders \cup {NONE}]

Claim == [connection : Connections, number : 0 .. MaxRequests, route : Leaves \cup {NONE}]
Ticket == [target : Targets, claim : Claim \cup {NONE}]

ASSUME NoneAssumption ==
    /\ NONE \notin Targets \cup Leaves \cup Senders \cup Nat
    /\ NONE \notin Inbounds \cup {"running", "ended", "panicked"}
    /\ NONE \notin Entry \cup Claim \cup Ticket

\* Where a task awaits, and can be cancelled.
Awaits == {"handshake", "idle", "dialing", "connecting", "active", "relay",
           "udp_routing", "udp_opening", "relaying", "replying"}
Runs == {"claiming", "routed", "associate", "udp_routed"}
Ending == {"closing", "session", "record"}
Labels == {"unborn", "finished", "joined"} \cup Awaits \cup Runs \cup Ending

VARIABLES
    listener,   \* the accept loop: accepting, stopping, draining or ended
    ok,         \* its result is still Ok
    sequence,   \* State.sequence
    entries,    \* State.entries, NONE where there is none
    permits,    \* free connection permits
    udpPermits, \* free UDP permits
    task,       \* the tasks
    tickets,    \* Tickets.entries, NONE where there is none
    issued      \* Tickets.sequence

apiVars == <<tickets, issued>>
loopVars == <<listener, ok, sequence, permits>>
vars == <<listener, ok, sequence, entries, permits, udpPermits, task, tickets, issued>>

Task ==
    [pc : Labels,
     inbound : Inbounds \cup {NONE}, target : Targets \cup {NONE},
     number : 0 .. MaxRequests, probe : Tokens \cup {NONE},
     route : Leaves \cup {NONE}, pinned : Senders \cup {NONE},
     forwarded : SUBSET Senders, permit : BOOLEAN,
     worker : {NONE, "running", "ended", "panicked"}, failed : BOOLEAN]

Unborn == [pc |-> "unborn", inbound |-> NONE, target |-> NONE, number |-> 0, probe |-> NONE,
           route |-> NONE, pinned |-> NONE, forwarded |-> {}, permit |-> FALSE,
           worker |-> NONE, failed |-> FALSE]

TypeOK ==
    /\ listener \in {"accepting", "stopping", "draining", "ended"}
    /\ ok \in BOOLEAN
    /\ sequence \in 0 .. MaxSequence
    /\ entries \in [Connections -> Entry \cup {NONE}]
    /\ permits \in 0 .. MaxConnections
    /\ udpPermits \in 0 .. MaxUdp
    /\ task \in [Connections -> Task]
    /\ tickets \in [Tokens -> Ticket \cup {NONE}]
    /\ issued \in 0 .. MaxTickets

Init ==
    /\ listener = "accepting"
    /\ ok = TRUE
    /\ sequence = 0
    /\ entries = [s \in Connections |-> NONE]
    /\ permits = MaxConnections
    /\ udpPermits = MaxUdp
    /\ task = [s \in Connections |-> Unborn]
    /\ tickets = [t \in Tokens |-> NONE]
    /\ issued = 0

Registered == {s \in Connections : entries[s] # NONE}
Unjoined == {s \in Connections : task[s].pc \notin {"unborn", "joined"}}

-----------------------------------------------------------------------------
(* The registry: what a task writes to its record. *)

\* Guard::update: a record that is closing is left alone.
UpdateAlways(s, entry) == entries' = [entries EXCEPT ![s] = entry]
Update(s, entry) ==
    entries' = [entries EXCEPT ![s] = IF @.phase = "closing" THEN @ ELSE entry]

SetPhase(s, phase) == Update(s, [entries[s] EXCEPT !.phase = phase])

SetInbound(s) ==
    Update(s, [entries[s] EXCEPT !.inbound = "socks5_udp", !.udp = TRUE, !.phase = "udp_wait"])

SetTarget(s, target, sender, inbound) ==
    Update(s, [entries[s] EXCEPT !.inbound = inbound, !.target = target, !.route = NONE,
                                 !.phase = "routing", !.sender = sender])

SetRouted(s, leaf) == Update(s, [entries[s] EXCEPT !.route = leaf, !.phase = "connecting"])

SetIdle(s) ==
    Update(s, [entries[s] EXCEPT !.phase = "idle", !.target = NONE, !.route = NONE])
-----------------------------------------------------------------------------
(* The control API. *)

\* Phase and cancellation change under one lock; the task notices at an await.
Close(s) ==
    /\ s \in Registered
    /\ entries' = [entries EXCEPT ![s].phase = "closing"]
    /\ UNCHANGED <<listener, ok, sequence, permits, udpPermits, task, tickets, issued>>

Live == {t \in Tokens : tickets[t] # NONE}

\* Tokens carry the issuance counter, so none is issued twice.
Reserve(target) ==
    /\ Cardinality(Live) < TicketLimit
    /\ issued < MaxTickets
    /\ issued' = issued + 1
    /\ tickets' = [tickets EXCEPT ![issued + 1] = [target |-> target, claim |-> NONE]]
    /\ UNCHANGED <<listener, ok, sequence, entries, permits, udpPermits, task>>

\* A DELETE, or the retention time is over at the next use of the tickets.
Release(t) ==
    /\ t \in Live
    /\ tickets' = [tickets EXCEPT ![t] = NONE]
    /\ UNCHANGED <<listener, ok, sequence, entries, permits, udpPermits, task, issued>>

-----------------------------------------------------------------------------
(* serve: TCP. *)

Goes(s, next) == task' = [task EXCEPT ![s] = next]
GoesTo(s, pc) == Goes(s, [task[s] EXCEPT !.pc = pc])

\* Leaving serve: what only serve uses is dropped.
Left(s) == [Unborn EXCEPT !.pc = "closing", !.permit = task[s].permit,
                          !.worker = task[s].worker, !.failed = task[s].failed]

Socks5Connect(s, target) ==
    /\ task[s].pc = "handshake"
    /\ SetTarget(s, target, NONE, "socks5_connect")
    /\ Goes(s, [task[s] EXCEPT !.pc = "dialing", !.target = target,
                               !.inbound = "socks5_connect"])
    /\ UNCHANGED <<loopVars, udpPermits, apiVars>>

\* A further request on a connection that was kept alive starts from idle.
HttpRequest(s, target, inbound, token) ==
    /\ task[s].pc \in {"handshake", "idle"}
    /\ SetTarget(s, target, NONE, inbound)
    /\ Goes(s, [task[s] EXCEPT !.pc = IF token = NONE THEN "dialing" ELSE "claiming",
                               !.target = target, !.inbound = inbound, !.probe = token])
    /\ UNCHANGED <<loopVars, udpPermits, apiVars>>

\* claim_probe: the ticket is there, unclaimed, and for this target.
Claimable(s) ==
    LET ticket == tickets[task[s].probe] IN
    IF ticket = NONE THEN FALSE
    ELSE ticket.claim = NONE /\ ticket.target = task[s].target

ClaimProbe(s) ==
    LET t == task[s].probe
        claim == [connection |-> s, number |-> task[s].number, route |-> NONE] IN
    /\ task[s].pc = "claiming"
    /\ \/ /\ Claimable(s)
          /\ tickets' = [tickets EXCEPT ![t].claim = claim]
          /\ GoesTo(s, "dialing")
       \/ /\ ~Claimable(s)
          /\ Goes(s, [task[s] EXCEPT !.pc = "replying", !.probe = NONE])
          /\ UNCHANGED tickets
    /\ UNCHANGED <<loopVars, entries, udpPermits, issued>>

DialRecordsAnyLeaf(s, leaf) ==
    /\ task[s].pc = "dialing"
    /\ SetRouted(s, CHOOSE l \in Leaves : TRUE)
    /\ Goes(s, [task[s] EXCEPT !.pc = "routed", !.route = leaf])
    /\ UNCHANGED <<loopVars, udpPermits, apiVars>>

\* dial: the route is recorded before its ticket, and both before connecting.
DialRoute(s, leaf) ==
    /\ task[s].pc = "dialing"
    /\ SetRouted(s, leaf)
    /\ Goes(s, [task[s] EXCEPT !.pc = "routed", !.route = leaf])
    /\ UNCHANGED <<loopVars, udpPermits, apiVars>>

\* Probe::routed: only the first route of a claim that is still there.
RouteProbe(s) ==
    LET t == task[s].probe IN
    tickets' = IF t = NONE THEN tickets
               ELSE IF tickets[t] = NONE THEN tickets
               ELSE [tickets EXCEPT ![t].claim.route = IF @ = NONE THEN task[s].route ELSE @]

DialContinue(s) ==
    /\ task[s].pc = "routed"
    /\ RouteProbe(s)
    /\ \/ /\ task[s].route \in Reject
          /\ SetPhase(s, "rejected")
          /\ GoesTo(s, "replying")
       \/ /\ task[s].route \notin Reject
          /\ GoesTo(s, "connecting")
          /\ UNCHANGED entries
    /\ UNCHANGED <<loopVars, udpPermits, issued>>

\* Routing or connecting fails or takes too long; the client gets an error reply.
DialFails(s) ==
    /\ task[s].pc \in {"dialing", "connecting"}
    /\ GoesTo(s, "replying")
    /\ UNCHANGED <<loopVars, entries, udpPermits, apiVars>>

Connected(s) ==
    /\ task[s].pc = "connecting"
    /\ SetPhase(s, "active")
    /\ GoesTo(s, "active")
    /\ UNCHANGED <<loopVars, udpPermits, apiVars>>

\* A forwarded request is over and the client connection is kept; the last
\* request of a connection is forwarded without keep-alive.
KeptAlive(s) ==
    /\ task[s].pc = "active"
    /\ task[s].inbound = "http_forward"
    /\ task[s].number < MaxRequests - 1
    /\ SetIdle(s)
    /\ Goes(s, [Unborn EXCEPT !.pc = "idle", !.number = task[s].number + 1])
    /\ UNCHANGED <<loopVars, udpPermits, apiVars>>

-----------------------------------------------------------------------------
(* serve: UDP associations. *)

Socks5Associate(s, requested) ==
    /\ task[s].pc = "handshake"
    /\ SetInbound(s)
    /\ Goes(s, [task[s] EXCEPT !.pc = "associate", !.inbound = "socks5_udp",
                               !.pinned = requested])
    /\ UNCHANGED <<loopVars, udpPermits, apiVars>>

\* Refused: no proxy relays UDP, a foreign address was asked for, or no permit.
AssociateRefused(s) ==
    /\ task[s].pc = "associate"
    /\ GoesTo(s, "replying")
    /\ UNCHANGED <<loopVars, entries, udpPermits, apiVars>>

Associated(s) ==
    /\ task[s].pc = "associate"
    /\ udpPermits > 0
    /\ udpPermits' = udpPermits - 1
    /\ Goes(s, [task[s] EXCEPT !.pc = "relay", !.permit = TRUE])
    /\ UNCHANGED <<loopVars, entries, apiVars>>

\* udp_relay: datagrams of anyone but the pinned sender are ignored.
FromAnyone(s, sender) == TRUE
FromPinned(s, sender) == task[s].pinned \in {NONE, sender}

FirstDatagram(s, sender, target) ==
    /\ task[s].pc = "relay"
    /\ FromPinned(s, sender)
    /\ SetTarget(s, target, sender, "socks5_udp")
    /\ Goes(s, [task[s] EXCEPT !.pc = "udp_routing", !.pinned = sender, !.target = target])
    /\ UNCHANGED <<loopVars, udpPermits, apiVars>>

UdpRoute(s, leaf) ==
    /\ task[s].pc = "udp_routing"
    /\ SetRouted(s, leaf)
    /\ Goes(s, [task[s] EXCEPT !.pc = "udp_routed", !.route = leaf])
    /\ UNCHANGED <<loopVars, udpPermits, apiVars>>

UdpContinue(s) ==
    /\ task[s].pc = "udp_routed"
    /\ \/ /\ task[s].route \notin Udp
          /\ SetPhase(s, "rejected")
          /\ Goes(s, Left(s))
       \/ /\ task[s].route \in Udp
          /\ GoesTo(s, "udp_opening")
          /\ UNCHANGED entries
    /\ UNCHANGED <<loopVars, udpPermits, apiVars>>

\* The session is stored and the record updated with no await in between; the
\* datagram that opened the session is its first.
UdpOpened(s) ==
    /\ task[s].pc = "udp_opening"
    /\ SetPhase(s, "active")
    /\ Goes(s, [task[s] EXCEPT !.pc = "relaying", !.forwarded = {task[s].pinned},
                               !.worker = IF task[s].route \in Trojan THEN "running" ELSE NONE])
    /\ UNCHANGED <<loopVars, udpPermits, apiVars>>

Datagram(s, sender) ==
    /\ task[s].pc = "relaying"
    /\ FromPinned(s, sender)
    /\ Goes(s, [task[s] EXCEPT !.forwarded = @ \cup {sender}, !.pinned = sender])
    /\ UNCHANGED <<loopVars, entries, udpPermits, apiVars>>

\* trojan_worker ends by itself: EOF, an error, a timeout, or a panic.
WorkerEnds(s, how) ==
    /\ task[s].worker = "running"
    /\ Goes(s, [task[s] EXCEPT !.worker = how])
    /\ UNCHANGED <<loopVars, entries, udpPermits, apiVars>>
-----------------------------------------------------------------------------
(* The task around serve. *)

\* serve returns: end of stream, an error, a timeout, or the reply was sent.
Served(s) ==
    /\ task[s].pc \in Awaits
    /\ Goes(s, Left(s))
    /\ UNCHANGED <<loopVars, entries, udpPermits, apiVars>>

Panics(s) ==
    /\ task[s].pc \in Awaits \cup Runs
    /\ Goes(s, [Left(s) EXCEPT !.failed = TRUE])
    /\ UNCHANGED <<loopVars, entries, udpPermits, apiVars>>

InterruptOnClose(s) ==
    /\ task[s].pc \in Awaits
    /\ entries[s].phase = "closing"
    /\ Goes(s, Left(s))
    /\ UNCHANGED <<loopVars, entries, udpPermits, apiVars>>
\* The biased select polls stop and cancellation before serve.
Interrupt(s) ==
    /\ task[s].pc \in Awaits
    /\ listener = "draining" \/ entries[s].phase = "closing"
    /\ Goes(s, Left(s))
    /\ UNCHANGED <<loopVars, entries, udpPermits, apiVars>>

\* UdpSession::close aborts the worker and waits for it.
AbortWorker(s) ==
    /\ task[s].pc = "closing"
    /\ task[s].worker = "running"
    /\ Goes(s, [task[s] EXCEPT !.worker = "ended"])
    /\ UNCHANGED <<loopVars, entries, udpPermits, apiVars>>

SessionClosed(s) ==
    /\ task[s].pc = "closing"
    /\ task[s].worker # "running"
    /\ Goes(s, [task[s] EXCEPT !.pc = "session", !.worker = NONE,
                               !.failed = @ \/ task[s].worker = "panicked"])
    /\ UNCHANGED <<loopVars, entries, udpPermits, apiVars>>

DropSession(s) ==
    /\ task[s].pc = "session"
    /\ udpPermits' = IF task[s].permit THEN udpPermits + 1 ELSE udpPermits
    /\ Goes(s, [task[s] EXCEPT !.pc = "record", !.permit = FALSE])
    /\ UNCHANGED <<loopVars, entries, apiVars>>

\* Drop of the record, and of the permit when the task's future ends.
PermitLeaked(s) ==
    /\ task[s].pc = "record"
    /\ entries' = [entries EXCEPT ![s] = NONE]
    /\ GoesTo(s, "finished")
    /\ UNCHANGED <<listener, ok, sequence, permits, udpPermits, apiVars>>
DropRecord(s) ==
    /\ task[s].pc = "record"
    /\ entries' = [entries EXCEPT ![s] = NONE]
    /\ permits' = permits + 1
    /\ GoesTo(s, "finished")
    /\ UNCHANGED <<listener, ok, sequence, udpPermits, apiVars>>

-----------------------------------------------------------------------------
(* Runtime::run. *)

Handshake == [phase |-> "handshake", udp |-> FALSE, inbound |-> NONE, target |-> NONE,
              route |-> NONE, sender |-> NONE]

Accept ==
    LET s == sequence + 1 IN
    /\ listener = "accepting"
    /\ Cardinality(Unjoined) < MaxConnections
    /\ sequence < MaxSequence
    /\ permits' = permits - 1
    /\ sequence' = s
    /\ entries' = [entries EXCEPT ![s] = Handshake]
    /\ task' = [task EXCEPT ![s].pc = "handshake"]
    /\ UNCHANGED <<listener, ok, udpPermits, apiVars>>

\* Shutdown, or accepting failed.
StopAccepting(result) ==
    /\ listener = "accepting"
    /\ listener' = "stopping"
    /\ ok' = result
    /\ UNCHANGED <<sequence, entries, permits, udpPermits, task, apiVars>>

\* The result of a task that failed ends the loop, or becomes that of the drain.
ResultWith(s) == ok /\ ~task[s].failed

Join(s) ==
    /\ listener \in {"accepting", "draining"}
    /\ task[s].pc = "finished"
    /\ ok' = ResultWith(s)
    /\ listener' = IF listener = "accepting" /\ task[s].failed THEN "stopping" ELSE listener
    /\ Goes(s, [Unborn EXCEPT !.pc = "joined", !.failed = task[s].failed])
    /\ UNCHANGED <<sequence, entries, permits, udpPermits, apiVars>>

SendStop ==
    /\ listener = "stopping"
    /\ listener' = "draining"
    /\ UNCHANGED <<ok, sequence, entries, permits, udpPermits, task, apiVars>>

End ==
    /\ listener = "draining"
    /\ Unjoined = {}
    /\ listener' = "ended"
    /\ UNCHANGED <<ok, sequence, entries, permits, udpPermits, task, apiVars>>

-----------------------------------------------------------------------------
Request(s) ==
    \/ /\ "socks5_connect" \in Clients
       /\ \E target \in Targets : Socks5Connect(s, target)
    \/ \E inbound \in Clients \cap {"http_connect", "http_forward"}, target \in Targets :
            \E token \in {NONE} \cup (IF inbound = "http_forward" THEN 1 .. issued ELSE {}) :
                HttpRequest(s, target, inbound, token)
    \/ /\ "socks5_udp" \in Clients
       /\ \E requested \in Senders \cup {NONE} : Socks5Associate(s, requested)

Relay(s) ==
    \/ \E sender \in Senders : Datagram(s, sender) \/ \E target \in Targets : FirstDatagram(s, sender, target)
    \/ UdpOpened(s)
    \/ \E how \in {"ended", "panicked"} : WorkerEnds(s, how)

\* What the task does without waiting for anyone.
TaskRuns(s) ==
    \/ ClaimProbe(s) \/ DialContinue(s) \/ AssociateRefused(s) \/ Associated(s) \/ UdpContinue(s)
    \/ Interrupt(s) \/ AbortWorker(s) \/ SessionClosed(s) \/ DropSession(s) \/ DropRecord(s)

Loop == SendStop \/ End \/ \E s \in Connections : Join(s)

Next ==
    \/ \E s \in Connections :
        \/ Request(s) \/ Relay(s) \/ TaskRuns(s)
        \/ (\E leaf \in Leaves : DialRoute(s, leaf) \/ UdpRoute(s, leaf))
        \/ DialFails(s) \/ Connected(s) \/ KeptAlive(s) \/ Served(s) \/ Panics(s)
        \/ Close(s)
    \/ (\E target \in Targets : Reserve(target))
    \/ (\E t \in Tokens : Release(t))
    \/ Accept
    \/ (\E result \in BOOLEAN : StopAccepting(result))
    \/ Loop

Spec == Init /\ [][Next]_vars

\* Tasks that can run are polled; nothing is assumed of clients and servers.
FairSpec ==
    /\ Spec
    /\ WF_vars(Loop)
    /\ \A s \in Connections : WF_vars(TaskRuns(s))
-----------------------------------------------------------------------------
(* Properties. *)

\* Every record the control API can list satisfies what the command line
\* requires of a listing (valid_response); it rejects the whole listing if one
\* record does not.
ValidEntry(e) ==
    /\ e.phase \in {"idle", "handshake", "udp_wait"} => e.target = NONE /\ e.route = NONE
    /\ e.phase \in {"active", "connecting", "rejected"} =>
            e.target # NONE /\ e.route # NONE /\ e.inbound # NONE
    /\ e.phase = "routing" => e.target # NONE /\ e.route = NONE
    /\ e.udp <=> e.inbound = "socks5_udp"
    /\ e.phase = "udp_wait" => e.udp
    /\ e.phase = "handshake" => ~e.udp
    /\ e.sender # NONE <=> e.udp /\ e.target # NONE
    /\ e.phase = "idle" => e.inbound = "http_forward"
    /\ e.route # NONE => e.target # NONE

ListingIsValid == \A s \in Registered : ValidEntry(entries[s])

\* The leaf a listing shows for a connection that is not being closed is the
\* one its task dialled.
ListingIsTrue ==
    \A s \in Registered :
        entries[s].phase # "closing" /\ task[s].pc \in Awaits \cup Runs =>
            entries[s].route = task[s].route /\ entries[s].target = task[s].target

\* Whenever the loop may accept, a permit is free (the code expects one without
\* checking) and the registry has room.
AcceptHasRoom ==
    listener = "accepting" /\ Cardinality(Unjoined) < MaxConnections =>
        permits > 0 /\ Cardinality(Registered) < MaxConnections

\* A UDP worker runs only while its connection is listed and holds one of the
\* MAX_UDP_ASSOCIATIONS permits, so there are never more of them.
Workers == {s \in Connections : task[s].worker = "running"}
WorkersAreOwned ==
    /\ \A s \in Workers : task[s].permit /\ entries[s] # NONE
    /\ Cardinality(Workers) + udpPermits <= MaxUdp

\* An association forwards the datagrams of one sender, the one it lists.
OneSender ==
    \A s \in Connections : task[s].pc = "relaying" =>
        /\ task[s].forwarded = {task[s].pinned}
        /\ entries[s].phase # "closing" => entries[s].sender = task[s].pinned

\* The evidence of a ticket is about the request that claimed it: while that
\* request is under way the ticket, unless it is released, names it and its leaf.
EvidenceIsOwn ==
    \A s \in Connections :
        task[s].pc \in {"connecting", "active"} /\ task[s].probe # NONE =>
            tickets[task[s].probe] \in
                {NONE, [target |-> task[s].target,
                        claim |-> [connection |-> s, number |-> task[s].number,
                                   route |-> task[s].route]]}

\* Evidence once recorded is never rewritten, and a released ticket never
\* comes back.
EvidenceStays ==
    \A t \in Tokens :
        /\ t <= issued /\ tickets[t] = NONE => tickets'[t] = NONE
        /\ t \in Live /\ tickets'[t] # NONE /\ tickets[t].claim # NONE =>
            /\ tickets'[t].claim.connection = tickets[t].claim.connection
            /\ tickets'[t].claim.number = tickets[t].claim.number
            /\ tickets[t].claim.route \in {NONE, tickets'[t].claim.route}
EvidenceIsFinal == [][EvidenceStays]_vars

\* Once a close was accepted the record stays as it was until it is removed.
ClosingStays ==
    \A s \in Registered : entries[s].phase = "closing" => entries'[s] \in {NONE, entries[s]}
ClosingIsFinal == [][ClosingStays]_vars

\* When run returns no record, permit, worker or task is left behind.
EndedLeavesNothing ==
    listener = "ended" =>
        /\ Registered = {} /\ Workers = {}
        /\ permits = MaxConnections /\ udpPermits = MaxUdp

\* run reports success only if no task failed.
FailureIsReported ==
    listener = "ended" /\ ok => \A s \in Connections : ~task[s].failed

\* A listing passes the command line's checks and shows where connections went.
ListingIsSound == ListingIsValid /\ ListingIsTrue

\* The loop accepts only what it has room for, and ends with nothing left and
\* no failure unreported.
LoopIsSound ==
    TypeOK /\ AcceptHasRoom /\ EndedLeavesNothing /\ FailureIsReported /\ EvidenceIsOwn

\* Neither a connection that is being closed nor recorded evidence changes.
RecordsAreFinal == ClosingIsFinal /\ EvidenceIsFinal

\* A UDP association serves its one sender, within the limit on associations.
AssociationsAreSound == OneSender /\ WorkersAreOwned

\* A connection that is closed by the API goes away, and a loop that stops ends,
\* whatever clients and servers do: what is being shut down does not stay so.
\* (There are finitely many connections, each is closed once, and closing lasts
\* until the record is gone: were one left behind, this would be false.)
ShuttingDown ==
    \/ listener \in {"stopping", "draining"}
    \/ \E s \in Registered : entries[s].phase = "closing"
ShutdownsEnd == ShuttingDown ~> ~ShuttingDown
=============================================================================
