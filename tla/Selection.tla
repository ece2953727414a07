----------------------------- MODULE Selection -----------------------------
(***************************************************************************)
(* Changing a proxy selection of a managed profile while a daemon runs it. *)
(* `zc proxy select` commits the new selections to the catalog under the   *)
(* next generation (src/src/cli.rs, store.rs) and then asks the running    *)
(* instance over its control API to apply them (daemon::apply_selection);  *)
(* the instance checks the request against its own identity and the        *)
(* catalog and applies the catalog's selections (Control::select).         *)
(*                                                                         *)
(* The catalog is the compare-and-swap register that module CasRegister    *)
(* describes and Store implements, here with one profile and its head,     *)
(* generation and selections.  Power losses belong to Store: the daemon    *)
(* does not survive them.                                                  *)
(***************************************************************************)
EXTENDS Integers

CONSTANTS
    Clients,        \* concurrent zc proxy select commands
    Groups,         \* select groups of the configuration
    Proxies,        \* members of every group
    Heads,          \* revisions of the profile
    Offers,         \* Offers[h]: the choices <<group, proxy>> revision h has
    MaxGeneration,  \* bound: generations of the catalog
    MaxCommits,     \* bound: commits to the catalog
    MaxInstances,   \* bound: daemon instances
    Reimport,       \* whether the profile may be deleted and imported again
    NONE

ASSUME BoundsAssumption ==
    MaxGeneration \in Nat /\ MaxCommits \in Nat /\ MaxInstances \in Nat
ASSUME OffersAssumption == Offers \in [Heads -> SUBSET (Groups \X Proxies)]
ASSUME ReimportAssumption == Reimport \in BOOLEAN
ASSUME NoneAssumption == NONE \notin Clients \cup Groups \cup Proxies \cup Heads \cup BOOLEAN

Selections == [Groups -> Proxies \cup {NONE}]
NoSelection == [g \in Groups |-> NONE]

\* The catalog: head is NONE while the profile is deleted.
Catalog == [version : 0 .. MaxCommits, head : Heads \cup {NONE},
            generation : 0 .. MaxGeneration, selections : Selections]

\* A frozen snapshot; its file name is a digest of these fields.
Snapshot == [nonce : 1 .. MaxInstances, head : Heads,
             generation : 0 .. MaxGeneration, selections : Selections]

VARIABLES
    catalog,     \* state-v2.json
    reborn,      \* history: the profile was deleted at some time
    stateLocked, \* state-v2.lock is held by the instance (desired_guard)
    instance,    \* the running daemon, or NONE
    descriptor,  \* the snapshot zc.daemon.json names, or NONE
    files,       \* the snapshots in the runtime directory
    launched,    \* instances launched so far
    captured,    \* the snapshot a restart would roll back to, or NONE
    work,        \* the selection Control::select is applying
    requests,    \* PUT /proxies requests on their way
    replies,     \* replies[c]: the answer that reached client c, or NONE
    client       \* progress of each client

daemonVars == <<instance, descriptor, files, launched, captured, work, stateLocked>>
vars == <<catalog, reborn, daemonVars, requests, replies, client>>

\* d.generation lives in the descriptor the instance keeps (Control.descriptor).
Instance == [nonce : 1 .. MaxInstances, head : Heads,
             generation : 0 .. MaxGeneration,
             selections : Selections,     \* in force in the data plane
             stopped : BOOLEAN]           \* Control.stopped

\* `for` is the command whose connection waits for the answer, NONE once it has
\* given up and closed it.
Works == [step : {"save", "switch", "publish", "discard"}, for : Clients \cup {NONE},
          next : Snapshot, previous : Selections]

Idle == [pc |-> "idle", view |-> NONE, group |-> NONE, selections |-> NONE,
         generation |-> 0, seen |-> NONE, outcome |-> NONE]

\* Every instance here has a controller and accepts its own frozen credentials,
\* so controller_required and unauthorized do not occur.
Outcomes == {"applied", "not_running", "identity_mismatch", "generation_conflict",
             "controller_unavailable", "controller_rejected", "instance_changed",
             "runtime_unverifiable", "conflict"}

ASSUME NoneIsNoValue ==
    NONE \notin Snapshot \cup Instance \cup Catalog \cup Works \cup Selections \cup Outcomes

Requests == [for : Clients \cup {NONE}, nonce : 1 .. MaxInstances, head : Heads,
             generation : 1 .. MaxGeneration, group : Groups, proxy : Proxies]

Command == [pc : {"idle", "loaded", "committed", "observed", "waiting", "answered", "done"},
            view : Catalog \cup {NONE}, group : Groups \cup {NONE},
            selections : Selections \cup {NONE}, generation : 0 .. MaxGeneration,
            seen : Snapshot \cup {NONE}, outcome : Outcomes \cup {NONE}]

TypeOK ==
    /\ catalog \in Catalog
    /\ reborn \in BOOLEAN
    /\ stateLocked \in BOOLEAN
    /\ instance \in Instance \cup {NONE}
    /\ descriptor \in Snapshot \cup {NONE}
    /\ files \subseteq Snapshot
    /\ launched \in 0 .. MaxInstances
    /\ captured \in Snapshot \cup {NONE}
    /\ work \in Works \cup {NONE}
    /\ requests \subseteq Requests
    /\ replies \in [Clients -> BOOLEAN \cup {NONE}]
    /\ client \in [Clients -> Command]

Init ==
    /\ \E h \in Heads :
        catalog = [version |-> 0, head |-> h, generation |-> 0, selections |-> NoSelection]
    /\ reborn = FALSE
    /\ stateLocked = FALSE
    /\ instance = NONE
    /\ descriptor = NONE
    /\ files = {}
    /\ launched = 0
    /\ captured = NONE
    /\ work = NONE
    /\ requests = {}
    /\ replies = [c \in Clients |-> NONE]
    /\ client = [c \in Clients |-> Idle]

-----------------------------------------------------------------------------
(* The catalog and its other users. *)

Commit(next) ==
    /\ ~stateLocked
    /\ catalog.version < MaxCommits
    /\ catalog' = [next EXCEPT !.version = catalog.version + 1]

\* config update or override: a new head keeps the desired selections it still
\* offers; dropping one is a new generation.
Retained(h) ==
    [g \in Groups |-> IF <<g, catalog.selections[g]>> \in Offers[h]
                      THEN catalog.selections[g] ELSE NONE]

Republish(h) ==
    LET dropped == IF Retained(h) = catalog.selections THEN 0 ELSE 1 IN
    /\ catalog.head \notin {NONE, h}
    /\ catalog.generation + dropped <= MaxGeneration
    /\ Commit([catalog EXCEPT !.head = h, !.generation = @ + dropped,
                              !.selections = Retained(h)])
    /\ UNCHANGED <<reborn, daemonVars, requests, replies, client>>

\* config delete, and config load under the same name.
Delete ==
    /\ Reimport
    /\ catalog.head # NONE
    /\ Commit([catalog EXCEPT !.head = NONE, !.generation = 0, !.selections = NoSelection])
    /\ reborn' = TRUE
    /\ UNCHANGED <<daemonVars, requests, replies, client>>

Import(h) ==
    /\ Reimport
    /\ catalog.head = NONE
    /\ Commit([catalog EXCEPT !.head = h])
    /\ UNCHANGED <<reborn, daemonVars, requests, replies, client>>

-----------------------------------------------------------------------------
(* zc proxy select. *)

Step(c, next) == client' = [client EXCEPT ![c] = next]

Ends(c, outcome) ==
    Step(c, [Idle EXCEPT !.pc = "done", !.outcome = outcome,
             !.group = client[c].group, !.selections = client[c].selections])

Load(c) ==
    /\ client[c].pc = "idle"
    /\ catalog.head # NONE
    /\ Step(c, [Idle EXCEPT !.pc = "loaded", !.view = catalog])
    /\ replies' = [replies EXCEPT ![c] = NONE]
    /\ UNCHANGED <<catalog, reborn, daemonVars, requests>>

NextGeneration == catalog.generation + 1

\* Store::select: the state token must be the one loaded.
Select(c, g, p) ==
    LET selections == [catalog.selections EXCEPT ![g] = p] IN
    /\ client[c].pc = "loaded"
    /\ catalog = client[c].view
    /\ <<g, p>> \in Offers[catalog.head]
    /\ catalog.generation < MaxGeneration
    /\ Commit([catalog EXCEPT !.generation = NextGeneration, !.selections = selections])
    /\ Step(c, [client[c] EXCEPT !.pc = "committed", !.group = g, !.selections = selections,
                                 !.generation = NextGeneration])
    /\ UNCHANGED <<reborn, daemonVars, requests, replies>>

\* Another commit came first, the lock was not free in time, or the
\* generation or the sequence is exhausted.
SelectFails(c) ==
    /\ client[c].pc = "loaded"
    /\ \/ catalog # client[c].view \/ stateLocked
       \/ catalog.generation = MaxGeneration \/ catalog.version = MaxCommits
    /\ Ends(c, "conflict")
    /\ UNCHANGED <<catalog, reborn, daemonVars, requests, replies>>

\* observe answers the descriptor of a live instance.
Observed == IF instance = NONE THEN NONE ELSE descriptor

\* apply_selection, up to the request.
ObserveRuntime(c) ==
    LET d == Observed
        v == client[c] IN
    /\ v.pc = "committed"
    /\ \/ d = NONE /\ Ends(c, "not_running")
       \/ d # NONE /\ d.head # v.view.head /\ Ends(c, "identity_mismatch")
       \/ /\ d # NONE /\ d.head = v.view.head /\ v.generation <= d.generation
          /\ Ends(c, "generation_conflict")
       \/ /\ d # NONE /\ d.head = v.view.head /\ v.generation > d.generation
          /\ Step(c, [v EXCEPT !.pc = "observed", !.seen = d])
    /\ UNCHANGED <<catalog, reborn, daemonVars, requests, replies>>

\* The request carries the first of the selections, which is one that was kept
\* if any was: the new one is appended.
First(c) ==
    LET kept == {g \in Groups \ {client[c].group} : client[c].selections[g] # NONE} IN
    IF kept = {} THEN {client[c].group} ELSE kept

\* The snapshot is read between two observations of the descriptor; an apply
\* in between may have discarded it.
Send(c) ==
    LET v == client[c] IN
    /\ v.pc = "observed"
    /\ \/ /\ Observed = v.seen
          /\ \E g \in First(c) :
                requests' = requests \cup
                    {[for |-> c, nonce |-> v.seen.nonce, head |-> v.view.head,
                      generation |-> v.generation, group |-> g,
                      proxy |-> v.selections[g]]}
          /\ Step(c, [v EXCEPT !.pc = "waiting"])
       \/ /\ Observed # v.seen
          /\ Ends(c, "instance_changed")
          /\ UNCHANGED requests
       \/ /\ v.seen \notin files
          /\ Ends(c, "runtime_unverifiable")
          /\ UNCHANGED requests
    /\ UNCHANGED <<catalog, reborn, daemonVars, replies>>

Abandoned(c, m) == IF m.for = c THEN [m EXCEPT !.for = NONE] ELSE m

\* The client's own deadline, with which its connection goes: a request on its way
\* may still be applied later, but its answer reaches nobody.
RequestTimeout(c) ==
    /\ client[c].pc = "waiting"
    /\ replies[c] = NONE
    /\ Ends(c, "controller_unavailable")
    /\ requests' = {Abandoned(c, m) : m \in requests}
    /\ work' = IF work = NONE THEN NONE ELSE Abandoned(c, work)
    /\ UNCHANGED <<catalog, reborn, instance, descriptor, files, launched, captured, stateLocked, replies>>

Receive(c) ==
    /\ client[c].pc = "waiting"
    /\ replies[c] # NONE
    /\ IF replies[c] THEN Step(c, [client[c] EXCEPT !.pc = "answered"])
                     ELSE Ends(c, "controller_rejected")
    /\ UNCHANGED <<catalog, reborn, daemonVars, requests, replies>>

\* After a success the descriptor must carry exactly this generation.
Verified(c) ==
    LET d == Observed
        v == client[c] IN
    CASE d = NONE -> "instance_changed"
      [] d # NONE /\ (d.nonce # v.seen.nonce \/ d.head # v.seen.head) -> "instance_changed"
      [] d # NONE /\ d.nonce = v.seen.nonce /\ d.head = v.seen.head ->
            IF d.generation = v.generation THEN "applied" ELSE "generation_conflict"

Verify(c) ==
    /\ client[c].pc = "answered"
    /\ Ends(c, Verified(c))
    /\ UNCHANGED <<catalog, reborn, daemonVars, requests, replies>>

Return(c) ==
    /\ client[c].pc = "done"
    /\ Step(c, Idle)
    /\ UNCHANGED <<catalog, reborn, daemonVars, requests, replies>>
-----------------------------------------------------------------------------
(* The instance: Control::select. *)

\* The answer goes back on the connection of its request.
Reply(c, ok) == replies' = [d \in Clients |-> IF d = c THEN ok ELSE replies[d]]

\* What the request must agree with: this instance, a generation ahead of it,
\* and the catalog's generation and selections under the same head.
AcceptableAnyGeneration(m) ==
    /\ ~instance.stopped
    /\ m.nonce = instance.nonce /\ m.head = instance.head
    /\ catalog.head = instance.head
Acceptable(m) ==
    /\ ~instance.stopped
    /\ m.nonce = instance.nonce /\ m.head = instance.head
    /\ m.generation > instance.generation
    /\ catalog.head = instance.head
    /\ catalog.generation = m.generation
    /\ catalog.selections[m.group] = m.proxy

\* desired_guard takes the state lock and keeps it until the request is answered;
\* when it cannot get it in time the request is refused as well.
Accept(m) ==
    /\ m \in requests
    /\ instance # NONE
    /\ work = NONE
    /\ requests' = requests \ {m}
    /\ \/ /\ Acceptable(m)
          /\ work' = [step |-> "save", for |-> m.for, previous |-> instance.selections,
                      next |-> [nonce |-> instance.nonce, head |-> instance.head,
                                generation |-> m.generation,
                                selections |-> catalog.selections]]
          /\ stateLocked' = TRUE
          /\ UNCHANGED replies
       \/ /\ Reply(m.for, FALSE)
          /\ UNCHANGED <<work, stateLocked>>
    /\ UNCHANGED <<catalog, reborn, instance, descriptor, files, launched, captured, client>>

Lose(m) ==
    /\ m \in requests
    /\ requests' = requests \ {m}
    /\ UNCHANGED <<catalog, reborn, daemonVars, replies, client>>

At(step) == work # NONE /\ work.step = step

SaveSnapshot ==
    /\ At("save")
    /\ files' = files \cup {work.next}
    /\ work' = [work EXCEPT !.step = "switch"]
    /\ UNCHANGED <<catalog, reborn, stateLocked, instance, descriptor, launched, captured, requests, replies, client>>

\* Saving the snapshot or decoding the selections fails: nothing was changed.
PrepareFails ==
    /\ At("save") \/ At("switch")
    /\ Reply(work.for, FALSE)
    /\ work' = NONE
    /\ stateLocked' = FALSE
    /\ UNCHANGED <<catalog, reborn, instance, descriptor, files, launched, captured, requests, client>>

\* config.set_selections: the data plane changes before the descriptor does.
SwitchSelections ==
    /\ At("switch")
    /\ instance' = [instance EXCEPT !.selections = work.next.selections]
    /\ work' = [work EXCEPT !.step = "publish"]
    /\ UNCHANGED <<catalog, reborn, stateLocked, descriptor, files, launched, captured, requests, replies, client>>

Publish ==
    /\ At("publish")
    /\ descriptor' = work.next
    /\ work' = [work EXCEPT !.step = "discard"]
    /\ UNCHANGED <<catalog, reborn, stateLocked, instance, files, launched, captured, requests, replies, client>>

\* A failed publication puts the selections back and ends the instance.
RestoredNothing == instance.selections
Restored == work.previous

PublishFails ==
    /\ At("publish")
    /\ instance' = [instance EXCEPT !.selections = Restored, !.stopped = TRUE]
    /\ Reply(work.for, FALSE)
    /\ work' = NONE
    /\ stateLocked' = FALSE
    /\ UNCHANGED <<catalog, reborn, descriptor, files, launched, captured, requests, client>>

\* The snapshot the previous descriptor named goes last.
OldSnapshots == {[nonce |-> instance.nonce, head |-> instance.head,
                  generation |-> instance.generation, selections |-> work.previous]}

DiscardPrevious ==
    /\ At("discard")
    /\ files' = files \ OldSnapshots
    /\ instance' = [instance EXCEPT !.generation = work.next.generation]
    /\ Reply(work.for, TRUE)
    /\ work' = NONE
    /\ stateLocked' = FALSE
    /\ UNCHANGED <<catalog, reborn, descriptor, launched, captured, requests, client>>

-----------------------------------------------------------------------------
(* The life of instances, as far as selections are concerned. *)

\* A new instance first removes the descriptor and snapshot a dead one left, and
\* publishes the state it starts from.
Launch(head, generation, selections) ==
    LET s == [nonce |-> launched + 1, head |-> head, generation |-> generation,
              selections |-> selections] IN
    /\ instance = NONE
    /\ launched < MaxInstances
    /\ launched' = launched + 1
    /\ files' = (files \ {descriptor}) \cup {s}
    /\ descriptor' = s
    /\ instance' = [nonce |-> s.nonce, head |-> head, generation |-> generation,
                    selections |-> selections, stopped |-> FALSE]
    /\ UNCHANGED <<catalog, reborn, captured, work, stateLocked, requests, replies, client>>

\* Readiness takes generation and selections from the catalog, under its lock,
\* if the prepared revision is still the head.
LaunchFromCatalog ==
    /\ catalog.head # NONE
    /\ Launch(catalog.head, catalog.generation, catalog.selections)

\* A restart checks, under the launch lock, that what it captured still runs.
CaptureRestart ==
    /\ instance # NONE
    /\ work = NONE
    /\ captured' = descriptor
    /\ UNCHANGED <<catalog, reborn, instance, descriptor, files, launched, work, stateLocked,
                   requests, replies, client>>

\* It then stops that instance; when its target fails to start, the captured
\* snapshot is launched again as it is.
RestoreCaptured ==
    LET s == [captured EXCEPT !.nonce = launched + 1] IN
    /\ captured # NONE
    /\ instance # NONE
    /\ instance.nonce = captured.nonce
    /\ work = NONE
    /\ launched < MaxInstances
    /\ launched' = launched + 1
    /\ files' = (files \ {descriptor}) \cup {s}
    /\ descriptor' = s
    /\ instance' = [nonce |-> s.nonce, head |-> s.head, generation |-> s.generation,
                    selections |-> s.selections, stopped |-> FALSE]
    /\ captured' = NONE
    /\ UNCHANGED <<catalog, reborn, work, stateLocked, requests, replies, client>>

\* A stop, a signal, or the stopped flag noticed by the main loop: select has no
\* await point, so none is under way.
Stop ==
    /\ instance # NONE
    /\ work = NONE
    /\ instance' = NONE
    /\ files' = files \ {descriptor}
    /\ descriptor' = NONE
    /\ captured' = NONE
    /\ UNCHANGED <<catalog, reborn, launched, work, stateLocked, requests, replies, client>>

Kill ==
    /\ instance # NONE
    /\ instance' = NONE
    /\ work' = NONE
    /\ stateLocked' = FALSE
    /\ captured' = NONE
    /\ UNCHANGED <<catalog, reborn, descriptor, files, launched, requests, replies, client>>

-----------------------------------------------------------------------------
ClientStep(c) ==
    \/ Load(c) \/ (\E g \in Groups, p \in Proxies : Select(c, g, p)) \/ SelectFails(c)
    \/ ObserveRuntime(c) \/ Send(c) \/ Receive(c) \/ Verify(c) \/ Return(c)

Apply == SaveSnapshot \/ PrepareFails \/ SwitchSelections \/ Publish \/ PublishFails \/ DiscardPrevious

Next ==
    \/ \E c \in Clients : ClientStep(c) \/ RequestTimeout(c)
    \/ \E m \in requests : Accept(m) \/ Lose(m)
    \/ Apply
    \/ LaunchFromCatalog \/ CaptureRestart \/ RestoreCaptured \/ Stop \/ Kill
    \/ \E h \in Heads : Republish(h) \/ Import(h)
    \/ Delete

Spec == Init /\ [][Next]_vars

-----------------------------------------------------------------------------
(* Properties. *)

Confirmed(c) ==
    /\ descriptor # NONE
    /\ descriptor.selections[client[c].group] = client[c].selections[client[c].group]

\* When a command reports its selection as applied, the running instance has
\* published a state in which the chosen group has the chosen proxy
\* (docs/cli/spec.md: "Applied" means the running instance is confirmed to have
\* applied it).
AppliedIsInForce ==
    [][\A c \in Clients :
        client[c].pc = "answered" /\ client'[c].outcome = "applied" => Confirmed(c)]_vars

\* So it is as long as generations are not used twice, that is while the profile
\* was not deleted and imported again.
AppliedUnlessReborn ==
    [][\A c \in Clients :
        client[c].pc = "answered" /\ client'[c].outcome = "applied" /\ ~reborn
            => Confirmed(c)]_vars

\* Whatever step a process dies at, the snapshot the descriptor names is there
\* and complete: the runtime can be observed, captured and restored.
PublishedIsRecoverable == descriptor # NONE => descriptor \in files

\* Outside a request, what the data plane uses is what descriptor and snapshot
\* say, also after a publication failed.
InForceIsPublished ==
    instance # NONE /\ work = NONE =>
        /\ instance.nonce = descriptor.nonce
        /\ instance.generation = descriptor.generation
        /\ instance.selections = descriptor.selections

\* An instance never goes back to an older generation, and its published
\* selections change only together with the generation: late and duplicated
\* requests are refused.
GenerationMovesForward ==
    [][\/ descriptor = NONE \/ descriptor' = NONE
       \/ descriptor'.nonce # descriptor.nonce
       \/ descriptor' = descriptor
       \/ descriptor'.generation > descriptor.generation]_vars

\* An instance at the catalog's generation runs the catalog's selections, while
\* generations are not used twice.
SameGenerationSameSelections ==
    descriptor # NONE /\ descriptor.generation = catalog.generation /\ ~reborn
        => descriptor.selections = catalog.selections

\* Between two requests the running instance, what it has published and what
\* the catalog says of the same generation agree, and can be recovered.
RuntimeIsPublished ==
    /\ TypeOK
    /\ PublishedIsRecoverable /\ InForceIsPublished /\ SameGenerationSameSelections

\* Selections reach the instance in the order of their generations, and a
\* command claims nothing else.
SelectionsMoveForward == AppliedUnlessReborn /\ GenerationMovesForward
=============================================================================
