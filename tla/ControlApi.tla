---------------------------- MODULE ControlApi -----------------------------
(***************************************************************************)
(* The control API's server (src/src/api.rs): an accept loop that owns a   *)
(* bounded set of handlers, each of which reads one request under a        *)
(* timeout, routes it (authentication, instance, then the operation) and   *)
(* answers.  A handler is cancelled only where it awaits, while it reads   *)
(* or answers; State::route runs without awaiting.                         *)
(***************************************************************************)
EXTENDS Integers, FiniteSets

CONSTANTS
    CallLimit,   \* handlers at a time (16)
    MaxCalls,    \* bound: connections to the API at a time
    ApiRequests, \* requests that are made
    Setups       \* configurations, see setup

\* validate_controller_auth: a listener on any interface has a secret.
ASSUME SetupsAssumption == \A s \in Setups : s.wildcard => s.secret
\* A selection is made with PUT /proxies/<group>.
ASSUME RequestsAssumption == \A r \in ApiRequests : r.kind = "select" => r.put
ASSUME CallsAssumption == MaxCalls \in Nat /\ CallLimit \in Nat

VARIABLES
    setup,  \* secret: one is configured; wildcard: any interface; managed
    api,    \* "accepting", "stopping" or "ended"
    apiOk,  \* result of Server::run
    calls,  \* the connections that have a handler
    panics  \* whether a handler has panicked

apiServerVars == <<setup, api, apiOk, calls, panics>>

Calls == 1 .. MaxCalls

NoCall == [pc |-> "none", request |-> "none", arrived |-> 0, performed |-> FALSE, code |-> "none", nonce |-> FALSE]

ControlInit ==
    /\ setup \in Setups
    /\ api = "accepting" /\ apiOk = TRUE
    /\ calls = [c \in Calls |-> NoCall]
    /\ panics = FALSE

\* Handlers of the join set, those that have ended but are not joined included.
Handled == {c \in Calls : calls[c].pc \in {"reading", "answering", "over", "panicked"}}

Become(c, record) == calls' = [calls EXCEPT ![c] = record]

Room == Cardinality(Handled) < CallLimit

\* A connection is accepted; without room it is dropped, which changes nothing.
ApiAccept(c, request) ==
    /\ api = "accepting" /\ calls[c].pc = "none"
    /\ \A d \in 1 .. c - 1 : calls[d].pc # "none"
    /\ Room
    /\ Become(c, [NoCall EXCEPT !.pc = "reading", !.request = request])
    /\ UNCHANGED <<setup, api, apiOk, panics>>

\* The header (1), then the body (2), arrive.
Arrives(c) ==
    /\ calls[c].pc = "reading" /\ calls[c].arrived < 2
    /\ Become(c, [calls[c] EXCEPT !.arrived = @ + 1])
    /\ UNCHANGED <<setup, api, apiOk, panics>>

Answer(c, code, nonce, performed) ==
    Become(c, [calls[c] EXCEPT !.pc = "answering", !.code = code, !.nonce = nonce, !.performed = performed])

Code(success) == IF success THEN "ok" ELSE "refused"

OfConnection(request) == request.kind \in {"close", "probe"}

\* State::route: whether the request may be looked at.
Authorized(request) ==
    (setup.wildcard \/ (setup.secret /\ (request.put \/ OfConnection(request))))
        => request.auth = "right"

\* PUT /proxies/<group>: the body names a member of a group.  Metadata is all
\* four fields or none, and is required exactly by a managed instance.
InSelectableGroup(request) ==
    /\ request.body = "good" /\ request.member
    /\ request.metadata = IF setup.managed THEN "current" ELSE "none"

\* Mutant of Selects: the selection is made before its metadata is compared.
SelectsFirst(request) == request.body = "good" /\ request.member

\* Every check precedes the change.  Control::select of a managed instance may
\* still refuse, and then changes nothing (module Selection).
Selects(request) == InSelectableGroup(request)

Operate(c, request) ==
    CASE request.kind = "select" ->
            \E accepted \in (IF setup.managed THEN BOOLEAN ELSE {TRUE}) :
                Answer(c, Code(accepted /\ InSelectableGroup(request)), FALSE, accepted /\ Selects(request))
      [] request.kind = "close" ->
            \E found \in BOOLEAN : Answer(c, Code(found), TRUE, found)
      [] request.kind = "probe" ->
            \E granted \in BOOLEAN :
                /\ granted => request.instance = "same"
                /\ Answer(c, Code(granted), TRUE, granted)
      [] request.kind = "status" ->
            \E fits \in BOOLEAN : Answer(c, Code(fits), FALSE, FALSE)
      [] OTHER -> Answer(c, "refused", FALSE, FALSE)

\* authenticated_connection when route returns before it is set.
NonceOfRefused(request) == FALSE

\* read_request returns a request only when all of its body has arrived.
Complete(c) == calls[c].arrived = 2

ApiRoute(c) ==
    LET request == calls[c].request
    IN /\ calls[c].pc = "reading" /\ Complete(c)
       /\ request.header = "right"
       /\ IF OfConnection(request) /\ ~setup.secret
          THEN Answer(c, "refused", NonceOfRefused(request), FALSE)
          ELSE IF ~Authorized(request)
          THEN Answer(c, "refused", NonceOfRefused(request), FALSE)
          ELSE IF OfConnection(request) /\ request.instance = "other"
          THEN Answer(c, "refused", TRUE, FALSE)
          ELSE Operate(c, request)
       /\ UNCHANGED <<setup, api, apiOk, panics>>

\* The header is malformed, too long, repeats a field or has bytes after the
\* body (400, 413, 501), or lacks the length of a PUT (411).
Malformed(c) ==
    /\ calls[c].pc = "reading" /\ calls[c].arrived >= 1
    /\ calls[c].request.header = "wrong"
    /\ Answer(c, "refused", FALSE, FALSE)
    /\ UNCHANGED <<setup, api, apiOk, panics>>

\* The client closes before its request is complete, or takes too long.
Incomplete(c) ==
    /\ calls[c].pc = "reading" /\ calls[c].arrived < 2
    /\ Answer(c, "refused", FALSE, FALSE)
    /\ UNCHANGED <<setup, api, apiOk, panics>>

\* The answer is written, or the client does not take it in time.
Answered(c) ==
    /\ calls[c].pc = "answering"
    /\ \E read \in BOOLEAN :
        Become(c, [calls[c] EXCEPT !.pc = "over", !.code = IF read THEN @ ELSE "none",
                                   !.nonce = read /\ @])
    /\ UNCHANGED <<setup, api, apiOk, panics>>

\* A panic in a handler reaches the loop when it is joined.
HandlerPanics(c) ==
    /\ calls[c].pc = "reading"
    /\ Become(c, [calls[c] EXCEPT !.pc = "panicked"])
    /\ panics' = TRUE
    /\ UNCHANGED <<setup, api, apiOk>>

ApiFailed(c) == calls[c].pc = "panicked"

\* A handler that has ended is joined: by the loop, which stops if it
\* panicked, or after the loop.
ApiJoin(c) ==
    /\ api # "ended" /\ calls[c].pc \in {"over", "panicked"}
    /\ apiOk' = (apiOk /\ ~ApiFailed(c))
    /\ api' = IF ApiFailed(c) THEN "stopping" ELSE api
    /\ Become(c, NoCall)
    /\ UNCHANGED <<setup, panics>>

\* Shutdown, a failing accept or a panic of the loop.
ApiStop(failed) ==
    /\ api = "accepting"
    /\ api' = "stopping" /\ apiOk' = ~failed
    /\ UNCHANGED <<setup, calls, panics>>

\* abort_all: a handler is cancelled where it awaits.
ApiAbort(c) ==
    /\ api = "stopping" /\ calls[c].pc \in {"reading", "answering"}
    /\ Become(c, NoCall)
    /\ UNCHANGED <<setup, api, apiOk, panics>>

Joined == Handled = {}

ApiEnds ==
    /\ api = "stopping" /\ Joined
    /\ api' = "ended"
    /\ UNCHANGED <<setup, apiOk, calls, panics>>

ControlNext ==
    \/ \E c \in Calls :
        \/ (\E request \in ApiRequests : ApiAccept(c, request))
        \/ Arrives(c) \/ ApiRoute(c) \/ Malformed(c) \/ Incomplete(c) \/ Answered(c)
        \/ HandlerPanics(c) \/ ApiJoin(c) \/ ApiAbort(c)
    \/ (\E failed \in BOOLEAN : ApiStop(failed))
    \/ ApiEnds

ControlSpec == ControlInit /\ [][ControlNext]_apiServerVars
-----------------------------------------------------------------------------
(* Properties. *)

Delivered(c) == calls[c].pc = "over" /\ calls[c].code # "none"
Mutates(request) == request.kind \in {"select", "close"}

\* What a client is told is what happened: a request that changes something
\* was performed if and only if its answer, when the client reads one, says so.
AnswersAreTrue ==
    \A c \in Calls : (Delivered(c) /\ Mutates(calls[c].request)) =>
        (calls[c].code = "ok" <=> calls[c].performed)

\* Only requests that arrived to their last byte, with the secret where one is
\* configured, are performed: not those that were cut short by the client, by
\* the timeout or by the server's end.
OnlyWholeRequests ==
    \A c \in Calls : calls[c].performed =>
        /\ calls[c].arrived = 2 /\ calls[c].request.header = "right"
        /\ setup.secret => calls[c].request.auth = "right"

\* The instance's nonce is told only to clients that know the secret.
NonceForOwners ==
    \A c \in Calls : calls[c].nonce => setup.secret /\ calls[c].request.auth = "right"

\* A handler's panic is in the result of Server::run, also when it comes while
\* the server is stopping, when the other handlers are being cancelled.
PanicIsReported == (api = "ended" /\ panics) => ~apiOk

\* What the control API tells, to its clients and to the instance, is what
\* happened, and only whole and entitled requests make something happen.
ControlIsTrue == AnswersAreTrue /\ OnlyWholeRequests /\ NonceForOwners /\ PanicIsReported
=============================================================================
