------------------------------ MODULE Outbound ------------------------------
(***************************************************************************)
(* Setting up outbounds (dial in src/src/runtime.rs, Connector in          *)
(* outbound.rs, UdpSession::shadowsocks in udp.rs, Dns in dns.rs): each    *)
(* attempt routes, looks a name up, tries the addresses in turn, shakes    *)
(* TLS hands and sends the request of its protocol.  A step may fail, a    *)
(* timeout of Dns, of Connector or of the caller may drop the future that  *)
(* runs it, and the failure is counted under a stage and a source: those   *)
(* attached to the error, outermost first, or else those the caller's      *)
(* FailureContext holds.                                                   *)
(***************************************************************************)
EXTENDS Integers, FiniteSets

CONSTANTS
    Attempts,     \* connections that set an outbound up at the same time
    DnsSlots,     \* permits of the resolver (64), two of them per lookup
    MaxAddresses  \* bound: addresses of a name

ASSUME AttemptsAssumption == IsFiniteSet(Attempts)
ASSUME SlotsAssumption == DnsSlots \in Nat /\ MaxAddresses \in Nat

VARIABLES
    attempts, \* each attempt: its proxy, place, addresses left and FailureContext
    permits   \* permits of the resolver that are free

outboundVars == <<attempts, permits>>

OutboundKinds == {"direct", "shadowsocks", "trojan", "anytls", "shadowsocksUdp", "trojanUdp"}
Udp(p) == p \in {"shadowsocksUdp", "trojanUdp"}
Tls(p) == p \in {"trojan", "anytls", "trojanUdp"}

NoAttempt == [proxy |-> "none", place |-> "idle", left |-> 0, stage |-> "none", source |-> "none",
              counted |-> [stage |-> "none", source |-> "none"]]

OutboundInit ==
    /\ attempts = [a \in Attempts |-> NoAttempt]
    /\ permits = DnsSlots

\* A failure that is counted, and the places where it can happen.
Failed(place) == place \in {"failedRouting", "failedChecks", "failedLookup", "failedDial",
                            "failedTls", "failedRequest"}

Set(a, r) == attempts' = [attempts EXCEPT ![a] = r]

\* dial, or udp_relay: the context is set before the route is looked for.
BeginRoute(a, p) ==
    /\ attempts[a] = NoAttempt
    /\ Set(a, [NoAttempt EXCEPT !.proxy = p, !.place = "routing", !.stage = "dns", !.source = "target"])
    /\ UNCHANGED permits

\* Mutant of Freed: a lookup that is dropped keeps its permits.
FreedUnlessDropped(r, dropped) == IF r.place \in {"routingLookup", "lookup"} /\ ~dropped THEN 2 ELSE 0

\* The permits that go with the future of a lookup, however it ends.
Freed(r, dropped) == IF r.place \in {"routingLookup", "lookup"} THEN 2 ELSE 0

\* A rule that needs an address uses the same resolver.
RouteLookUp(a) ==
    /\ attempts[a].place = "routing" /\ permits >= 2
    /\ Set(a, [attempts[a] EXCEPT !.place = "routingLookup"])
    /\ permits' = permits - 2

\* connect_observed and open_udp_observed: the first labels.
Observed(r) ==
    [r EXCEPT !.stage = IF Udp(r.proxy) THEN "udp" ELSE "connect",
              !.source = IF r.proxy = "direct" THEN "target" ELSE "proxy"]

Routed(a) ==
    /\ attempts[a].place \in {"routing", "routingLookup"}
    /\ Set(a, [Observed(attempts[a]) EXCEPT !.place = "checks"])
    /\ permits' = permits + Freed(attempts[a], FALSE)

\* The name to resolve: a literal address needs no permit.
LookUp(a, literal) ==
    /\ attempts[a].place = "checks"
    /\ literal \/ permits >= 2
    /\ Set(a, [attempts[a] EXCEPT !.stage = "dns", !.place = IF literal THEN "literal" ELSE "lookup"])
    /\ permits' = IF literal THEN permits ELSE permits - 2

\* try_acquire_many: there is no queue.
NoPermit(a) ==
    /\ attempts[a].place = "checks" /\ permits < 2
    /\ Set(a, [attempts[a] EXCEPT !.stage = "dns", !.place = "refused"])
    /\ UNCHANGED permits

LookedUp(a, n) ==
    /\ attempts[a].place \in {"lookup", "literal"}
    /\ attempts[a].place = "literal" => n = 1
    /\ permits' = permits + Freed(attempts[a], FALSE)
    /\ Set(a, [attempts[a] EXCEPT !.stage = "connect", !.place = "dial", !.left = n])

NextAddress(a) ==
    /\ attempts[a].place = "dial" /\ attempts[a].left > 1
    /\ Set(a, [attempts[a] EXCEPT !.left = @ - 1])
    /\ UNCHANGED permits

\* After the TLS handshake.
Secured(r) == [r EXCEPT !.stage = "connect", !.source = "proxy_protocol", !.place = "request"]

\* The first address that answers is taken.
Dialled(a) ==
    /\ attempts[a].place = "dial"
    /\ LET r == attempts[a]
       IN Set(a, CASE Tls(r.proxy) -> [r EXCEPT !.stage = "tls", !.place = "tls"]
                   [] r.proxy = "shadowsocks" -> [r EXCEPT !.source = "proxy_protocol", !.place = "request"]
                   [] OTHER -> [r EXCEPT !.place = "open"])
    /\ UNCHANGED permits

Handshaken(a) ==
    /\ attempts[a].place = "tls"
    /\ Set(a, Secured(attempts[a]))
    /\ UNCHANGED permits

Requested(a) ==
    /\ attempts[a].place = "request"
    /\ Set(a, [attempts[a] EXCEPT !.place = "open"])
    /\ UNCHANGED permits

\* The labels attached to an error: Dns says "dns" of a "target"; dial and the
\* handshake add their stage; Connector adds the source it is at outside of them.
Stage(r) ==
    CASE r.place \in {"routing", "routingLookup", "lookup", "refused"} -> "dns"
      [] r.place = "dial" /\ ~Udp(r.proxy) -> "connect"
      [] r.place = "tls" -> "tls"
      [] OTHER -> r.stage

Source(r) == IF r.place \in {"routing", "routingLookup"} THEN "target" ELSE r.source

FailedAt(place) ==
    CASE place \in {"routing", "routingLookup"} -> "failedRouting"
      [] place = "checks" -> "failedChecks"
      [] place \in {"lookup", "refused"} -> "failedLookup"
      [] place = "dial" -> "failedDial"
      [] place = "tls" -> "failedTls"
      [] place = "request" -> "failedRequest"

\* A step returns an error; a dial only after its last address.
StepFails(a) ==
    LET r == attempts[a]
    IN /\ \/ r.place \in {"routing", "routingLookup", "checks", "lookup", "refused", "tls", "request"}
          \/ r.place = "dial" /\ r.left = 1
       /\ r.place = "checks" => r.proxy # "direct"
       /\ Set(a, [r EXCEPT !.place = FailedAt(r.place), !.counted = [stage |-> Stage(r), source |-> Source(r)]])
       /\ permits' = permits + Freed(r, FALSE)

\* A timeout drops the future: of Connector, which attaches the labels of the
\* context, or of the caller, which reads them from it.
TimesOut(a) ==
    LET r == attempts[a]
    IN /\ r.place \in {"routing", "routingLookup", "lookup", "dial", "tls", "request"}
       /\ Set(a, [r EXCEPT !.place = FailedAt(r.place), !.counted = [stage |-> r.stage, source |-> r.source]])
       /\ permits' = permits + Freed(r, TRUE)

\* The connection is cancelled, or is over.
Dropped(a) ==
    /\ attempts[a] # NoAttempt
    /\ Set(a, NoAttempt)
    /\ permits' = permits + Freed(attempts[a], TRUE)

OutboundNext ==
    \E a \in Attempts :
        \/ \E p \in OutboundKinds : BeginRoute(a, p)
        \/ \E literal \in BOOLEAN : LookUp(a, literal)
        \/ \E n \in 1 .. MaxAddresses : LookedUp(a, n)
        \/ RouteLookUp(a) \/ Routed(a) \/ NoPermit(a) \/ NextAddress(a) \/ Dialled(a) \/ Handshaken(a) \/ Requested(a)
        \/ StepFails(a) \/ TimesOut(a) \/ Dropped(a)

OutboundSpec == OutboundInit /\ [][OutboundNext]_outboundVars
-----------------------------------------------------------------------------
(* Properties. *)

\* Every failure is counted under what had been reached when it happened, by an
\* error and by any of the timeouts alike: looking up the destination's name,
\* or the server's, reaching it, the handshake, or the proxy's protocol.
CountedWhereItFailed ==
    \A a \in Attempts :
        LET r == attempts[a]
            peer == IF r.proxy = "direct" THEN "target" ELSE "proxy"
        IN Failed(r.place) =>
            r.counted =
                CASE r.place = "failedRouting" -> [stage |-> "dns", source |-> "target"]
                  [] r.place = "failedChecks" ->
                        [stage |-> IF Udp(r.proxy) THEN "udp" ELSE "connect", source |-> peer]
                  [] r.place = "failedLookup" -> [stage |-> "dns", source |-> peer]
                  [] r.place = "failedDial" -> [stage |-> "connect", source |-> peer]
                  [] r.place = "failedTls" -> [stage |-> "tls", source |-> peer]
                  [] r.place = "failedRequest" -> [stage |-> "connect", source |-> "proxy_protocol"]

\* The resolver's permits are all accounted for by lookups that are under way:
\* none is lost to a timeout, a failure or a cancelled connection.
PermitsComeBack ==
    permits = DnsSlots - 2 * Cardinality({a \in Attempts : attempts[a].place \in {"routingLookup", "lookup"}})

\* Every failure is counted once where it happened, and gives back what it held.
OutboundsAccount == CountedWhereItFailed /\ PermitsComeBack
=============================================================================
