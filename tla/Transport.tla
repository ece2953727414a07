------------------------------ MODULE Transport -----------------------------
(***************************************************************************)
(* The adapters between a proxy protocol and its TCP connection (src/src/  *)
(* simple_obfs.rs and outbound.rs): HttpObfsStream puts the first write    *)
(* into an HTTP request and takes the answer's header off; SsReadProgress  *)
(* tells a reset between two Shadowsocks records from one inside a record; *)
(* AnyTlsTransport keeps a reset that TLS may overlook.                    *)
(*                                                                         *)
(* The server's stream is a header and a body, known by positions; the     *)
(* client's bytes are numbered.  Every poll may transfer any part of what  *)
(* is there, and the caller may give an operation up between two polls.    *)
(***************************************************************************)
EXTENDS Integers, Sequences

CONSTANTS
    HeaderLimit, \* HEADER_LIMIT
    FirstWriteLimit,
    UnitSize,    \* bytes of a salt, a length and a payload
    BodySize,    \* bound: bytes of the server's body
    MaxBytes     \* bound: bytes the client writes

ASSUME TransportAssumption ==
    {HeaderLimit, FirstWriteLimit, UnitSize, BodySize, MaxBytes} \subseteq Nat /\ UnitSize > 0

VARIABLES
    answer,  \* of the obfs server: "upgrade", "refusal", "oversized"; "none" for
             \* Shadowsocks without obfs; "anytls" for AnyTLS
    link,    \* "open", "eof" or "reset", and the bytes taken from it
    obfs,    \* HttpObfsStream
    confirmed,   \* bytes whose write was acknowledged, and those flushed
    uplink,  \* what the server received
    units,   \* SsReadProgress
    body,    \* positions of the server's stream handed to Shadowsocks
    verdict, \* what the reader was told at the end
    socket,  \* the TCP connection of AnyTLS: "open", "reset", "gone", "fin"
    kept,    \* AnyTlsTransport.read_error
    tlsSaw   \* what TLS was told: "nothing", "error", "eof"

streamVars == <<answer, link, obfs, confirmed, uplink, units, body, verdict>>
tlsVars == <<socket, kept, tlsSaw>>
transportVars == <<streamVars, tlsVars>>

ENVELOPE == 0 \* a byte of the HTTP request header

HeaderSize == CASE answer = "none" -> 0 [] answer = "oversized" -> HeaderLimit + 1 [] OTHER -> 2

TransportInit ==
    /\ answer \in {"upgrade", "refusal", "oversized", "none", "anytls"}
    /\ link = [state |-> "open", taken |-> 0]
    /\ obfs = [started |-> answer = "none", pending |-> <<>>, sent |-> 0, response |-> 0, tail |-> 0,
               upgraded |-> answer = "none", deadline |-> FALSE, failed |-> FALSE]
    /\ confirmed = [bytes |-> 0, flushed |-> 0]
    /\ uplink = <<>>
    /\ units = [unit |-> "salt", partial |-> FALSE]
    /\ body = <<>> /\ verdict = "none"
    /\ socket = "open" /\ kept = FALSE /\ tlsSaw = "nothing"

Drained == obfs.pending = <<>>

\* Mutant of Cleared: the time of the response only counts from a flush.
ClearedLate(o) == [o EXCEPT !.pending = <<>>, !.sent = 0]

\* drain, its end.
Cleared(o) == [o EXCEPT !.pending = <<>>, !.sent = 0, !.deadline = ~o.upgraded]

\* drain, in whichever poll: the inner stream takes n more bytes.
Drain(n) ==
    /\ ~obfs.failed /\ verdict = "none"
    /\ obfs.sent + n <= Len(obfs.pending)
    /\ uplink' = uplink \o SubSeq(obfs.pending, obfs.sent + 1, obfs.sent + n)
    /\ LET o == [obfs EXCEPT !.sent = @ + n]
       IN obfs' = IF o.sent = Len(o.pending) THEN Cleared(o) ELSE o
    /\ UNCHANGED <<answer, link, confirmed, units, body, verdict, tlsVars>>

DrainFails ==
    /\ ~obfs.failed /\ ~Drained
    /\ obfs' = [obfs EXCEPT !.failed = TRUE]
    /\ UNCHANGED <<answer, link, confirmed, uplink, units, body, verdict, tlsVars>>

\* The bytes of the first write that are kept.
FirstWrite(n) == IF n < FirstWriteLimit THEN n ELSE FirstWriteLimit

Acknowledged(n) == FirstWrite(n)

Bytes(n) == [i \in 1 .. n |-> confirmed.bytes + i]

\* poll_write: the first one only keeps the request, later ones pass through.
PollWrite(n) ==
    /\ ~obfs.failed /\ Drained /\ confirmed.bytes + n <= MaxBytes
    /\ IF obfs.started
       THEN /\ uplink' = uplink \o Bytes(n)
            /\ confirmed' = [confirmed EXCEPT !.bytes = @ + n]
            /\ UNCHANGED obfs
       ELSE /\ confirmed' = [confirmed EXCEPT !.bytes = @ + Acknowledged(n)]
            /\ obfs' = [obfs EXCEPT !.started = TRUE,
                            !.pending = <<ENVELOPE>> \o SubSeq(Bytes(n), 1, FirstWrite(n))]
            /\ UNCHANGED uplink
    /\ UNCHANGED <<answer, link, units, body, verdict, tlsVars>>

\* poll_flush or poll_shutdown returns Ok.
PollFlush ==
    /\ ~obfs.failed /\ Drained
    /\ confirmed' = [confirmed EXCEPT !.flushed = confirmed.bytes]
    /\ UNCHANGED <<answer, link, obfs, uplink, units, body, verdict, tlsVars>>

\* The connection ends, at any byte.
LinkEnds(how) ==
    /\ link.state = "open"
    /\ link' = [link EXCEPT !.state = how]
    /\ UNCHANGED <<answer, obfs, confirmed, uplink, units, body, verdict, tlsVars>>

Reading == ~obfs.failed /\ Drained /\ verdict = "none"

Left == HeaderSize + BodySize - link.taken

Told(what) == verdict' = what /\ UNCHANGED <<link, uplink, confirmed, units, body, answer, tlsVars>>

\* Where the body starts in the response buffer.
BodyStart == HeaderSize

\* poll_read before the upgrade: n more bytes of the response.
ReadHeader(n) ==
    /\ Reading /\ ~obfs.upgraded /\ link.state = "open"
    /\ n <= Left /\ obfs.response + n <= HeaderLimit
    /\ link' = [link EXCEPT !.taken = @ + n]
    /\ LET size == obfs.response + n
           o == [obfs EXCEPT !.response = size]
       IN obfs' = CASE size >= HeaderSize /\ answer = "upgrade" ->
                            [o EXCEPT !.upgraded = TRUE, !.deadline = FALSE, !.tail = BodyStart]
                    [] size >= HeaderSize /\ answer # "upgrade" -> [o EXCEPT !.failed = TRUE]
                    [] size < HeaderSize /\ size = HeaderLimit -> [o EXCEPT !.failed = TRUE]
                    [] OTHER -> o
    /\ verdict' = IF obfs'.failed THEN "invalid" ELSE verdict
    /\ UNCHANGED <<answer, confirmed, uplink, units, body, tlsVars>>

HeaderCut ==
    /\ Reading /\ ~obfs.upgraded /\ link.state # "open"
    /\ obfs' = [obfs EXCEPT !.failed = TRUE]
    /\ Told(IF link.state = "eof" \/ obfs.response > 0 THEN "truncated" ELSE "reset")

HeaderExpires ==
    /\ Reading /\ ~obfs.upgraded /\ obfs.deadline
    /\ obfs' = [obfs EXCEPT !.failed = TRUE]
    /\ Told("timedOut")

\* The library asks for the rest of a unit.
Wanted == UnitSize - (Len(body) % UnitSize)

\* SsReadProgress after n bytes.
Progress(n) ==
    [unit |-> CASE n < Wanted -> units.unit
                [] n = Wanted /\ units.unit = "salt" -> "firstLength"
                [] n = Wanted /\ units.unit \in {"firstLength", "nextLength"} -> "payload"
                [] OTHER -> "nextLength",
     partial |-> n < Wanted]

HandOut(from, n) ==
    /\ body' = body \o [i \in 1 .. n |-> from + i]
    /\ units' = Progress(n)
    /\ UNCHANGED <<answer, confirmed, uplink, verdict, tlsVars>>

\* What came with the header is handed out first.
ReadTail ==
    /\ Reading /\ obfs.upgraded /\ obfs.tail < obfs.response
    /\ LET rest == obfs.response - obfs.tail
           n == IF rest < Wanted THEN rest ELSE Wanted
       IN /\ HandOut(obfs.tail, n)
          /\ obfs' = IF n = rest THEN [obfs EXCEPT !.response = 0, !.tail = 0]
                     ELSE [obfs EXCEPT !.tail = @ + n]
    /\ UNCHANGED link

ReadBody(n) ==
    /\ Reading /\ obfs.upgraded /\ obfs.tail = obfs.response /\ link.state = "open"
    /\ n <= Left /\ n <= Wanted
    /\ HandOut(link.taken, n)
    /\ link' = [link EXCEPT !.taken = @ + n]
    /\ UNCHANGED obfs

\* An end of file is left to the library.
BodyCut ==
    /\ Reading /\ obfs.upgraded /\ obfs.tail = obfs.response /\ link.state # "open"
    /\ Told(CASE link.state = "eof" -> "eof"
              [] link.state = "reset" /\ (units.partial \/ units.unit \in {"firstLength", "payload"}) -> "truncated"
              [] OTHER -> "reset")
    /\ UNCHANGED obfs

\* The AnyTLS connection ends; a reset is reported once, then the socket reads
\* as ended.
SocketEnds(how) ==
    /\ socket = "open" /\ socket' = how
    /\ UNCHANGED <<streamVars, kept, tlsSaw>>

Keep == TRUE

\* AnyTlsTransport::poll_read at the end of the data.  TLS may overlook the error
\* of a read that also gave it plaintext.
ReadSocket(overlooked) ==
    /\ socket # "open" /\ tlsSaw = "nothing"
    /\ IF kept THEN tlsSaw' = "error" /\ UNCHANGED <<socket, kept>>
       ELSE CASE socket = "reset" ->
                    /\ socket' = "gone" /\ kept' = Keep
                    /\ tlsSaw' = IF overlooked THEN "nothing" ELSE "error"
              [] OTHER -> tlsSaw' = "eof" /\ UNCHANGED <<socket, kept>>
    /\ UNCHANGED streamVars

TransportNext ==
    \/ /\ answer # "anytls"
       /\ \/ \E n \in 1 .. MaxBytes + 1 : Drain(n) \/ PollWrite(n)
          \/ \E n \in 1 .. HeaderLimit : ReadHeader(n)
          \/ \E n \in 1 .. UnitSize : ReadBody(n)
          \/ \E how \in {"eof", "reset"} : LinkEnds(how)
          \/ DrainFails \/ PollFlush \/ HeaderCut \/ HeaderExpires \/ ReadTail \/ BodyCut
    \/ /\ answer = "anytls"
       /\ \/ \E how \in {"fin", "reset"} : SocketEnds(how)
          \/ \E overlooked \in BOOLEAN : ReadSocket(overlooked)

TransportSpec == TransportInit /\ [][TransportNext]_transportVars
-----------------------------------------------------------------------------
(* Properties. *)

\* The server receives the envelope, if there is one, and then the acknowledged
\* bytes in order, whichever polls drained them and however often the caller
\* gave up; after a flush it has all of them.
AcknowledgedIsSent ==
    LET whole == (IF answer = "none" THEN <<>> ELSE <<ENVELOPE>>) \o [i \in 1 .. confirmed.bytes |-> i]
    IN /\ Len(uplink) <= Len(whole) /\ uplink = SubSeq(whole, 1, Len(uplink))
       /\ \A i \in 1 .. confirmed.flushed : \E k \in DOMAIN uplink : uplink[k] = i

\* Shadowsocks reads the server's body from its first byte on, without gaps and
\* without a byte of the header, wherever the reads split the stream.
BodyIsWhole == \A k \in DOMAIN body : body[k] = HeaderSize + k

\* Once the request is with the server, waiting for the upgrade is timed.
UpgradeIsTimed ==
    (obfs.started /\ Drained /\ ~obfs.upgraded /\ ~obfs.failed) => obfs.deadline

\* A reset is reported as a truncation exactly when it cut the obfs header or a
\* Shadowsocks record (the salt belongs to the first record), however the bytes
\* were split over reads.
TruncationIsExact ==
    LET read == Len(body)
        recordEnd == read > UnitSize /\ (read - UnitSize) % (2 * UnitSize) = 0
    IN (link.state = "reset" /\ verdict \in {"reset", "truncated"}) =>
            (verdict = "truncated" <=>
                IF obfs.upgraded THEN read > 0 /\ ~recordEnd ELSE link.taken > 0)

\* TLS is never told that a connection ended when it was reset: AnyTLS takes an
\* end of file for a successful close.
ResetIsNotEof == tlsSaw = "eof" => socket = "fin"

\* A transport adds, loses and invents nothing, and says so when its peer does.
StreamIsExact ==
    /\ AcknowledgedIsSent /\ BodyIsWhole /\ UpgradeIsTimed
    /\ TruncationIsExact /\ ResetIsNotEof
=============================================================================
