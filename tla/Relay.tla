------------------------------- MODULE Relay -------------------------------
(***************************************************************************)
(* An AnyTLS session (src/src/anytls.rs) and the relay that drives it      *)
(* (transfer, src/src/runtime.rs).  One task polls two futures: upload     *)
(* copies the client's bytes into the session and then closes it, download *)
(* copies what the session receives to the client.  Both may write to the  *)
(* transport, because a received heartbeat has to be answered.             *)
(*                                                                         *)
(* Client bytes are chunks numbered in order, in each direction.  A frame  *)
(* is cut into packets by the padding scheme; a packet is <<frame, i, n>>, *)
(* the i-th of n.  TLS and TCP are two bounded queues, `tls` and `net`.    *)
(* The server and the client are the environment: they send, read and      *)
(* close whenever they like.  `decoder` is the server's view of what it    *)
(* has read.                                                               *)
(***************************************************************************)
EXTENDS Integers, Sequences, SequencesExt

CONSTANTS
    Uploads,     \* bound: chunks the client sends
    Downloads,   \* bound: chunks the server sends
    Beats,       \* bound: heartbeats the server sends
    Packets,     \* packets the padding scheme may cut a frame into
    MAX_HEARTS,  \* heartbeats that may wait for their answer
    MAX_CLOSE_DRAIN,  \* frames discarded while closing
    Room,        \* capacity of tls, of net, of the inbox and of the copy buffer
    Faults,      \* what may go wrong: see the actions that name them
    NONE

ASSUME BoundsAssumption ==
    {Uploads, Downloads, Beats, Packets, MAX_HEARTS, MAX_CLOSE_DRAIN, Room} \subseteq Nat
ASSUME RoomAssumption == Room > 0 /\ Packets > 0
ASSUME NoneAssumption == NONE \notin Nat
ASSUME FaultsAssumption ==
    Faults \subseteq {"timeout", "idle", "client", "server", "garbage"}

VARIABLES
    mode,      \* progress of transfer
    up,        \* progress of its upload future
    accepted,  \* chunks poll_write has accepted
    down,      \* copy buffer of the download future, and whether it saw the end
    received,  \* chunks written to the client
    session,   \* the AnyTls fields
    tls, net,  \* packets accepted by TLS, packets in TCP
    decoder,   \* what the server has made of the packets it read
    inbox,     \* frames the server has written and nobody has read
    server     \* what the server has sent

vars == <<mode, up, accepted, down, received, session, tls, net, decoder,
          inbox, server>>
peers == <<server, inbox, decoder>>

Frame == {<<"syn", 0>>, <<"fin", 0>>} \cup ({"psh"} \X (1 .. Uploads))
             \cup ({"beat"} \X (1 .. Beats))
Packet == Frame \X (1 .. Packets) \X (1 .. Packets)

Ended == {"ok", "error", "idle", "reset"}
Modes == {"opening", "both", "draining", "uploaded"} \cup Ended
Stages == {"open", "prefix", "flush", "read", "write", "eof", "shutdown", "done"}

Session ==
    [open : BOOLEAN,           \* inner is Some
     outgoing : Seq(Packet),
     hearts : Seq(1 .. Beats),
     reply_pending : BOOLEAN,
     body : (1 .. Downloads) \cup {NONE},  \* data_ready and its payload
     v2 : BOOLEAN, acknowledged : BOOLEAN,
     fin_queued : BOOLEAN, write_closed : BOOLEAN, peer_closed : BOOLEAN,
     closing : BOOLEAN,        \* close_deadline is Some
     close_drained : 0 .. MAX_CLOSE_DRAIN + 1,
     failed : BOOLEAN,         \* failure is Some
     fin_seen : BOOLEAN,       \* finished by the server's FIN
     whole_closed : BOOLEAN]

TypeOK ==
    /\ mode \in Modes
    /\ up \in [pc : Stages, need_flush : BOOLEAN]
    /\ accepted \in 0 .. Uploads
    /\ down \in [buf : Seq(1 .. Downloads), eof : BOOLEAN]
    /\ received \in Seq(1 .. Downloads)
    /\ session \in Session
    /\ tls \in Seq(Packet) /\ net \in Seq(Packet)
    /\ decoder \in [partial : Packet \cup {NONE}, psh : 0 .. Uploads,
                    beat : 0 .. Beats, fin : BOOLEAN, broken : BOOLEAN]
    /\ inbox \in Seq({"settings", "synack", "refused", "data", "heart", "fin", "alert"} \X (0 .. Downloads + Beats))
    /\ server \in [data : 0 .. Downloads, beats : 0 .. Beats, v2 : BOOLEAN,
                   acked : BOOLEAN, fin : BOOLEAN, eof : BOOLEAN]

-----------------------------------------------------------------------------
(* Framing. *)

\* Padding::packets: the ways the scheme may cut a frame.
Cuts(frame) == {[i \in 1 .. n |-> <<frame, i, n>>] : n \in 1 .. Packets}

\* AnyTls::queue.  The group being written is never added to.
Queue(s, frame) == {[s EXCEPT !.outgoing = cut] : cut \in Cuts(frame)}

\* AnyTls::finish
Finish(s) ==
    [s EXCEPT !.open = FALSE, !.closing = FALSE, !.outgoing = <<>>, !.hearts = <<>>,
              !.whole_closed = @ \/ ~s.failed]

\* transfer returns, and drops the session and its connection.
Return(result) ==
    /\ mode' = result
    /\ tls' = <<>> /\ net' = <<>> /\ inbox' = <<>>
    /\ UNCHANGED <<up, accepted, down, received, server, decoder>>

\* AnyTls::fail: the half that called it returns the error, and so does transfer.
Fail ==
    /\ session' = Finish([session EXCEPT !.failed = TRUE])
    /\ Return("error")

Init ==
    /\ mode = "opening"
    /\ up = [pc |-> "open", need_flush |-> FALSE]
    /\ accepted = 0
    /\ down = [buf |-> <<>>, eof |-> FALSE]
    /\ received = <<>>
    /\ \E cut \in Cuts(<<"syn", 0>>) :
           session = [open |-> TRUE, outgoing |-> cut, hearts |-> <<>>,
                      reply_pending |-> FALSE, body |-> NONE, v2 |-> FALSE,
                      acknowledged |-> FALSE, fin_queued |-> FALSE,
                      write_closed |-> FALSE, peer_closed |-> FALSE,
                      closing |-> FALSE, close_drained |-> 0, failed |-> FALSE,
                      fin_seen |-> FALSE, whole_closed |-> FALSE]
    /\ tls = <<>> /\ net = <<>> /\ inbox = <<>>
    /\ decoder = [partial |-> NONE, psh |-> 0, beat |-> 0, fin |-> FALSE,
                  broken |-> FALSE]
    /\ server = [data |-> 0, beats |-> 0, v2 |-> FALSE, acked |-> FALSE,
                 fin |-> FALSE, eof |-> FALSE]

-----------------------------------------------------------------------------
(* Writing: drain, shared by both halves. *)

Drained == session.outgoing = <<>> /\ session.hearts = <<>> /\ tls = <<>>

\* The group first, one heartbeat answer after it, then the flush.
HeartsFirst(s) ==
    IF s.hearts # <<>>
    THEN {[s EXCEPT !.outgoing = cut \o @, !.hearts = Tail(@)] :
              cut \in Cuts(<<"beat", Head(s.hearts)>>)}
    ELSE {}
NextGroup(s) ==
    IF s.outgoing = <<>> /\ s.hearts # <<>>
    THEN Queue([s EXCEPT !.hearts = Tail(@)], <<"beat", Head(s.hearts)>>)
    ELSE {}

CanDrain ==
    \/ session.outgoing # <<>> /\ Len(tls) < Room
    \/ NextGroup(session) # {}
    \/ tls # <<>> /\ Len(net) < Room

\* upload is polled only while transfer still selects over both halves, and
\* only after whole_closed was found unset.
Polled == mode = "opening" \/ (mode = "both" /\ ~session.whole_closed)

UploadDrains ==
    /\ Polled
    /\ \/ up.pc \in {"open", "prefix", "flush", "write", "eof", "shutdown"}
       \/ up.pc = "read" /\ up.need_flush

\* download calls receive while its buffer has room and it has not seen the end.
Receives ==
    /\ mode \in {"both", "draining", "uploaded"}
    /\ ~down.eof /\ Len(down.buf) < Room

\* AnyTls::receive goes on to the transport.
ReadsTransport == Receives /\ session.body = NONE /\ session.open /\ ~session.closing

Drain ==
    /\ UploadDrains \/ (ReadsTransport /\ session.reply_pending)
    /\ \/ /\ session.outgoing # <<>> /\ Len(tls) < Room
          /\ tls' = Append(tls, Head(session.outgoing))
          /\ session' = [session EXCEPT !.outgoing = Tail(@)]
          /\ UNCHANGED net
       \/ /\ session' \in NextGroup(session)
          /\ UNCHANGED <<tls, net>>
       \/ /\ tls # <<>> /\ Len(net) < Room
          /\ net' = Append(net, Head(tls))
          /\ tls' = Tail(tls)
          /\ UNCHANGED session
    /\ UNCHANGED <<mode, up, accepted, down, received, peers>>

\* A write or a read meets a connection the server has reset.
TransportFails ==
    /\ server.eof
    /\ \/ UploadDrains /\ ~Drained
       \/ ReadsTransport
       \/ up.pc = "shutdown" /\ Polled
    /\ Fail

-----------------------------------------------------------------------------
(* The upload future. *)

Upload(pc, need_flush) ==
    /\ up' = [pc |-> pc, need_flush |-> need_flush]
    /\ UNCHANGED <<down, received, tls, net, peers>>

\* AnyTls::open has flushed its first group; transfer begins with the bytes the
\* inbound handshake has read already.
Opened ==
    /\ up.pc = "open" /\ mode = "opening" /\ Drained
    /\ mode' = "both"
    /\ \E pc \in {"flush"} \cup (IF Uploads > 0 THEN {"prefix"} ELSE {}) : Upload(pc, FALSE)
    /\ UNCHANGED <<accepted, session>>

\* AnyTls::poll_write: accept a chunk once everything before it is flushed; a
\* session that is over answers with an error.  write_all of the prefix is
\* followed by a flush, copy goes on reading.
PollWrite ==
    /\ Polled /\ up.pc \in {"prefix", "write"}
    /\ IF session.open
       THEN /\ Drained
            /\ session' \in Queue(session, <<"psh", accepted + 1>>)
            /\ accepted' = accepted + 1
            /\ Upload(IF up.pc = "prefix" THEN "flush" ELSE "read", up.pc = "write")
            /\ UNCHANGED mode
       ELSE Return("error") /\ UNCHANGED session

PollFlush ==
    /\ Polled /\ Drained
    /\ \/ up.pc = "flush"
       \/ up.pc = "read" /\ up.need_flush
    /\ Upload("read", FALSE)
    /\ UNCHANGED <<mode, accepted, session>>

\* copy reads the next chunk.
ReadClient ==
    /\ Polled /\ up.pc = "read" /\ accepted < Uploads
    /\ Upload("write", up.need_flush)
    /\ UNCHANGED <<mode, accepted, session>>

\* copy reads the client's end of stream.
ReadClientEof ==
    /\ Polled /\ up.pc = "read"
    /\ Upload("eof", up.need_flush)
    /\ UNCHANGED <<mode, accepted, session>>

\* copy flushes at the end; shutdown starts the close deadline.
StartShutdown ==
    /\ Polled /\ up.pc = "eof" /\ Drained
    /\ session' = [session EXCEPT !.closing = TRUE]
    /\ Upload("shutdown", FALSE)
    /\ UNCHANGED <<mode, accepted>>

\* AnyTls::shutdown_write
QueueFin ==
    /\ Polled /\ up.pc = "shutdown" /\ ~session.fin_queued /\ Drained
    /\ session' \in Queue([session EXCEPT !.fin_queued = TRUE], <<"fin", 0>>)
    /\ UNCHANGED <<mode, up, accepted, down, received, tls, net, peers>>

Flushed == session.fin_queued /\ Drained

ShutdownWrite ==
    /\ Polled /\ up.pc = "shutdown" /\ ~session.write_closed /\ Flushed
    /\ session' = [session EXCEPT !.write_closed = TRUE]
    /\ UNCHANGED <<mode, up, accepted, down, received, tls, net, peers>>

\* AnyTls::poll_shutdown discards what arrives until the server closes.
CloseDrain ==
    /\ Polled /\ up.pc = "shutdown" /\ ~session.peer_closed /\ inbox # <<>>
    /\ IF session.close_drained = MAX_CLOSE_DRAIN
       THEN Fail
       ELSE /\ session' = [session EXCEPT !.close_drained = @ + 1]
            /\ inbox' = Tail(inbox)
            /\ UNCHANGED <<mode, up, accepted, down, received, tls, net, server,
                           decoder>>

PeerClosed ==
    /\ Polled /\ up.pc = "shutdown" /\ ~session.peer_closed
    /\ inbox = <<>> /\ server.eof
    /\ session' = [session EXCEPT !.peer_closed = TRUE]
    /\ UNCHANGED <<mode, up, accepted, down, received, tls, net, peers>>

CloseReady == session.peer_closed /\ session.write_closed

FinishShutdown ==
    /\ Polled /\ up.pc = "shutdown" /\ CloseReady
    /\ session' = Finish(session)
    /\ mode' = "uploaded"
    /\ Upload("done", FALSE)
    /\ UNCHANGED accepted

CloseExpires ==
    /\ "timeout" \in Faults
    /\ Polled /\ up.pc = "shutdown"
    /\ Fail

-----------------------------------------------------------------------------
(* The download future. *)

\* AnyTls::receive: an assembled tail is handed out before anything else.
TakeBody ==
    /\ Receives /\ session.body # NONE
    /\ down' = [down EXCEPT !.buf = Append(@, session.body)]
    /\ session' = [session EXCEPT !.body = NONE]
    /\ UNCHANGED <<mode, up, accepted, received, tls, net, peers>>

AtEnd == session.body = NONE /\ ~session.open

ReceiveEnd ==
    /\ Receives /\ AtEnd
    /\ down' = [down EXCEPT !.eof = TRUE]
    /\ UNCHANGED <<mode, up, accepted, received, session, tls, net, peers>>

RepliesSent ==
    /\ ReadsTransport /\ session.reply_pending /\ Drained
    /\ session' = [session EXCEPT !.reply_pending = FALSE]
    /\ UNCHANGED <<mode, up, accepted, down, received, tls, net, peers>>

\* Answers are attempted before the next read, and never hold it up.
ReadyOnceAnswered == session.reply_pending => Drained
ReadyToRead == session.reply_pending => ~CanDrain

\* AnyTls::validate_header
ValidHeader(frame) ==
    CASE frame[1] = "settings" -> ~session.v2
      [] frame[1] \in {"synack", "refused"} -> session.v2 /\ ~session.acknowledged
      [] frame[1] = "heart" -> session.v2 /\ Len(session.hearts) < MAX_HEARTS
      [] OTHER -> frame[1] # "alert"

\* AnyTls::control, for a valid frame that is no refusal.
Control(s, frame) ==
    CASE frame[1] = "settings" -> [s EXCEPT !.v2 = TRUE]
      [] frame[1] = "synack" -> [s EXCEPT !.acknowledged = TRUE]
      [] frame[1] = "data" -> [s EXCEPT !.body = frame[2]]
      [] frame[1] = "heart" ->
             [s EXCEPT !.hearts = Append(@, frame[2]), !.reply_pending = TRUE]
      [] frame[1] = "fin" -> Finish([s EXCEPT !.fin_seen = TRUE])

ReceiveFrame ==
    /\ ReadsTransport /\ ReadyToRead /\ inbox # <<>>
    /\ IF ValidHeader(Head(inbox)) /\ Head(inbox)[1] # "refused"
       THEN /\ session' = Control(session, Head(inbox))
            /\ inbox' = Tail(inbox)
            /\ UNCHANGED <<mode, up, accepted, down, received, tls, net, server,
                           decoder>>
       ELSE Fail

\* The connection ends between frames: no FIN was seen, so this is a truncation.
ReceiveEof ==
    /\ ReadsTransport /\ ReadyToRead /\ inbox = <<>> /\ server.eof
    /\ Fail

WriteClient ==
    /\ mode \in {"both", "draining", "uploaded"} /\ down.buf # <<>>
    /\ received' = Append(received, Head(down.buf))
    /\ down' = [down EXCEPT !.buf = Tail(@)]
    /\ UNCHANGED <<mode, up, accepted, session, tls, net, peers>>

-----------------------------------------------------------------------------
(* transfer. *)

\* The biased first branch: upload is never polled again.
WholeClosed ==
    /\ mode = "both" /\ session.whole_closed
    /\ mode' = "draining"
    /\ UNCHANGED <<up, accepted, down, received, session, tls, net, peers>>

DownloadDone ==
    /\ mode \in {"both", "draining", "uploaded"} /\ down.eof /\ down.buf = <<>>
    /\ mode' = "ok"
    /\ UNCHANGED <<up, accepted, down, received, session, tls, net, peers>>

IdleExpired ==
    /\ "idle" \in Faults /\ mode \notin Ended
    /\ Return(IF mode = "opening" THEN "error" ELSE "idle")
    /\ UNCHANGED session

-----------------------------------------------------------------------------
(* The environment. *)

\* The client resets: a read or a write of one of the futures fails.
ClientFails ==
    /\ "client" \in Faults /\ mode \in {"both", "draining", "uploaded"}
    /\ Return("reset")
    /\ UNCHANGED session

\* What the server may send next.
Sendable ==
    {f \in {<<"settings", 0>>, <<"synack", 0>>, <<"refused", 0>>, <<"alert", 0>>,
            <<"data", server.data + 1>>, <<"heart", server.beats + 1>>, <<"fin", 0>>} :
        CASE f[1] = "settings" -> ~server.v2
          [] f[1] = "synack" -> ~server.acked
          [] f[1] = "data" -> server.data < Downloads
          [] f[1] = "heart" -> server.beats < Beats
          [] f[1] = "fin" -> TRUE
          [] OTHER -> "garbage" \in Faults}

ServerSends ==
    /\ mode \notin Ended /\ ~server.fin /\ ~server.eof /\ Len(inbox) < Room
    /\ \E f \in Sendable :
           /\ f[1] \in {"synack", "heart"} => server.v2 \/ "garbage" \in Faults
           /\ inbox' = Append(inbox, f)
           /\ server' = [server EXCEPT !.v2 = @ \/ f[1] = "settings",
                                       !.acked = @ \/ f[1] = "synack",
                                       !.data = IF f[1] = "data" THEN @ + 1 ELSE @,
                                       !.beats = IF f[1] = "heart" THEN @ + 1 ELSE @,
                                       !.fin = f[1] = "fin"]
    /\ UNCHANGED <<mode, up, accepted, down, received, session, tls, net, decoder>>

\* A server decodes what it reads: packets continue the frame they belong to,
\* chunks and answers arrive in order, and nothing comes after the FIN.
Decode(d, p) ==
    LET kind == p[1][1]
        continues == IF d.partial = NONE THEN p[2] = 1
                     ELSE p = <<d.partial[1], d.partial[2] + 1, d.partial[3]>>
        complete == p[2] = p[3]
    IN  [partial |-> IF complete THEN NONE ELSE p,
         psh |-> IF complete /\ kind = "psh" THEN p[1][2] ELSE d.psh,
         beat |-> IF complete /\ kind = "beat" THEN p[1][2] ELSE d.beat,
         fin |-> d.fin \/ (complete /\ kind = "fin"),
         broken |-> \/ d.broken \/ d.fin \/ ~continues
                    \/ kind = "psh" /\ p[1][2] # d.psh + 1
                    \/ kind = "beat" /\ p[1][2] # d.beat + 1]

ServerReads ==
    /\ mode \notin Ended /\ net # <<>>
    /\ decoder' = Decode(decoder, Head(net))
    /\ net' = Tail(net)
    /\ UNCHANGED <<mode, up, accepted, down, received, session, tls, inbox, server>>

\* The server closes after a FIN of either side, or fails at any time.
ServerCloses ==
    /\ mode \notin Ended /\ ~server.eof
    /\ "server" \in Faults \/ server.fin \/ decoder.fin
    /\ server' = [server EXCEPT !.eof = TRUE]
    /\ UNCHANGED <<mode, up, accepted, down, received, session, tls, net, decoder,
                   inbox>>

-----------------------------------------------------------------------------

UploadStep ==
    \/ Opened \/ PollWrite \/ PollFlush \/ ReadClient
    \/ ReadClientEof \/ StartShutdown \/ QueueFin \/ ShutdownWrite \/ CloseDrain \/ PeerClosed
    \/ FinishShutdown

DownloadStep ==
    \/ TakeBody \/ ReceiveEnd \/ RepliesSent \/ ReceiveFrame \/ ReceiveEof
    \/ WriteClient \/ DownloadDone

RelayStep == Drain \/ UploadStep \/ DownloadStep \/ WholeClosed

Environment ==
    \/ ClientFails \/ ServerSends \/ ServerReads \/ ServerCloses
    \/ CloseExpires \/ IdleExpired \/ TransportFails

Next == RelayStep \/ Environment

Spec == Init /\ [][Next]_vars

\* A woken task is polled.  The server finishes sending before it reads, the
\* worst peer there is; the client closes some day.
FairSpec ==
    /\ Spec
    /\ WF_vars(RelayStep)
    /\ WF_vars(ServerSends)
    /\ WF_vars((mode = "opening" \/ server.fin \/ server.eof) /\ ServerReads)
    /\ WF_vars(ReadClientEof)
    /\ WF_vars((server.fin \/ decoder.fin) /\ ServerCloses)

-----------------------------------------------------------------------------
(* Properties. *)

\* The server can decode what both halves write (AnyTls::drain, queue): the
\* packets of a frame are not separated by an answer to a heartbeat, the client's
\* chunks and the answers each arrive once and in order, nothing follows the FIN.
WireIsFramed == ~decoder.broken

\* When the upload ends well, all that it read from the client and the FIN have
\* left TLS (AnyTls::poll_shutdown, shutdown_write): the server's close never
\* stands in for the completion of the own writes.
EndedUploadIsComplete ==
    up.pc = "done" /\ mode \in {"uploaded", "ok"} =>
        LET arrives == FoldLeft(Decode, decoder, net)
        IN  tls = <<>> /\ arrives.fin /\ ~arrives.broken /\ arrives.psh = accepted

\* After the server's FIN was read no error of the upload can spoil the transfer,
\* and a transfer that ends has handed the client all that preceded the FIN
\* (the biased select of transfer, AnyTls::receive).
CleanFinDelivers ==
    session.fin_seen =>
        /\ mode # "error"
        /\ mode = "ok" => received = [k \in 1 .. server.data |-> k]

\* A transfer succeeds only when the server's FIN was read or the own close was
\* carried to its end; a pending close is not cancelled by an early end of the
\* download, and a truncated connection is no success.
ShutdownIsNotCancelled ==
    mode = "ok" => session.fin_seen \/ up.pc = "done"

\* With both directions full and a server that reads nothing before it has sent
\* everything, the transfer still ends, without any timeout: answers never hold
\* up reads, and a close goes on reading while its own writes wait.
TransferEnds == <>(mode \in Ended)

\* What both ends of a transfer get is exact, and so is the result.
TransferIsExact ==
    /\ TypeOK
    /\ WireIsFramed /\ EndedUploadIsComplete /\ CleanFinDelivers /\ ShutdownIsNotCancelled
=============================================================================
