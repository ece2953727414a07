----------------------------- MODULE Datagrams -----------------------------
(***************************************************************************)
(* A UDP session over a Trojan stream (UdpSession and trojan_worker in     *)
(* src/src/udp.rs).  A worker task owns the stream: it reads frames part   *)
(* by part into a queue of two, and writes frames from another queue of    *)
(* two.  Senders and the receiver never wait for the stream: a full queue  *)
(* drops the datagram.  Datagrams are numbered in both directions; a frame *)
(* is two parts of the stream, so that reads and writes can stop within.   *)
(***************************************************************************)
EXTENDS Integers, Sequences

CONSTANTS
    QueueSize,   \* capacity of both queues (2)
    MaxIncoming, \* bound: frames the server sends
    MaxOutgoing, \* bound: datagrams that are sent
    Hosts        \* names datagrams are sent to

ASSUME DatagramBounds == QueueSize \in Nat /\ MaxIncoming \in Nat /\ MaxOutgoing \in Nat

VARIABLES
    broken,   \* the first frame of the server that is malformed
    arrived,  \* parts received from the server
    reader,   \* parts at which the frame being read starts, and parts read
    inbox,    \* queue to recv_from: frames, then perhaps the error
    delivered,\* what recv_from returned
    outbox,   \* queue to the worker
    pending,  \* the frame the worker is writing, parts of it written
    written,  \* parts on the stream
    accepted, \* datagrams send_to accepted
    cache,    \* the name whose address is known
    sending,  \* send_to that waits for the name's address, or "none"
    worker    \* "running", "failing", "ended"

readVars == <<broken, arrived, reader, inbox, delivered>>
writeVars == <<outbox, pending, written>>
sendVars == <<accepted, cache, sending>>
datagramVars == <<readVars, writeVars, sendVars, worker>>

ERROR == 0
GARBAGE == MaxIncoming + 1
NoFrame == [number |-> 0, parts |-> 0]

DatagramInit ==
    /\ broken \in 1 .. MaxIncoming + 1
    /\ arrived = 0
    /\ reader = [start |-> 0, read |-> 0]
    /\ inbox = <<>> /\ delivered = <<>>
    /\ outbox = <<>> /\ pending = NoFrame /\ written = <<>>
    /\ accepted = 0 /\ cache = "none" /\ sending = "none"
    /\ worker = "running"
-----------------------------------------------------------------------------
(* The worker's reading half. *)

Arrival ==
    /\ worker = "running" /\ arrived < 2 * MaxIncoming
    /\ arrived' = arrived + 1
    /\ UNCHANGED <<broken, reader, inbox, delivered, writeVars, sendVars, worker>>

\* The stream is dropped first; the error waits behind accepted frames.
FailLater == /\ worker' = "failing" /\ UNCHANGED inbox

\* The frame that starts after `start` parts.
FrameAt(start) == IF start % 2 = 0 THEN start \div 2 + 1 ELSE GARBAGE

ReadPart ==
    LET frame == FrameAt(reader.start)
        whole == reader.read + 1 = reader.start + 2
    IN /\ worker = "running" /\ reader.read < arrived
       /\ reader' = IF whole THEN [start |-> reader.read + 1, read |-> reader.read + 1]
                    ELSE [reader EXCEPT !.read = @ + 1]
       /\ IF whole /\ frame = broken THEN FailLater
          ELSE /\ inbox' = IF whole /\ Len(inbox) < QueueSize THEN Append(inbox, frame) ELSE inbox
               /\ UNCHANGED worker
       /\ UNCHANGED <<broken, arrived, delivered, writeVars, sendVars>>

\* End of the stream, within a frame or not, an error, or IDLE_TIMEOUT.
ReadFails ==
    /\ worker = "running"
    /\ FailLater
    /\ UNCHANGED <<broken, arrived, reader, delivered, writeVars, sendVars>>

\* incoming.send(Err(..)).await
QueueError ==
    /\ Len(inbox) < QueueSize
    /\ inbox' = Append(inbox, ERROR)
    /\ worker' = "ended"

WorkerFails ==
    /\ worker = "failing"
    /\ QueueError
    /\ UNCHANGED <<broken, arrived, reader, delivered, writeVars, sendVars>>

ReceiveDatagram ==
    /\ inbox # <<>>
    /\ delivered' = Append(delivered, Head(inbox))
    /\ inbox' = Tail(inbox)
    /\ UNCHANGED <<broken, arrived, reader, writeVars, sendVars, worker>>
-----------------------------------------------------------------------------
(* The worker's writing half. *)

\* Mutant of ReaderKept: a write restarts the read of a frame.
ReaderRestarted == reader' = [reader EXCEPT !.start = reader.read]

\* Both halves are polled for their whole life: a write leaves a frame that is
\* partly read as it is.
ReaderKept == UNCHANGED reader

TakeFrame ==
    /\ worker = "running" /\ pending = NoFrame /\ outbox # <<>>
    /\ pending' = [number |-> Head(outbox), parts |-> 0]
    /\ outbox' = Tail(outbox)
    /\ ReaderKept
    /\ UNCHANGED <<broken, arrived, inbox, delivered, written, sendVars, worker>>

WritePart ==
    /\ worker = "running" /\ pending # NoFrame
    /\ written' = Append(written, pending.number)
    /\ pending' = IF pending.parts = 1 THEN NoFrame
                  ELSE [pending EXCEPT !.parts = @ + 1]
    /\ UNCHANGED <<readVars, outbox, sendVars, worker>>

WriteGivesUp == FailLater /\ UNCHANGED pending

\* The write fails or takes longer than SEND_TIMEOUT.
WriteFails ==
    /\ worker = "running" /\ pending # NoFrame
    /\ WriteGivesUp
    /\ UNCHANGED <<broken, arrived, reader, delivered, outbox, written, sendVars>>
-----------------------------------------------------------------------------
(* send_to, one at a time: the lock is tried, not waited for. *)

\* try_send into the worker's queue.
Enqueue ==
    IF worker = "running" /\ Len(outbox) < QueueSize
    THEN outbox' = Append(outbox, accepted + 1) /\ accepted' = accepted + 1
    ELSE UNCHANGED <<outbox, accepted>>

SendTo(host) ==
    /\ sending = "none" /\ accepted < MaxOutgoing
    /\ IF cache = host THEN Enqueue /\ UNCHANGED sending
       ELSE sending' = host /\ UNCHANGED <<outbox, accepted>>
    /\ UNCHANGED <<readVars, pending, written, cache, worker>>

\* The name is resolved; the answer is kept even if the queue is full.
SendResolved ==
    /\ sending # "none"
    /\ cache' = sending
    /\ Enqueue
    /\ sending' = "none"
    /\ UNCHANGED <<readVars, pending, written, worker>>

\* The lookup fails, or the send is cancelled or timed out.
SendFails ==
    /\ sending # "none"
    /\ sending' = "none"
    /\ UNCHANGED <<readVars, writeVars, accepted, cache, worker>>

DatagramNext ==
    \/ Arrival \/ ReadPart \/ ReadFails \/ WorkerFails \/ ReceiveDatagram
    \/ TakeFrame \/ WritePart \/ WriteFails
    \/ (\E h \in Hosts : SendTo(h)) \/ SendResolved \/ SendFails

DatagramSpec == DatagramInit /\ [][DatagramNext]_datagramVars
-----------------------------------------------------------------------------
(* Properties. *)

\* What the receiver gets are frames of the server, in their order, although
\* some were dropped: concurrent writes never make it read within a frame, and
\* nothing after a malformed frame is taken for a frame.
FramesAreWhole ==
    LET seen == delivered \o inbox
    IN \A i \in DOMAIN seen : seen[i] # ERROR =>
        /\ seen[i] < broken /\ seen[i] # GARBAGE
        /\ \A j \in 1 .. i - 1 : seen[j] # ERROR => seen[j] < seen[i]

\* The error that ends a session comes once, after the frames that were
\* queued before it, and is not lost if the queue is full.
ErrorIsLast ==
    LET seen == delivered \o inbox
    IN /\ \A i \in DOMAIN seen : seen[i] = ERROR => i = Len(seen)
       /\ worker = "ended" => seen # <<>> /\ seen[Len(seen)] = ERROR

\* The stream carries the accepted frames, whole and in order; only the last
\* one may be incomplete, and then nothing is written any more.
WireIsWhole ==
    \A i \in DOMAIN written : written[i] = (i + 1) \div 2

\* Both directions of a session carry whole datagrams in order, and its error
\* comes last.
SessionIsWhole == FramesAreWhole /\ ErrorIsLast /\ WireIsWhole
=============================================================================
