------------------------------ MODULE Forward ------------------------------
(***************************************************************************)
(* One exchange of a plain HTTP proxy connection (forward_http and what it *)
(* calls in src/src/runtime.rs): the request's header and body are copied  *)
(* upstream while the response is copied back, in one task that polls the  *)
(* closing of the upstream, the upload and the download in this order.     *)
(*                                                                         *)
(* A body is a sequence of items: "data" under Content-Length, "chunk" and *)
(* a terminal "end" under chunked framing, where "bad" is a terminal chunk *)
(* whose trailers are forbidden.  What follows the request's body is the   *)
(* client's next request.                                                  *)
(***************************************************************************)
EXTENDS Integers, Sequences

CONSTANTS
    Requests,     \* requests clients send: see ValidRequest
    BodyLimit,    \* items a chunked request may have (16 MiB)
    InterimLimit, \* interim responses (16)
    ReplyItems    \* bound: items of a response

ASSUME ExchangeAssumption == \A r \in Requests : r.items \in Nat
ASSUME ExchangeLimits == BodyLimit \in Nat /\ InterimLimit \in Nat /\ ReplyItems \in Nat

VARIABLES
    request,  \* what the client sends
    whole,    \* "never": an outbound with half-close; else whether it was closed
    client,   \* offered: items of the body sent; eof: it sends no more
    up,       \* the upload: pc and items taken from the client
    wire,     \* written upstream; flushed: how much of it the server can see
    flushed,
    reply,    \* the server's response: items sent, framing, eof
    down,     \* the download: pc, items read, interim responses
    got,      \* items the client received
    result    \* of forward_http

forwardVars == <<request, whole, client, up, wire, flushed, reply, down, got, result>>

Items(n, item) == [i \in 1 .. n |-> item]

\* The framing that http_request accepts; a request that fails is answered
\* 400 and the connection is closed.
ValidRequest(r) ==
    /\ r.chunked => r.version = 1 /\ ~r.length
    /\ r.expect => r.version = 1
    /\ r.trailers => r.chunked
    /\ r.version = 1 => r.host

KeepAlive(r) == r.connection # "close" /\ (r.version = 1 \/ r.connection = "keep-alive")

Body ==
    IF request.chunked THEN Append(Items(request.items, "chunk"), IF request.forbidden THEN "bad" ELSE "end")
    ELSE IF request.length THEN Items(request.items, "data") ELSE <<>>

ForwardInit ==
    /\ request \in Requests
    /\ whole \in {"never", "open"}
    /\ client = [offered |-> 0, eof |-> FALSE]
    /\ up = [pc |-> "header", taken |-> 0]
    /\ wire = <<>> /\ flushed = 0
    /\ reply = [sent |-> <<>>, framing |-> "none", length |-> 0, eof |-> FALSE]
    /\ down = [pc |-> "header", read |-> 0, interim |-> 0]
    /\ got = <<>>
    /\ result = IF ValidRequest(request) THEN "running" ELSE "refused"

\* The download is over.
Ends(outcome) == down' = [down EXCEPT !.pc = "over"] /\ result' = outcome
-----------------------------------------------------------------------------
(* The client, and the server at the other end of the outbound. *)

ClientSends ==
    /\ result = "running" /\ ~client.eof /\ client.offered < Len(Body)
    /\ request.expect => got # <<>>
    /\ client' = [client EXCEPT !.offered = @ + 1]
    /\ UNCHANGED <<request, whole, up, wire, flushed, reply, down, got, result>>

ClientLeaves ==
    /\ result = "running" /\ ~client.eof
    /\ client' = [client EXCEPT !.eof = TRUE]
    /\ UNCHANGED <<request, whole, up, wire, flushed, reply, down, got, result>>

Server(change) ==
    /\ result = "running" /\ ~reply.eof
    /\ reply' = change
    /\ UNCHANGED <<request, whole, client, up, wire, flushed, down, got, result>>

ServerInterim ==
    /\ reply.framing = "none" /\ Len(reply.sent) < InterimLimit /\ flushed > 0
    /\ Server([reply EXCEPT !.sent = Append(@, "interim")])

\* The server may answer before it has seen the body.
ServerFinal(framing, length) ==
    /\ reply.framing = "none" /\ flushed > 0
    /\ Server([reply EXCEPT !.sent = Append(@, "final"), !.framing = framing,
                            !.length = IF framing = "length" THEN length ELSE 0])

\* The place of the final header in a response.
Place(sent) ==
    LET finals == {i \in DOMAIN sent : sent[i] = "final"}
    IN IF finals = {} THEN 0 ELSE CHOOSE i \in finals : TRUE

Final == Place(reply.sent)
SentItems == IF Final = 0 THEN 0 ELSE Len(reply.sent) - Final
Terminated == reply.sent # <<>> /\ reply.sent[Len(reply.sent)] \in {"end", "bad"}

ServerItem(item) ==
    /\ CASE reply.framing = "length" -> item = "data" /\ SentItems < reply.length
         [] reply.framing = "chunked" -> item # "data" /\ SentItems < ReplyItems /\ ~Terminated
         [] reply.framing = "close" -> item = "data" /\ SentItems < ReplyItems
         [] OTHER -> FALSE
    /\ Server([reply EXCEPT !.sent = Append(@, item)])

ServerCloses == Server([reply EXCEPT !.eof = TRUE])
-----------------------------------------------------------------------------
(* The upload: copy_exact or copy_chunked towards the upstream. *)

\* The select is biased: once the outbound is closed the upload is dropped.
Polled == whole # "closed"

\* Buffered outbounds are flushed before the body is waited for.
ExposedHeader == 1

UploadHeader ==
    /\ result = "running" /\ up.pc = "header" /\ Polled
    /\ wire' = <<"header">> /\ flushed' = ExposedHeader
    /\ up' = [up EXCEPT !.pc = "body"]
    /\ UNCHANGED <<request, whole, client, reply, down, got, result>>

Fails ==
    /\ Ends("error")
    /\ UNCHANGED <<request, whole, client, up, wire, flushed, reply, got>>

Takes(item, visible) ==
    /\ wire' = Append(wire, item)
    /\ flushed' = IF visible THEN Len(wire') ELSE flushed
    /\ up' = [up EXCEPT !.taken = @ + 1]
    /\ UNCHANGED <<request, whole, client, reply, down, got, result>>

\* Mutant of Terminal: the terminal chunk is passed on before its trailers
\* have been read.
TerminalFirst(item) ==
    /\ wire' = Append(wire, "end") /\ flushed' = Len(wire')
    /\ IF item = "bad" THEN Ends("error") /\ UNCHANGED up
       ELSE up' = [up EXCEPT !.taken = @ + 1] /\ UNCHANGED <<down, result>>
    /\ UNCHANGED <<request, whole, client, reply, got>>

\* All trailers are validated before the terminal chunk is passed on.
Terminal(item) == IF item = "bad" THEN Fails ELSE Takes(item, FALSE)

\* The next item of the body has been received.  copy flushes when it has to
\* wait for the client, copy_chunked after every chunk.
UploadItem ==
    LET item == Body[up.taken + 1]
    IN /\ result = "running" /\ up.pc = "body" /\ Polled
       /\ up.taken < client.offered
       /\ CASE item = "data" -> Takes(item, up.taken + 1 = client.offered)
            [] item = "chunk" -> IF up.taken + 1 > BodyLimit THEN Fails ELSE Takes(item, TRUE)
            [] OTHER -> Terminal(item)

\* The client leaves before the declared body is complete.
UploadTruncated ==
    /\ result = "running" /\ up.pc = "body" /\ Polled
    /\ client.eof /\ up.taken = client.offered /\ up.taken < Len(Body)
    /\ Fails

\* The upstream accepts no more; its end may not have been read yet.
UploadRefused ==
    /\ result = "running" /\ Polled
    /\ up.pc = "header" \/ (up.pc = "body" /\ up.taken < client.offered)
    /\ reply.eof
    /\ Fails

UploadDone ==
    /\ result = "running" /\ up.pc = "body" /\ Polled
    /\ up.taken = Len(Body)
    /\ up' = [up EXCEPT !.pc = "done"]
    /\ flushed' = Len(wire)
    /\ UNCHANGED <<request, whole, client, wire, reply, down, got, result>>

\* The outbound's end was read by the download; the upload is dropped, unless
\* it is complete and the signal is no longer looked at.
WholeClosed ==
    /\ result = "running" /\ whole = "open" /\ reply.eof /\ up.pc # "done"
    /\ whole' = "closed"
    /\ UNCHANGED <<request, client, up, wire, flushed, reply, down, got, result>>
-----------------------------------------------------------------------------
(* The download: forward_response. *)

Empty == request.head \/ reply.framing = "empty"
Persistent == KeepAlive(request) /\ (Empty \/ reply.framing \in {"length", "chunked"})

\* Mutant of Outcome: an early response is treated like any other.
OutcomeOfResponse == IF Persistent THEN "reuse" ELSE "close"

\* The response is complete.  Only a complete upload lets the connection be
\* used again: an unread body must not be parsed as the next request.
Outcome == IF up.pc = "done" /\ Persistent THEN "reuse" ELSE "close"

Receive ==
    /\ got' = Append(got, reply.sent[down.read + 1])
    /\ UNCHANGED <<request, whole, client, up, wire, flushed, reply>>

Available == result = "running" /\ down.read < Len(reply.sent)

DownloadHeader ==
    /\ Available /\ down.pc = "header"
    /\ IF reply.sent[down.read + 1] = "interim"
       THEN /\ Receive
            /\ IF down.interim + 1 = InterimLimit THEN Ends("error")
               ELSE /\ down' = [down EXCEPT !.read = @ + 1, !.interim = @ + 1]
                    /\ UNCHANGED result
       ELSE IF reply.framing = "invalid" THEN Fails
       ELSE /\ Receive
            /\ IF Empty \/ (reply.framing = "length" /\ reply.length = 0) THEN Ends(Outcome)
               ELSE down' = [down EXCEPT !.pc = "body", !.read = @ + 1] /\ UNCHANGED result

\* Items of the body the client has got.
Copied == down.read - Final

DownloadItem ==
    LET item == reply.sent[down.read + 1]
    IN /\ Available /\ down.pc = "body"
       /\ IF item = "bad" THEN Fails
          ELSE /\ Receive
               /\ IF item = "end" \/ (reply.framing = "length" /\ Copied + 1 = reply.length)
                  THEN Ends(Outcome)
                  ELSE down' = [down EXCEPT !.read = @ + 1] /\ UNCHANGED result

\* The upstream ends while a response is read.
AtEnd == IF down.pc = "body" /\ reply.framing = "close" THEN Outcome ELSE "error"

DownloadEnds ==
    /\ result = "running" /\ reply.eof /\ down.read = Len(reply.sent)
    /\ Ends(AtEnd)
    /\ UNCHANGED <<request, whole, client, up, wire, flushed, reply, got>>

\* The client is gone and cannot be written to.
DownloadRefused ==
    /\ Available /\ client.eof
    /\ Fails

\* Nothing moved in either direction for IDLE_TIMEOUT.
IdleExpires ==
    /\ result = "running"
    /\ Ends("idle")
    /\ UNCHANGED <<request, whole, client, up, wire, flushed, reply, got>>

ForwardNext ==
    \/ ClientSends \/ ClientLeaves
    \/ ServerInterim \/ ServerCloses
    \/ (\E framing \in {"empty", "length", "chunked", "close", "invalid"}, length \in 0 .. ReplyItems :
            ServerFinal(framing, length))
    \/ (\E item \in {"data", "chunk", "end", "bad"} : ServerItem(item))
    \/ UploadHeader \/ UploadItem \/ UploadTruncated \/ UploadRefused \/ UploadDone \/ WholeClosed
    \/ DownloadHeader \/ DownloadItem \/ DownloadEnds \/ DownloadRefused
    \/ IdleExpires

ForwardSpec == ForwardInit /\ [][ForwardNext]_forwardVars
-----------------------------------------------------------------------------
(* Properties. *)

\* When the connection is used for another request, the proxy has read the
\* body of this one to its end, and the client the response: what is parsed
\* next is a request, not the rest of a body whose upload an early response or
\* a closing upstream cut short.
ReuseIsClean ==
    result = "reuse" =>
        /\ up.taken = Len(Body)
        /\ Empty \/ (got = reply.sent /\ reply.framing \in {"length", "chunked"})

\* What the server sees is a prefix of what the client sent: it never gets the
\* end of a body that the client cut short, whose trailers are forbidden or
\* that is larger than the limit.
UploadIsPrefix ==
    /\ Len(wire) <= Len(Body) + 1 /\ wire = SubSeq(<<"header">> \o Body, 1, Len(wire))
    /\ request.chunked => Len(wire) <= BodyLimit + 2

\* A response that the server did not complete is an error of the connection,
\* never a success, unless its end is the end of the connection.
TruncationIsError ==
    (result \in {"reuse", "close"} /\ ~request.head) =>
        CASE reply.framing = "length" -> SentItems = reply.length
          [] reply.framing = "chunked" -> Terminated
          [] OTHER -> reply.framing \in {"empty", "close"}

\* A complete response that was received before the outbound closed reaches
\* the client although the upload can no longer be written.
ReceivedIsDelivered ==
    (whole = "closed" /\ result = "error" /\ ~client.eof /\ down.interim + 1 < InterimLimit) =>
        \/ reply.framing \in {"none", "invalid"}
        \/ reply.framing = "length" /\ SentItems < reply.length
        \/ reply.framing = "chunked" /\ reply.sent[Len(reply.sent)] # "end"

\* While the proxy waits for the client, nothing it has written is withheld
\* from the server: a client that waits for 100-continue and a server that
\* waits for the header do not wait for each other.
NothingWithheld ==
    (up.pc = "body" /\ up.taken = client.offered /\ up.taken < Len(Body)) => flushed = Len(wire)

\* Each side sees of the other's message what was sent, as far as it was sent,
\* and learns when that was not all of it.
ExchangeIsHonest == UploadIsPrefix /\ TruncationIsError /\ ReceivedIsDelivered /\ NothingWithheld
=============================================================================
