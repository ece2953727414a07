---------------------------- MODULE StreamProofs ----------------------------
(***************************************************************************)
(* The exchange of one request through the HTTP front (Forward) and the    *)
(* transports under a proxy protocol (Transport) add, lose and reorder     *)
(* nothing, for every request, limit, response length and unit size.       *)
(* ForwardInv relates the upload and the download to what each side has    *)
(* sent; TransportInv carries what is pending with what was acknowledged,  *)
(* and the place of the last byte read by its record, its unit and its     *)
(* position in the unit.                                                   *)
(***************************************************************************)
EXTENDS Forward, Transport, TLAPS

(* One HTTP exchange. *)

ReplyItem == {"interim", "final", "data", "chunk", "end", "bad"}
Framings == {"none", "empty", "length", "chunked", "close", "invalid"}
Replies == [sent : Seq(ReplyItem), framing : Framings, length : Nat, eof : BOOLEAN]
Uploads == [pc : {"header", "body", "done"}, taken : Nat]
Downloads == [pc : {"header", "body", "over"}, read : Nat, interim : Nat]

ForwardTypeOK ==
    /\ request.items \in Nat
    /\ whole \in {"never", "open", "closed"}
    /\ client \in [offered : Nat, eof : BOOLEAN]
    /\ up \in Uploads
    /\ wire \in Seq({"header", "data", "chunk", "end", "bad"})
    /\ reply \in Replies
    /\ down \in Downloads
    /\ got \in Seq(ReplyItem)
    /\ result \in {"refused", "running", "reuse", "close", "error", "idle"}

\* The upload has written the header and the items it has taken.
UploadInv ==
    /\ up.taken <= client.offered /\ client.offered <= Len(Body)
    /\ up.pc = "header" => up.taken = 0 /\ wire = <<>>
    /\ up.pc # "header" =>
        /\ Len(wire) = up.taken + 1 /\ wire[1] = "header"
        /\ \A i \in 1 .. up.taken : wire[i + 1] = Body[i]
    /\ up.pc = "done" => up.taken = Len(Body)
    /\ request.chunked =>
        \/ up.taken <= BodyLimit
        \/ up.taken = request.items + 1 /\ up.taken = BodyLimit + 1
    /\ NothingWithheld

\* What may follow the final response header.
Following(framing) ==
    CASE framing \in {"length", "close"} -> {"data"}
      [] framing = "chunked" -> {"chunk", "end", "bad"}
      [] OTHER -> {}

\* The server's response r, whose final header is at f, is framed as declared.
Framed(r, f) ==
    /\ f \in 1 .. Len(r.sent) /\ r.sent[f] = "final"
    /\ \A i \in 1 .. Len(r.sent) :
        /\ i < f => r.sent[i] = "interim"
        /\ i > f => r.sent[i] \in Following(r.framing)
        /\ r.sent[i] \in {"end", "bad"} => i = Len(r.sent)
    /\ r.framing = "length" => Len(r.sent) - f <= r.length

ReplyInv ==
    IF reply.framing = "none" THEN \A i \in 1 .. Len(reply.sent) : reply.sent[i] = "interim"
    ELSE Framed(reply, Final)

\* Where the download d is in the response r, whose final header is at f.
At(d, r, f) ==
    CASE d.pc = "header" -> r.framing = "none" \/ d.read < f
      [] d.pc = "body" ->
            /\ r.framing \in {"length", "chunked", "close"} /\ ~request.head
            /\ f <= d.read
            /\ r.framing = "length" => d.read - f < r.length
            /\ \A i \in 1 .. d.read : r.sent[i] \notin {"end", "bad"}
      [] OTHER -> FALSE

DownloadInv ==
    result = "running" =>
        /\ down.read <= Len(reply.sent) /\ Len(got) = down.read
        /\ \A i \in 1 .. down.read : got[i] = reply.sent[i]
        /\ At(down, reply, Final)

OutcomeInv == ReuseIsClean /\ TruncationIsError /\ ReceivedIsDelivered

ForwardInv == ForwardTypeOK /\ UploadInv /\ ReplyInv /\ DownloadInv /\ OutcomeInv
-----------------------------------------------------------------------------
\* The body of a request: its terminal chunk is its last item, and the only
\* one that is neither data nor a chunk.
LEMMA BodyFacts ==
    ASSUME request.items \in Nat
    PROVE  /\ Body \in Seq({"data", "chunk", "end", "bad"})
           /\ request.chunked => Len(Body) = request.items + 1
           /\ \A i \in 1 .. Len(Body) :
                /\ Body[i] = "data" => ~request.chunked
                /\ Body[i] = "chunk" => i <= request.items
                /\ Body[i] \notin {"data", "chunk"} => i = Len(Body)
<1> DEFINE chunks == Items(request.items, "chunk")
           last == IF request.forbidden THEN "bad" ELSE "end"
<1>1. CASE request.chunked
  <2>1. chunks \in Seq({"data", "chunk", "end", "bad"}) /\ Len(chunks) = request.items
        /\ \A i \in 1 .. request.items : chunks[i] = "chunk"
    BY DEF Items
  <2>2. Body = Append(chunks, last)
    BY <1>1, Zenon DEF Body
  <2>3. last \in {"bad", "end"}
    BY Zenon
  <2> HIDE DEF chunks, last
  <2> QED BY <1>1, <2>1, <2>2, <2>3
<1>2. CASE ~request.chunked
  <2>1. Body = (IF request.length THEN Items(request.items, "data") ELSE <<>>)
    BY <1>2, Zenon DEF Body
  <2>2. CASE request.length
    BY <1>2, <2>1, <2>2 DEF Items
  <2>3. CASE ~request.length
    BY <1>2, <2>1, <2>3
  <2> QED BY <2>2, <2>3
<1> QED BY <1>1, <1>2

\* What an item at the end of a sequence changes.
LEMMA Appended ==
    ASSUME NEW S, NEW s \in Seq(S), NEW item \in S
    PROVE  /\ Append(s, item) \in Seq(S)
           /\ Len(Append(s, item)) = Len(s) + 1 /\ Append(s, item)[Len(s) + 1] = item
           /\ \A i \in 1 .. Len(s) : Append(s, item)[i] = s[i]
OBVIOUS

\* Sequences with the same items are the same.
LEMMA SameItems ==
    ASSUME NEW S, NEW s \in Seq(S), NEW t \in Seq(S), Len(s) = Len(t),
           \A i \in 1 .. Len(t) : s[i] = t[i]
    PROVE  s = t
OBVIOUS

\* The download after one more item.
LEMMA Advanced ==
    ASSUME NEW d \in Downloads
    PROVE  /\ LET e == [d EXCEPT !.read = @ + 1]
              IN e \in Downloads /\ e.read = d.read + 1 /\ e.pc = d.pc
           /\ LET e == [d EXCEPT !.pc = "body", !.read = @ + 1]
              IN e \in Downloads /\ e.read = d.read + 1 /\ e.pc = "body"
           /\ LET e == [d EXCEPT !.read = @ + 1, !.interim = @ + 1]
              IN e \in Downloads /\ e.read = d.read + 1 /\ e.pc = d.pc
<1>0. d.read + 1 \in Nat /\ d.interim + 1 \in Nat
  BY DEF Downloads
<1> QED BY Zenon, <1>0 DEF Downloads

\* The only final header is the one SentItems counts from.
LEMMA PlaceIs ==
    ASSUME NEW seq \in Seq(ReplyItem), NEW f \in 1 .. Len(seq), seq[f] = "final",
           \A i \in 1 .. Len(seq) : seq[i] = "final" => i = f
    PROVE  Place(seq) = f
<1>1. {i \in DOMAIN seq : seq[i] = "final"} = {f}
  OBVIOUS
<1> QED BY <1>1, Zenon DEF Place

\* A response that is framed has its final header where Framed says.
LEMMA FramedPlace ==
    ASSUME NEW r \in Replies, NEW f \in Nat, Framed(r, f)
    PROVE  Place(r.sent) = f
<1>1. r.sent \in Seq(ReplyItem)
  BY DEF Replies
<1>2. \A i \in 1 .. Len(r.sent) : r.sent[i] = "final" => i = f
  BY DEF Framed, Following
<1> QED BY <1>1, <1>2, PlaceIs DEF Framed

\* A step that leaves the request and the response alone leaves what is
\* computed from them alone.
LEMMA SameReply ==
    ASSUME UNCHANGED <<request, reply>>
    PROVE  /\ Body' = Body /\ Final' = Final /\ SentItems' = SentItems
           /\ Terminated' = Terminated /\ Empty' = Empty
           /\ ReplyInv => ReplyInv'
<1>1. Final' = Final
  BY DEF Final
<1>2. Body' = Body /\ Terminated' = Terminated /\ Empty' = Empty
  BY DEF Body, Terminated, Empty
<1>3. SentItems' = SentItems
  BY <1>1 DEF SentItems
<1>4. ReplyInv => ReplyInv'
  BY <1>1 DEF ReplyInv, Framed
<1> QED BY <1>1, <1>2, <1>3, <1>4

\* The download stays where it is.
LEMMA SameDownload ==
    ASSUME UNCHANGED <<request, reply, down, got, result>>, DownloadInv
    PROVE  DownloadInv'
BY SameReply DEF DownloadInv, At

\* The upload stays where it is.
LEMMA SameUpload ==
    ASSUME UNCHANGED <<request, client, up, wire, flushed>>, UploadInv
    PROVE  UploadInv'
<1>1. Body' = Body
  BY DEF Body
<1> QED BY <1>1 DEF UploadInv, NothingWithheld

\* While the exchange runs nothing is claimed of its outcome.
LEMMA Unfinished == result' = "running" => OutcomeInv'
BY DEF OutcomeInv, ReuseIsClean, TruncationIsError, ReceivedIsDelivered

\* The client sends an item of the body, or leaves.
LEMMA ClientKeeps ==
    ASSUME ForwardInv, ClientSends \/ ClientLeaves
    PROVE  ForwardInv'
<1>0. /\ ForwardTypeOK /\ UploadInv /\ ReplyInv /\ DownloadInv
      /\ result = "running" /\ UNCHANGED <<request, whole, up, wire, flushed, reply, down, got, result>>
  BY Zenon DEF ForwardInv, ClientSends, ClientLeaves
<1>1. Body' = Body /\ Len(Body) \in Nat
  BY <1>0, SameReply, BodyFacts DEF ForwardTypeOK
<1>2. /\ client' \in [offered : Nat, eof : BOOLEAN]
      /\ client'.offered <= Len(Body)
      /\ client'.offered = client.offered \/ client'.offered = client.offered + 1
  <2>1. CASE ClientSends
    BY <1>0, <1>1, <2>1 DEF ClientSends, ForwardTypeOK
  <2>2. CASE ClientLeaves
    BY Zenon, <1>0, <1>1, <2>2 DEF ClientLeaves, ForwardTypeOK, UploadInv
  <2> QED BY <2>1, <2>2
<1>3. ForwardTypeOK'
  BY <1>0, <1>2 DEF ForwardTypeOK
<1>4. UploadInv'
  <2>1. up.taken <= client.offered /\ up.taken \in Nat /\ client.offered \in Nat
    BY <1>0 DEF UploadInv, ForwardTypeOK, Uploads
  <2>2. NothingWithheld'
    BY <1>0, <1>1, <1>2, <2>1 DEF NothingWithheld, UploadInv
  <2> QED BY <1>0, <1>1, <1>2, <2>1, <2>2 DEF UploadInv
<1>5. ReplyInv' /\ DownloadInv' /\ OutcomeInv'
  BY <1>0, SameReply, SameDownload, Unfinished
<1> QED BY <1>3, <1>4, <1>5 DEF ForwardInv

\* What a step of the server keeps, once its response is still framed and the
\* part that was read is still there.
LEMMA ServerKeeps ==
    ASSUME ForwardInv, NEW r \in Replies, Server(r),
           ReplyInv',
           Len(reply.sent) <= Len(r.sent),
           \A i \in 1 .. Len(reply.sent) : r.sent[i] = reply.sent[i],
           \/ Final' = Final /\ r.framing = reply.framing /\ r.length = reply.length
           \/ reply.framing = "none" /\ Final' = Len(reply.sent) + 1
    PROVE  ForwardInv'
<1>0. /\ ForwardTypeOK /\ UploadInv /\ DownloadInv
      /\ result = "running" /\ UNCHANGED <<request, whole, client, up, wire, flushed, down, got, result>>
      /\ reply' = r
  BY Zenon DEF ForwardInv, Server
<1>1. ForwardTypeOK'
  BY <1>0 DEF ForwardTypeOK
<1>2. UploadInv' /\ OutcomeInv'
  BY <1>0, SameUpload, Unfinished
<1>3. /\ down.read <= Len(reply.sent) /\ Len(got) = down.read
      /\ \A i \in 1 .. down.read : got[i] = reply.sent[i]
      /\ At(down, reply, Final)
      /\ down.read \in Nat /\ Len(reply.sent) \in Nat /\ Len(r.sent) \in Nat
  BY <1>0 DEF DownloadInv, ForwardTypeOK, Downloads, Replies
<1>4. \A i \in 1 .. down.read : r.sent[i] = reply.sent[i]
  BY <1>3
<1>5. At(down, r, Final')
  BY <1>3, <1>4 DEF At
<1>6. DownloadInv'
  BY <1>0, <1>3, <1>4, <1>5 DEF DownloadInv, At
<1> QED BY <1>1, <1>2, <1>6 DEF ForwardInv

\* The server answers, continues its response or closes.
LEMMA ReplyKeeps ==
    ASSUME ForwardInv,
           \/ ServerInterim \/ ServerCloses
           \/ (\E framing \in {"empty", "length", "chunked", "close", "invalid"},
                  length \in 0 .. ReplyItems : ServerFinal(framing, length))
           \/ (\E item \in {"data", "chunk", "end", "bad"} : ServerItem(item))
    PROVE  ForwardInv'
<1> DEFINE sent == reply.sent
           n == Len(sent)
<1>0. reply \in Replies /\ sent \in Seq(ReplyItem) /\ n \in Nat /\ reply.length \in Nat /\ ReplyInv
  BY DEF ForwardInv, ForwardTypeOK, Replies
<1>a. \A item : /\ Len(Append(sent, item)) = n + 1 /\ Append(sent, item)[n + 1] = item
                /\ \A i \in 1 .. n : Append(sent, item)[i] = sent[i]
                /\ item \in ReplyItem => Append(sent, item) \in Seq(ReplyItem)
  BY <1>0
<1>1. CASE ServerInterim
  <2> DEFINE r == [reply EXCEPT !.sent = Append(@, "interim")]
  <2>1. Server(r) /\ reply.framing = "none" /\ reply' = r
    BY <1>1 DEF ServerInterim, Server
  <2>2. /\ r \in Replies /\ r.sent = Append(sent, "interim")
        /\ r.framing = reply.framing /\ r.length = reply.length
    BY Zenon, <1>0, <1>a DEF Replies, ReplyItem
  <2> HIDE DEF r
  <2>3. \A i \in 1 .. n : sent[i] = "interim"
    BY <1>0, <2>1 DEF ReplyInv
  <2>4. \A i \in 1 .. n + 1 : r.sent[i] = "interim"
    BY <1>0, <1>a, <2>2, <2>3
  <2>5. ReplyInv'
    BY <1>a, <2>1, <2>2, <2>4 DEF ReplyInv
  <2>6. Final = 0 /\ Final' = 0
    <3>1. Place(sent) = 0
      BY <2>3 DEF Place
    <3>2. Place(r.sent) = 0
      BY <1>a, <2>2, <2>4 DEF Place
    <3> QED BY <2>1, <3>1, <3>2 DEF Final
  <2>7. Len(sent) <= Len(r.sent) /\ \A i \in 1 .. Len(sent) : r.sent[i] = sent[i]
    <3>1. n <= n + 1
      BY <1>0
    <3> QED BY <1>a, <2>2, <3>1, Zenon
  <2> QED BY Zenon, <2>1, <2>2, <2>5, <2>6, <2>7, ServerKeeps
<1>2. CASE ServerCloses
  <2> DEFINE r == [reply EXCEPT !.eof = TRUE]
  <2>1. Server(r) /\ reply' = r
    BY <1>2 DEF ServerCloses, Server
  <2>2. r \in Replies /\ r.sent = sent /\ r.framing = reply.framing /\ r.length = reply.length
    BY Zenon, <1>0 DEF Replies
  <2> HIDE DEF r
  <2>3. Final' = Final
    BY <2>1, <2>2 DEF Final
  <2>4. ReplyInv'
    BY <1>0, <2>1, <2>2, <2>3 DEF ReplyInv, Framed
  <2> QED BY <1>0, <2>1, <2>2, <2>3, <2>4, ServerKeeps
<1>3. ASSUME NEW framing \in {"empty", "length", "chunked", "close", "invalid"},
             NEW length \in 0 .. ReplyItems, ServerFinal(framing, length)
      PROVE  ForwardInv'
  <2> DEFINE m == IF framing = "length" THEN length ELSE 0
             r == [reply EXCEPT !.sent = Append(@, "final"), !.framing = framing, !.length = m]
  <2>1. Server(r) /\ reply.framing = "none" /\ reply' = r
    BY Zenon, <1>3 DEF ServerFinal, Server
  <2>m. m \in Nat
    BY ExchangeLimits
  <2> HIDE DEF m
  <2>2. r \in Replies /\ r.sent = Append(sent, "final") /\ r.framing = framing
    BY Zenon, <1>0, <1>a, <2>m DEF Replies, ReplyItem, Framings
  <2>l. r.length \in Nat
    BY Zenon, <2>2 DEF Replies
  <2> HIDE DEF r
  <2>3. Framed(r, n + 1)
    <3>1. \A i \in 1 .. n : sent[i] = "interim"
      BY <1>0, <2>1 DEF ReplyInv
    <3> QED BY <1>0, <1>a, <2>2, <2>l, <3>1 DEF Framed
  <2>4. Final' = n + 1
    <3>1. Final' = Place(r.sent)
      BY <2>1 DEF Final
    <3>2. n + 1 \in Nat
      BY <1>0
    <3> QED BY <2>2, <2>3, <3>1, <3>2, FramedPlace, Zenon
  <2>5. ReplyInv'
    BY <2>1, <2>2, <2>3, <2>4 DEF ReplyInv
  <2>7. Len(sent) <= Len(r.sent) /\ \A i \in 1 .. Len(sent) : r.sent[i] = sent[i]
    <3>1. n <= n + 1
      BY <1>0
    <3>2. Len(r.sent) = n + 1 /\ \A i \in 1 .. n : r.sent[i] = sent[i]
      BY <1>a, <2>2
    <3> QED BY <3>1, <3>2, Zenon
  <2> QED BY Zenon, <2>1, <2>2, <2>4, <2>5, <2>7, ServerKeeps
<1>4. ASSUME NEW item \in {"data", "chunk", "end", "bad"}, ServerItem(item)
      PROVE  ForwardInv'
  <2> DEFINE r == [reply EXCEPT !.sent = Append(@, item)]
  <2>1. Server(r) /\ reply' = r
    BY <1>4 DEF ServerItem, Server
  <2>2. /\ r \in Replies /\ r.sent = Append(sent, item)
        /\ r.framing = reply.framing /\ r.length = reply.length
    BY Zenon, <1>0, <1>a DEF Replies, ReplyItem
  <2> HIDE DEF r
  <2>3. /\ reply.framing \in {"length", "chunked", "close"}
        /\ item \in Following(reply.framing)
        /\ reply.framing = "length" => SentItems < reply.length
        /\ reply.framing = "chunked" => ~Terminated
    BY <1>4 DEF ServerItem, Following
  <2>4. Framed(reply, Final) /\ Final \in 1 .. n
    BY <1>0, <2>3 DEF ReplyInv, Framed
  <2>5. \A i \in 1 .. n : sent[i] \notin {"end", "bad"}
    BY <1>0, <2>3, <2>4 DEF Framed, Following, Terminated
  <2>6. reply.framing = "length" => n + 1 - Final <= reply.length
    BY <1>0, <2>3, <2>4 DEF SentItems
  <2>7. Framed(r, Final)
    BY <1>0, <1>a, <2>2, <2>3, <2>4, <2>5, <2>6 DEF Framed
  <2>8. Final' = Final
    <3>1. Final' = Place(r.sent)
      BY <2>1 DEF Final
    <3>2. Final \in Nat
      BY <1>0, <2>4
    <3> QED BY <2>2, <2>7, <3>1, <3>2, FramedPlace, Zenon
  <2>9. ReplyInv'
    BY <2>1, <2>2, <2>3, <2>7, <2>8 DEF ReplyInv
  <2> QED BY <1>0, <1>a, <2>1, <2>2, <2>8, <2>9, ServerKeeps
<1> QED BY <1>1, <1>2, <1>3, <1>4

\* An end of the exchange that claims nothing but an error or a timeout: an
\* error must not hide a response that the server completed.
LEMMA FailureKeeps ==
    ASSUME ForwardInv, result = "running", NEW outcome \in {"error", "idle"},
           Ends(outcome), UNCHANGED <<request, whole, client, up, wire, flushed, reply>>,
           got' \in Seq(ReplyItem),
           ReceivedIsDelivered'
    PROVE  ForwardInv'
<1>1. ForwardTypeOK /\ UploadInv /\ ReplyInv
  BY DEF ForwardInv
<1>2. down' \in Downloads /\ result' = outcome
  BY Zenon, <1>1 DEF Ends, ForwardTypeOK, Downloads
<1>3. ForwardTypeOK'
  BY <1>1, <1>2 DEF ForwardTypeOK
<1>4. UploadInv' /\ ReplyInv'
  BY <1>1, SameUpload, SameReply
<1>5. DownloadInv' /\ OutcomeInv'
  BY <1>2 DEF DownloadInv, OutcomeInv, ReuseIsClean, TruncationIsError
<1> QED BY <1>3, <1>4, <1>5 DEF ForwardInv

\* The upload moves on: what it takes is what the client sent.
LEMMA TakesKeeps ==
    ASSUME ForwardInv, result = "running", up.pc = "body", up.taken < client.offered,
           NEW visible \in BOOLEAN, Takes(Body[up.taken + 1], visible),
           request.chunked =>
              \/ up.taken + 1 <= BodyLimit
              \/ up.taken + 1 = Len(Body),
           visible \/ up.taken + 1 = Len(Body) \/ up.taken + 1 # client.offered
    PROVE  ForwardInv'
<1> DEFINE item == Body[up.taken + 1]
           n == up.taken
<1>0. /\ ForwardTypeOK /\ UploadInv /\ ReplyInv /\ DownloadInv
      /\ UNCHANGED <<request, whole, client, reply, down, got, result>>
      /\ wire' = Append(wire, item) /\ up' = [up EXCEPT !.taken = @ + 1]
      /\ flushed' = IF visible THEN Len(wire') ELSE flushed
  BY Zenon DEF ForwardInv, Takes
<1>1. /\ n \in Nat /\ client.offered \in Nat /\ n + 1 <= client.offered /\ client.offered <= Len(Body)
      /\ Len(wire) = n + 1 /\ wire[1] = "header" /\ \A i \in 1 .. n : wire[i + 1] = Body[i]
      /\ up' \in Uploads /\ up'.pc = "body" /\ up'.taken = n + 1
  BY <1>0 DEF UploadInv, ForwardTypeOK, Uploads
<1>2. /\ Body' = Body /\ Len(Body) \in Nat /\ item \in {"data", "chunk", "end", "bad"}
      /\ request.chunked => Len(Body) = request.items + 1
  BY SMTT(60), <1>0, <1>1, SameReply, BodyFacts DEF ForwardTypeOK
<1> HIDE DEF item
<1>w. wire \in Seq({"header", "data", "chunk", "end", "bad"}) /\ request.items \in Nat /\ BodyLimit \in Nat
  BY <1>0, ExchangeLimits DEF ForwardTypeOK
<1>3. /\ wire' \in Seq({"header", "data", "chunk", "end", "bad"})
      /\ Len(wire') = n + 2 /\ wire'[1] = "header"
      /\ \A i \in 1 .. n : wire'[i + 1] = Body[i]
      /\ wire'[n + 2] = item
  <2>1. /\ wire' \in Seq({"header", "data", "chunk", "end", "bad"})
        /\ Len(wire') = Len(wire) + 1 /\ wire'[Len(wire) + 1] = item
        /\ \A i \in 1 .. Len(wire) : wire'[i] = wire[i]
    BY <1>0, <1>2, <1>w, Appended
  <2>2. n + 1 + 1 = n + 2 /\ 1 \in 1 .. n + 1 /\ \A i \in 1 .. n : i + 1 \in 1 .. n + 1
    BY <1>1
  <2> HIDE DEF n
  <2>3. Len(wire') = n + 2 /\ wire'[n + 2] = item /\ wire'[1] = "header"
    BY <1>1, <2>1, <2>2, Zenon
  <2>4. \A i \in 1 .. n : wire'[i + 1] = Body[i]
    BY <1>1, <2>1, <2>2, Zenon
  <2> QED BY <2>1, <2>3, <2>4
<1>4. \A i \in 1 .. n + 1 : wire'[i + 1] = Body[i]
  BY <1>1, <1>3 DEF item
<1>5. ForwardTypeOK'
  BY <1>0, <1>1, <1>3 DEF ForwardTypeOK
<1>6. NothingWithheld'
  BY <1>0, <1>1, <1>2, <1>3 DEF NothingWithheld
<1>7. request.chunked => n <= BodyLimit
  BY <1>0, <1>1, <1>2, <1>w DEF UploadInv
<1>c. request.chunked =>
        \/ n + 1 <= BodyLimit
        \/ n + 1 = request.items + 1 /\ n + 1 = BodyLimit + 1
  BY SMTT(60), <1>1, <1>2, <1>7, <1>w
<1>8. UploadInv'
  <2>1. up'.taken <= client'.offered /\ client'.offered <= Len(Body') /\ up'.pc = "body"
    BY Zenon, <1>0, <1>1, <1>2
  <2>2. Len(wire') = up'.taken + 1 /\ \A i \in 1 .. up'.taken : wire'[i + 1] = Body'[i]
    BY <1>1, <1>2, <1>3, <1>4
  <2>3. request'.chunked =>
          \/ up'.taken <= BodyLimit
          \/ up'.taken = request'.items + 1 /\ up'.taken = BodyLimit + 1
    BY <1>0, <1>1, <1>c
  <2> QED BY <1>3, <1>6, <2>1, <2>2, <2>3 DEF UploadInv
<1>9. ReplyInv' /\ DownloadInv' /\ OutcomeInv'
  BY Zenon, <1>0, SameReply, SameDownload, Unfinished
<1> QED BY <1>5, <1>8, <1>9 DEF ForwardInv

\* A failure of the upload, which is polled only while the outbound is not
\* known to be closed, is no failure to deliver a response.
LEMMA UploadFails ==
    ASSUME ForwardInv, result = "running", Polled, Fails
    PROVE  ForwardInv'
BY FailureKeeps DEF Fails, Polled, ReceivedIsDelivered, ForwardInv, ForwardTypeOK

\* The steps of the upload.
LEMMA UploadKeeps ==
    ASSUME ForwardInv,
           UploadHeader \/ UploadItem \/ UploadTruncated \/ UploadRefused \/ UploadDone \/ WholeClosed
    PROVE  ForwardInv'
<1>0. /\ ForwardTypeOK /\ UploadInv /\ ReplyInv /\ DownloadInv /\ result = "running"
      /\ up \in Uploads /\ up.taken \in Nat /\ BodyLimit \in Nat /\ request.items \in Nat
      /\ client.offered \in Nat
      /\ wire \in Seq({"header", "data", "chunk", "end", "bad"})
  BY Zenon, ExchangeLimits DEF ForwardInv, ForwardTypeOK, Uploads, UploadHeader, UploadItem, UploadTruncated,
     UploadRefused, UploadDone, WholeClosed
<1>b. Len(Body) \in Nat
  BY <1>0, BodyFacts
<1>1. CASE UploadHeader
  <2>0. /\ UNCHANGED <<request, whole, client, reply, down, got, result>>
        /\ up.pc = "header" /\ up.taken = 0
        /\ wire' = <<"header">> /\ flushed' = 1 /\ up' = [up EXCEPT !.pc = "body"]
    BY <1>0, <1>1 DEF UploadHeader, ExposedHeader, UploadInv
  <2>1. up' \in Uploads /\ up'.pc = "body" /\ up'.taken = 0
    BY <1>0, <2>0 DEF Uploads
  <2>2. Len(wire') = 1 /\ wire'[1] = "header"
        /\ wire' \in Seq({"header", "data", "chunk", "end", "bad"})
    BY <2>0
  <2>3. Body' = Body
    BY <2>0, SameReply
  <2>4. ForwardTypeOK'
    BY <1>0, <2>0, <2>1, <2>2 DEF ForwardTypeOK
  <2>5. UploadInv'
    BY <1>0, <2>0, <2>1, <2>2, <2>3 DEF UploadInv, NothingWithheld
  <2>6. ReplyInv' /\ DownloadInv' /\ OutcomeInv'
    BY <1>0, <2>0, SameReply, SameDownload, Unfinished
  <2> QED BY <2>4, <2>5, <2>6 DEF ForwardInv
<1>2. CASE UploadItem
  <2> DEFINE item == Body[up.taken + 1]
  <2>0. /\ up.pc = "body" /\ Polled /\ up.taken < client.offered
        /\ up.taken + 1 \in 1 .. Len(Body)
    BY SMTT(60), <1>0, <1>b, <1>2 DEF UploadItem, UploadInv
  <2>1. CASE item = "data"
    <3>1. Takes(item, up.taken + 1 = client.offered)
      BY <1>2, <2>1, Zenon DEF UploadItem
    <3>2. ~request.chunked
      BY <1>0, <2>0, <2>1, BodyFacts
    <3>3. (up.taken + 1 = client.offered) \in BOOLEAN
      OBVIOUS
    <3> QED BY Zenon, <1>0, <2>0, <3>1, <3>2, <3>3, TakesKeeps
  <2>2. CASE item = "chunk"
    <3>1. IF up.taken + 1 > BodyLimit THEN Fails ELSE Takes(item, TRUE)
      BY Zenon, <1>2, <2>2 DEF UploadItem
    <3>2. CASE up.taken + 1 > BodyLimit
      BY Zenon, <1>0, <2>0, <3>1, <3>2, UploadFails
    <3>3. CASE ~(up.taken + 1 > BodyLimit)
      <4>1. Takes(item, TRUE)
        BY <3>1, <3>3, Zenon
      <4>2. up.taken + 1 <= BodyLimit
        BY <1>0, <3>3
      <4> QED BY Zenon, <1>0, <2>0, <4>1, <4>2, TakesKeeps
    <3> QED BY <3>2, <3>3
  <2>3. CASE item \notin {"data", "chunk"}
    <3>1. Terminal(item)
      BY Zenon, <1>2, <2>3 DEF UploadItem
    <3>2. up.taken + 1 = Len(Body)
      BY <1>0, <2>0, <2>3, BodyFacts
    <3>3. CASE item = "bad"
      BY <1>0, <2>0, <3>1, <3>3, UploadFails DEF Terminal
    <3>4. CASE item # "bad"
      <4>1. Takes(item, FALSE)
        BY <3>1, <3>4, Zenon DEF Terminal
      <4> QED BY Zenon, <1>0, <2>0, <3>2, <4>1, TakesKeeps
    <3> QED BY <3>3, <3>4
  <2> QED BY <2>1, <2>2, <2>3
<1>3. CASE UploadTruncated
  BY <1>0, <1>3, UploadFails DEF UploadTruncated
<1>4. CASE UploadRefused
  BY <1>0, <1>4, UploadFails DEF UploadRefused
<1>5. CASE UploadDone
  <2>0. /\ UNCHANGED <<request, whole, client, wire, reply, down, got, result>>
        /\ up.pc = "body" /\ up.taken = Len(Body) /\ up' = [up EXCEPT !.pc = "done"]
    BY <1>5 DEF UploadDone
  <2>1. up' \in Uploads /\ up'.pc = "done" /\ up'.taken = up.taken
    BY <1>0, <2>0 DEF Uploads
  <2>3. Body' = Body
    BY <2>0, SameReply
  <2>4. ForwardTypeOK'
    BY <1>0, <2>0, <2>1 DEF ForwardTypeOK
  <2>5. UploadInv'
    BY <1>0, <2>0, <2>1, <2>3 DEF UploadInv, NothingWithheld
  <2>6. ReplyInv' /\ DownloadInv' /\ OutcomeInv'
    BY <1>0, <2>0, SameReply, SameDownload, Unfinished
  <2> QED BY <2>4, <2>5, <2>6 DEF ForwardInv
<1>6. CASE WholeClosed
  <2>0. UNCHANGED <<request, client, up, wire, flushed, reply, down, got, result>> /\ whole' = "closed"
    BY <1>6 DEF WholeClosed
  <2>1. ForwardTypeOK'
    BY <1>0, <2>0 DEF ForwardTypeOK
  <2> QED BY <1>0, <2>0, <2>1, SameReply, SameUpload, SameDownload, Unfinished DEF ForwardInv
<1> QED BY Zenon, <1>1, <1>2, <1>3, <1>4, <1>5, <1>6

\* The client has received the items that were read, and one more.
LEMMA Received ==
    ASSUME ForwardInv, Available, Receive
    PROVE  /\ got' \in Seq(ReplyItem) /\ Len(got') = down.read + 1
           /\ down.read + 1 \in 1 .. Len(reply.sent)
           /\ \A i \in 1 .. down.read + 1 : got'[i] = reply.sent[i]
<1>0. /\ got \in Seq(ReplyItem) /\ reply.sent \in Seq(ReplyItem) /\ down.read \in Nat
      /\ Len(got) = down.read /\ down.read < Len(reply.sent)
      /\ \A i \in 1 .. down.read : got[i] = reply.sent[i]
  BY DEF ForwardInv, ForwardTypeOK, DownloadInv, Available, Replies, Downloads
<1>1. down.read + 1 \in 1 .. Len(reply.sent)
  BY <1>0
<1>2. reply.sent[down.read + 1] \in ReplyItem
  BY <1>0, <1>1
<1>3. /\ got' \in Seq(ReplyItem) /\ Len(got') = down.read + 1
      /\ got'[down.read + 1] = reply.sent[down.read + 1]
      /\ \A i \in 1 .. down.read : got'[i] = got[i]
  BY <1>0, <1>2, Appended DEF Receive
<1> QED BY SMTT(60), <1>0, <1>1, <1>3

\* The download moves on after an item.
LEMMA AdvanceKeeps ==
    ASSUME ForwardInv, Available, Receive, UNCHANGED result,
           down' \in Downloads, down'.read = down.read + 1, At(down', reply, Final)
    PROVE  ForwardInv'
<1>0. /\ ForwardTypeOK /\ UploadInv /\ ReplyInv /\ result = "running"
      /\ UNCHANGED <<request, whole, client, up, wire, flushed, reply>>
  BY Zenon DEF ForwardInv, Available, Receive
<1>1. ForwardTypeOK'
  BY <1>0, Received DEF ForwardTypeOK
<1>2. UploadInv' /\ ReplyInv' /\ OutcomeInv' /\ Final' = Final
  BY Zenon, <1>0, SameUpload, SameReply, Unfinished
<1>3. down'.read <= Len(reply.sent) /\ Len(got') = down'.read
      /\ \A i \in 1 .. down'.read : got'[i] = reply.sent[i]
  BY Received
<1>4. DownloadInv'
  BY <1>0, <1>2, <1>3 DEF DownloadInv, At
<1> QED BY <1>1, <1>2, <1>4 DEF ForwardInv

\* The exchange is over once the response is complete: the client has all of
\* it, and the connection is used again only if the upload is over as well.
LEMMA CompleteKeeps ==
    ASSUME ForwardInv, result = "running", Ends(Outcome), got' \in Seq(ReplyItem),
           UNCHANGED <<request, whole, client, up, wire, flushed, reply>>,
           reply.framing \in {"length", "chunked"} /\ ~Empty => got' = reply.sent,
           ~request.head =>
              CASE reply.framing = "length" -> SentItems = reply.length
                [] reply.framing = "chunked" -> Terminated
                [] OTHER -> reply.framing \in {"empty", "close"}
    PROVE  ForwardInv'
<1>0. ForwardTypeOK /\ UploadInv /\ ReplyInv
  BY DEF ForwardInv
<1>1. down' \in Downloads /\ result' = Outcome /\ Outcome \in {"reuse", "close"}
  BY Zenon, <1>0 DEF Ends, ForwardTypeOK, Downloads, Outcome
<1>2. ForwardTypeOK'
  BY <1>0, <1>1 DEF ForwardTypeOK
<1>3. UploadInv' /\ ReplyInv'
  BY <1>0, SameUpload, SameReply
<1>4. Body' = Body /\ SentItems' = SentItems /\ Terminated' = Terminated /\ Empty' = Empty
  BY SameReply
<1>5. DownloadInv' /\ ReceivedIsDelivered'
  BY <1>1 DEF DownloadInv, ReceivedIsDelivered
<1>6. TruncationIsError'
  BY <1>4 DEF TruncationIsError
<1>7. ReuseIsClean'
  <2>1. SUFFICES ASSUME Outcome = "reuse"
                 PROVE  /\ up.taken = Len(Body)
                        /\ Empty \/ (got' = reply.sent /\ reply.framing \in {"length", "chunked"})
    BY <1>1, <1>4 DEF ReuseIsClean
  <2>2. up.pc = "done" /\ Persistent
    BY <2>1 DEF Outcome
  <2> QED BY <1>0, <2>2 DEF UploadInv, Persistent
<1> QED BY <1>2, <1>3, <1>5, <1>6, <1>7 DEF ForwardInv, OutcomeInv

\* The steps of the download.
LEMMA DownloadKeeps ==
    ASSUME ForwardInv,
           DownloadHeader \/ DownloadItem \/ DownloadEnds \/ DownloadRefused \/ IdleExpires
    PROVE  ForwardInv'
<1> DEFINE n == down.read
           sent == reply.sent
           item == sent[n + 1]
<1>0. /\ ForwardTypeOK /\ ReplyInv /\ DownloadInv /\ result = "running"
      /\ reply \in Replies /\ sent \in Seq(ReplyItem) /\ Len(sent) \in Nat /\ reply.length \in Nat
      /\ down \in Downloads /\ n \in Nat /\ down.interim \in Nat /\ got \in Seq(ReplyItem)
      /\ n <= Len(sent) /\ At(down, reply, Final) /\ Len(got) = n
      /\ UNCHANGED <<request, whole, client, up, wire, flushed, reply>>
  <2>1. result = "running" /\ UNCHANGED <<request, whole, client, up, wire, flushed, reply>>
    BY Zenon DEF DownloadHeader, DownloadItem, DownloadEnds, DownloadRefused, IdleExpires, Available,
                 Receive, Fails
  <2> QED BY SMTT(60), <2>1 DEF ForwardInv, ForwardTypeOK, DownloadInv, Replies, Downloads
<1>r. SentItems' = SentItems /\ Final' = Final
  BY <1>0, SameReply
<1>f. reply.framing # "none" => Framed(reply, Final) /\ Final \in 1 .. Len(sent)
                                /\ SentItems = Len(sent) - Final
  BY <1>0 DEF ReplyInv, Framed, SentItems
<1>e. ASSUME ReceivedIsDelivered', Ends("error"), got' \in Seq(ReplyItem)
      PROVE  ForwardInv'
  BY <1>0, <1>e, FailureKeeps
<1>1. CASE DownloadHeader
  <2>0. Available /\ down.pc = "header" /\ n + 1 \in 1 .. Len(sent)
    BY <1>0, <1>1 DEF DownloadHeader, Available
  <2>1. CASE item = "interim"
    <3>1. Receive
      BY Zenon, <1>1, <2>1 DEF DownloadHeader
    <3>2. CASE down.interim + 1 = InterimLimit
      <4>1. Ends("error")
        BY Zenon, <1>1, <2>1, <3>2 DEF DownloadHeader
      <4>2. down'.interim = down.interim
        BY Zenon, <1>0, <4>1 DEF Ends, Downloads
      <4>3. ReceivedIsDelivered'
        BY <1>0, <3>2, <4>2 DEF ReceivedIsDelivered
      <4> QED BY <2>0, <3>1, <4>1, <4>3, <1>e, Received
    <3>3. CASE down.interim + 1 # InterimLimit
      <4>1. down' = [down EXCEPT !.read = @ + 1, !.interim = @ + 1] /\ UNCHANGED result
        BY Zenon, <1>1, <2>1, <3>3 DEF DownloadHeader
      <4>2. down' \in Downloads /\ down'.pc = "header" /\ down'.read = n + 1
        BY Zenon, <1>0, <2>0, <4>1, Advanced
      <4>3. reply.framing = "none" \/ n + 1 < Final
        BY SMTT(60), <1>0, <1>f, <2>0, <2>1 DEF At, Framed
      <4>4. At(down', reply, Final)
        BY <4>2, <4>3 DEF At
      <4> QED BY <2>0, <3>1, <4>1, <4>2, <4>4, AdvanceKeeps
    <3> QED BY <3>2, <3>3
  <2>2. CASE item # "interim"
    <3>0. reply.framing # "none" /\ n + 1 = Final
      BY SMTT(60), <1>0, <1>f, <2>0, <2>2 DEF At, Framed, ReplyInv
    <3>1. CASE reply.framing = "invalid"
      <4>1. Fails
        BY Zenon, <1>1, <2>2, <3>1 DEF DownloadHeader
      <4>2. ReceivedIsDelivered'
        BY Zenon, <1>0, <3>1 DEF ReceivedIsDelivered
      <4> QED BY <1>0, <4>1, <4>2, <1>e DEF Fails
    <3>2. CASE reply.framing # "invalid" /\ (Empty \/ (reply.framing = "length" /\ reply.length = 0))
      <4>1. Receive /\ Ends(Outcome)
        BY Zenon, <1>1, <2>2, <3>2 DEF DownloadHeader
      <4>2. ~Empty => reply.framing = "length" /\ reply.length = 0 /\ Len(sent) = n + 1
        BY <1>0, <1>f, <3>0, <3>2 DEF Framed
      <4>3. ~Empty => got' = sent
        <5>1. /\ got' \in Seq(ReplyItem) /\ Len(got') = n + 1
              /\ \A i \in 1 .. n + 1 : got'[i] = sent[i]
          BY <2>0, <4>1, Received
        <5> QED BY <1>0, <4>2, <5>1, SameItems, Zenon
      <4>4. ~request.head =>
              CASE reply.framing = "length" -> SentItems = reply.length
                [] reply.framing = "chunked" -> Terminated
                [] OTHER -> reply.framing \in {"empty", "close"}
        BY <1>0, <1>f, <3>0, <3>2, <4>2 DEF Empty
      <4> QED BY <1>0, <2>0, <4>1, <4>3, <4>4, Received, CompleteKeeps
    <3>3. CASE reply.framing # "invalid" /\ ~(Empty \/ (reply.framing = "length" /\ reply.length = 0))
      <4>1. Receive /\ down' = [down EXCEPT !.pc = "body", !.read = @ + 1] /\ UNCHANGED result
        BY Zenon, <1>1, <2>2, <3>3 DEF DownloadHeader
      <4>2. down' \in Downloads /\ down'.pc = "body" /\ down'.read = n + 1
        BY Zenon, <1>0, <2>0, <4>1, Advanced
      <4>3. /\ reply.framing \in {"length", "chunked", "close"} /\ ~request.head
            /\ reply.framing = "length" => n + 1 - Final < reply.length
        BY <1>0, <3>0, <3>3 DEF Empty, Replies, Framings
      <4>4. \A i \in 1 .. n + 1 : sent[i] \notin {"end", "bad"}
        BY SMTT(60), <1>0, <1>f, <3>0 DEF Framed
      <4>5. At(down', reply, Final)
        BY <1>0, <3>0, <4>2, <4>3, <4>4 DEF At
      <4> QED BY <2>0, <4>1, <4>2, <4>5, AdvanceKeeps
    <3> QED BY <3>1, <3>2, <3>3
  <2> QED BY <2>1, <2>2
<1>2. CASE DownloadItem
  <2>0. /\ Available /\ down.pc = "body" /\ n + 1 \in 1 .. Len(sent)
        /\ reply.framing \in {"length", "chunked", "close"} /\ ~request.head
        /\ Final \in Nat /\ Final <= n
        /\ reply.framing = "length" => n - Final < reply.length
        /\ \A i \in 1 .. n : sent[i] \notin {"end", "bad"}
    BY SMTT(60), <1>0, <1>f, <1>2 DEF DownloadItem, Available, At
  <2>1. item \in {"end", "bad"} => reply.framing = "chunked" /\ Len(sent) = n + 1
    <3>1. item \in Following(reply.framing) /\ (item \in {"end", "bad"} => n + 1 = Len(sent))
      BY SMTT(60), <1>0, <1>f, <2>0 DEF Framed
    <3> QED BY <2>0, <3>1 DEF Following
  <2>2. CASE item = "bad"
    <3>1. Fails
      BY Zenon, <1>2, <2>2 DEF DownloadItem
    <3>2. ReceivedIsDelivered'
      BY <1>0, <2>1, <2>2 DEF ReceivedIsDelivered
    <3> QED BY <1>0, <3>1, <3>2, <1>e DEF Fails
  <2>3. CASE item # "bad" /\ (item = "end" \/ (reply.framing = "length" /\ Copied + 1 = reply.length))
    <3>1. Receive /\ Ends(Outcome)
      BY Zenon, <1>2, <2>3 DEF DownloadItem
    <3>2. Len(sent) = n + 1
      BY SMTT(60), <1>0, <1>f, <2>0, <2>1, <2>3 DEF Framed, Copied
    <3>3. got' = sent
      <4>1. /\ got' \in Seq(ReplyItem) /\ Len(got') = n + 1
            /\ \A i \in 1 .. n + 1 : got'[i] = sent[i]
        BY <2>0, <3>1, Received
      <4> QED BY <1>0, <3>2, <4>1, SameItems, Zenon
    <3>4. (CASE reply.framing = "length" -> SentItems = reply.length
             [] reply.framing = "chunked" -> Terminated
             [] OTHER -> reply.framing \in {"empty", "close"})
      BY SMTT(60), <1>0, <1>f, <2>0, <2>1, <2>3, <3>2 DEF Terminated, Copied
    <3> QED BY Zenon, <1>0, <2>0, <3>1, <3>3, <3>4, Received, CompleteKeeps
  <2>4. CASE item # "bad" /\ ~(item = "end" \/ (reply.framing = "length" /\ Copied + 1 = reply.length))
    <3>1. Receive /\ down' = [down EXCEPT !.read = @ + 1] /\ UNCHANGED result
      BY <1>2, <2>4 DEF DownloadItem
    <3>2. down' \in Downloads /\ down'.pc = "body" /\ down'.read = n + 1
      BY <1>0, <2>0, <3>1 DEF Downloads
    <3>3. reply.framing = "length" => n + 1 - Final < reply.length
      BY SMTT(60), <1>0, <2>0, <2>4 DEF Copied
    <3>4. \A i \in 1 .. n + 1 : sent[i] \notin {"end", "bad"}
      BY <1>0, <2>0, <2>4
    <3>5. At(down', reply, Final)
      BY <1>0, <2>0, <3>2, <3>3, <3>4 DEF At
    <3> QED BY <2>0, <3>1, <3>2, <3>5, AdvanceKeeps
  <2> QED BY <2>2, <2>3, <2>4
<1>3. CASE DownloadEnds
  <2>0. reply.eof /\ n = Len(sent) /\ Ends(AtEnd) /\ got' = got
    BY <1>3 DEF DownloadEnds
  <2>1. CASE down.pc = "body" /\ reply.framing = "close"
    <3>1. Ends(Outcome)
      BY <2>0, <2>1 DEF AtEnd
    <3> QED BY Zenon, <1>0, <2>0, <2>1, <3>1, CompleteKeeps
  <2>2. CASE ~(down.pc = "body" /\ reply.framing = "close")
    <3>1. Ends("error")
      BY Zenon, <2>0, <2>2 DEF AtEnd
    <3>2. CASE down.pc = "header"
      <4>1. reply.framing = "none"
        BY <1>0, <1>f, <2>0, <3>2 DEF At
      <4> QED BY Zenon, <1>0, <2>0, <3>1, <4>1, <1>e DEF ReceivedIsDelivered
    <3>3. CASE down.pc = "body"
      <4>1. /\ reply.framing \in {"length", "chunked"} /\ Len(sent) \in 1 .. n
            /\ reply.framing = "length" => SentItems < reply.length
            /\ \A i \in 1 .. n : sent[i] \notin {"end", "bad"}
        BY <1>0, <1>f, <2>0, <2>2, <3>3 DEF At
      <4>2. ReceivedIsDelivered'
        BY Zenon, <1>0, <1>r, <4>1 DEF ReceivedIsDelivered
      <4> QED BY Zenon, <1>0, <2>0, <3>1, <4>2, <1>e
    <3> QED BY Zenon, <1>0, <3>2, <3>3 DEF At
  <2> QED BY Zenon, <2>1, <2>2
<1>4. CASE DownloadRefused
  <2>1. Fails /\ client.eof
    BY Zenon, <1>4 DEF DownloadRefused
  <2>2. ReceivedIsDelivered'
    BY <1>0, <2>1 DEF ReceivedIsDelivered
  <2> QED BY <1>0, <2>1, <2>2, <1>e DEF Fails
<1>5. CASE IdleExpires
  <2>1. Ends("idle") /\ got' = got
    BY <1>5 DEF IdleExpires
  <2>2. ReceivedIsDelivered'
    BY <2>1 DEF ReceivedIsDelivered, Ends
  <2> QED BY <1>0, <2>1, <2>2, FailureKeeps
<1> QED BY Zenon, <1>1, <1>2, <1>3, <1>4, <1>5

\* A request that is accepted starts with nothing transferred.
LEMMA ForwardInitInv == ForwardInit => ForwardInv
<1> SUFFICES ASSUME ForwardInit PROVE ForwardInv
  BY Zenon
<1>0. /\ request \in Requests /\ whole \in {"never", "open"}
      /\ client = [offered |-> 0, eof |-> FALSE]
      /\ up = [pc |-> "header", taken |-> 0] /\ wire = <<>>
      /\ reply = [sent |-> <<>>, framing |-> "none", length |-> 0, eof |-> FALSE]
      /\ down = [pc |-> "header", read |-> 0, interim |-> 0] /\ got = <<>>
      /\ result \in {"running", "refused"}
  BY Zenon DEF ForwardInit
<1>1. ForwardTypeOK
  BY SMTT(60), <1>0, ExchangeAssumption DEF ForwardTypeOK, Uploads, Replies, Framings, Downloads
<1>2. Len(Body) \in Nat
  BY <1>1, BodyFacts DEF ForwardTypeOK
<1>3. UploadInv
  BY <1>0, <1>2, ExchangeLimits DEF UploadInv, NothingWithheld
<1>4. ReplyInv /\ DownloadInv
  BY <1>0 DEF ReplyInv, DownloadInv, At
<1>5. OutcomeInv
  BY <1>0 DEF OutcomeInv, ReuseIsClean, TruncationIsError, ReceivedIsDelivered
<1> QED BY <1>1, <1>3, <1>4, <1>5 DEF ForwardInv

\* Every step of an exchange keeps the invariant.
LEMMA ForwardStepInv == ForwardInv /\ [ForwardNext]_forwardVars => ForwardInv'
<1>1. ASSUME ForwardInv, ForwardNext PROVE ForwardInv'
  BY <1>1, ClientKeeps, ReplyKeeps, UploadKeeps, DownloadKeeps, Zenon DEF ForwardNext
<1>2. ASSUME ForwardInv, UNCHANGED forwardVars PROVE ForwardInv'
  <2>0. /\ ForwardTypeOK /\ UploadInv /\ ReplyInv /\ DownloadInv /\ OutcomeInv
        /\ UNCHANGED <<request, whole, client, up, wire, flushed, reply, down, got, result>>
    BY <1>2, Zenon DEF ForwardInv, forwardVars
  <2>1. ForwardTypeOK'
    BY <2>0 DEF ForwardTypeOK
  <2>2. UploadInv' /\ ReplyInv' /\ DownloadInv'
    BY Zenon, <2>0, SameUpload, SameReply, SameDownload
  <2>3. OutcomeInv'
    BY <2>0, SameReply DEF OutcomeInv, ReuseIsClean, TruncationIsError, ReceivedIsDelivered
  <2> QED BY <2>1, <2>2, <2>3 DEF ForwardInv
<1> QED BY <1>1, <1>2

\* What was written is the header and the items taken, so the server sees a
\* prefix of the request.
LEMMA WrittenIsPrefix == ForwardInv => UploadIsPrefix
<1> SUFFICES ASSUME ForwardInv PROVE UploadIsPrefix
  OBVIOUS
<1> DEFINE all == <<"header">> \o Body
<1>0. /\ ForwardTypeOK /\ UploadInv /\ up.taken \in Nat /\ client.offered \in Nat
      /\ wire \in Seq({"header", "data", "chunk", "end", "bad"}) /\ BodyLimit \in Nat
      /\ Body \in Seq({"data", "chunk", "end", "bad"}) /\ Len(Body) \in Nat
  BY SMTT(60), ExchangeLimits, BodyFacts DEF ForwardInv, ForwardTypeOK, Uploads
<1>1. /\ all \in Seq({"header", "data", "chunk", "end", "bad"}) /\ Len(all) = Len(Body) + 1
      /\ all[1] = "header" /\ \A i \in 1 .. Len(Body) : all[i + 1] = Body[i]
  BY <1>0
<1> HIDE DEF all
<1>2. Len(wire) <= Len(all) /\ \A i \in 1 .. Len(wire) : wire[i] = all[i]
  <2>1. CASE up.pc = "header"
    BY <1>0, <1>1, <2>1 DEF UploadInv
  <2>2. CASE up.pc # "header"
    <3>1. /\ Len(wire) = up.taken + 1 /\ wire[1] = "header" /\ up.taken <= Len(Body)
          /\ \A i \in 1 .. up.taken : wire[i + 1] = Body[i]
      BY <1>0, <2>2 DEF UploadInv
    <3>2. ASSUME NEW i \in 1 .. up.taken + 1 PROVE wire[i] = all[i]
      <4>1. CASE i = 1
        BY <1>1, <3>1, <4>1
      <4>2. CASE i # 1
        <5>1. i - 1 \in 1 .. up.taken /\ i - 1 \in 1 .. Len(Body) /\ (i - 1) + 1 = i
          BY <1>0, <3>1, <4>2
        <5> QED BY <1>1, <3>1, <5>1
      <4> QED BY Zenon, <4>1, <4>2
    <3> QED BY <1>0, <1>1, <3>1, <3>2
  <2> QED BY Zenon, <2>1, <2>2
<1>3. wire = SubSeq(all, 1, Len(wire))
  BY <1>0, <1>1, <1>2
<1>4. request.chunked => Len(wire) <= BodyLimit + 2
  BY <1>0 DEF UploadInv, ForwardTypeOK, Uploads
<1> QED BY Zenon, <1>0, <1>1, <1>2, <1>3, <1>4 DEF UploadIsPrefix, all

\* For every request, body limit and length of a response: a connection that
\* forward_http reports as reusable has no unread body left in it, and the
\* client got the whole response.
THEOREM ReuseHolds == ForwardSpec => []ReuseIsClean
<1>1. ForwardInv => ReuseIsClean
  BY Zenon DEF ForwardInv, OutcomeInv
<1> QED BY <1>1, ForwardInitInv, ForwardStepInv, PTL DEF ForwardSpec

\* For every request, body limit and length of a response: the server sees a
\* prefix of the request, a truncated response is an error, a response that was
\* complete before the outbound closed is delivered, and nothing written is
\* withheld while forward_http waits for the client.
THEOREM ExchangeHolds == ForwardSpec => []ExchangeIsHonest
<1>1. ForwardInv => ExchangeIsHonest
  BY Zenon, WrittenIsPrefix DEF ForwardInv, OutcomeInv, UploadInv, ExchangeIsHonest
<1> QED BY <1>1, ForwardInitInv, ForwardStepInv, PTL DEF ForwardSpec
-----------------------------------------------------------------------------
(* The transports of a proxy protocol. *)

Verdicts == {"none", "invalid", "truncated", "reset", "timedOut", "eof"}
Obfs == [started : BOOLEAN, pending : Seq(Nat), sent : Nat, response : Nat, tail : Nat,
         upgraded : BOOLEAN, deadline : BOOLEAN, failed : BOOLEAN]
Units == [unit : {"salt", "firstLength", "nextLength", "payload"}, partial : BOOLEAN]

TransportTypeOK ==
    /\ answer \in {"upgrade", "refusal", "oversized", "none", "anytls"}
    /\ link \in [state : {"open", "eof", "reset"}, taken : Nat]
    /\ obfs \in Obfs
    /\ confirmed \in [bytes : Nat, flushed : Nat]
    /\ uplink \in Seq(Nat)
    /\ units \in Units
    /\ body \in Seq(Nat)
    /\ verdict \in Verdicts

\* Bytes of the envelope.
Envelope == IF answer = "none" THEN 0 ELSE 1

\* The server has the bytes s of what was written behind an envelope of e
\* bytes, and what follows is pending from the place a on.
Written(e, s, pending, a) ==
    /\ \A k \in 1 .. Len(s) : s[k] = k - e
    /\ \A i \in 1 .. Len(pending) : i > a => pending[i] = Len(s) + i - a - e

\* What was acknowledged is what the server has and what is pending.
WriteInv ==
    /\ obfs.sent <= Len(obfs.pending)
    /\ Drained => obfs.sent = 0
    /\ ~obfs.started => Drained /\ uplink = <<>> /\ confirmed.bytes = 0 /\ answer # "none"
    /\ obfs.started => Len(uplink) + Len(obfs.pending) - obfs.sent = Envelope + confirmed.bytes
    /\ Written(Envelope, uplink, obfs.pending, obfs.sent)
    /\ confirmed.flushed > 0 => confirmed.flushed + Envelope <= Len(uplink)

\* What was read of the header or of the body, and what came with the header.
ReadInv ==
    /\ obfs.tail <= obfs.response
    /\ ~obfs.upgraded => obfs.response = link.taken /\ obfs.tail = 0 /\ body = <<>>
    /\ obfs.upgraded =>
        /\ obfs.tail < obfs.response => obfs.response = link.taken /\ obfs.tail = HeaderSize + Len(body)
        /\ obfs.tail = obfs.response => link.taken = HeaderSize + Len(body)
    /\ BodyIsWhole

\* A number of bytes read, by the record, the unit and the byte it ends in.
Ended(size, u, record, rest) ==
    /\ u.partial <=> rest > 0
    /\ CASE u.unit = "salt" -> size = rest
         [] u.unit = "firstLength" -> size = UnitSize + rest
         [] u.unit = "nextLength" -> record > 0 /\ size = UnitSize + (2 * UnitSize) * record + rest
         [] u.unit = "payload" -> size = UnitSize + (2 * UnitSize) * record + UnitSize + rest

UnitInv == \E record \in Nat, rest \in 0 .. UnitSize - 1 : Ended(Len(body), units, record, rest)

\* A reset is reported at the end of what could be read.
CutInv == verdict # "none" /\ link.state = "open" => verdict \notin {"reset", "truncated"}

TlsInv ==
    /\ socket \in {"open", "reset", "gone", "fin"} /\ kept \in BOOLEAN
    /\ tlsSaw \in {"nothing", "error", "eof"}
    /\ socket = "gone" => kept
    /\ ResetIsNotEof

TransportInv ==
    /\ TransportTypeOK /\ WriteInv /\ ReadInv /\ UnitInv /\ CutInv
    /\ TruncationIsExact /\ UpgradeIsTimed /\ TlsInv
-----------------------------------------------------------------------------
\* One sequence after another.
LEMMA Joined ==
    ASSUME NEW s \in Seq(Nat), NEW t \in Seq(Nat)
    PROVE  /\ s \o t \in Seq(Nat) /\ Len(s \o t) = Len(s) + Len(t)
           /\ \A k \in 1 .. Len(s) : (s \o t)[k] = s[k]
           /\ \A k \in 1 .. Len(s) + Len(t) :
                k > Len(s) => k - Len(s) \in 1 .. Len(t) /\ (s \o t)[k] = t[k - Len(s)]
OBVIOUS

\* A part of a sequence.
LEMMA Part ==
    ASSUME NEW s \in Seq(Nat), NEW a \in Nat, NEW n \in Nat, a + n <= Len(s)
    PROVE  /\ SubSeq(s, a + 1, a + n) \in Seq(Nat) /\ Len(SubSeq(s, a + 1, a + n)) = n
           /\ \A i \in 1 .. n : SubSeq(s, a + 1, a + n)[i] = s[a + i]
OBVIOUS

\* A sequence that counts on behind another one.
LEMMA CountsOn ==
    ASSUME NEW e \in Nat, NEW s \in Seq(Nat), NEW t \in Seq(Nat),
           \A k \in 1 .. Len(s) : s[k] = k - e, \A i \in 1 .. Len(t) : t[i] = Len(s) + i - e
    PROVE  /\ s \o t \in Seq(Nat) /\ Len(s \o t) = Len(s) + Len(t)
           /\ \A k \in 1 .. Len(s) + Len(t) : (s \o t)[k] = k - e
<1>1. Len(s) \in Nat /\ Len(t) \in Nat
  OBVIOUS
<1>2. ASSUME NEW k \in 1 .. Len(s) + Len(t) PROVE (s \o t)[k] = k - e
  <2>1. CASE k <= Len(s)
    <3>1. k \in 1 .. Len(s)
      BY <1>1, <2>1
    <3> QED BY <3>1, Joined
  <2>2. CASE k > Len(s)
    <3>1. k - Len(s) \in 1 .. Len(t) /\ (s \o t)[k] = t[k - Len(s)]
      BY <2>2, Joined
    <3>2. t[k - Len(s)] = Len(s) + (k - Len(s)) - e
      BY <3>1, Zenon
    <3> QED BY <1>1, <3>1, <3>2
  <2> QED BY <1>1, <2>1, <2>2
<1> QED BY <1>2, Joined

\* The next pending bytes are sent.
LEMMA Sending ==
    ASSUME NEW e \in Nat, NEW s \in Seq(Nat), NEW p \in Seq(Nat), NEW a \in Nat, NEW n \in Nat,
           a + n <= Len(p), Written(e, s, p, a)
    PROVE  LET t == s \o SubSeq(p, a + 1, a + n)
           IN t \in Seq(Nat) /\ Len(t) = Len(s) + n /\ Written(e, t, p, a + n) /\ Written(e, t, <<>>, 0)
<1> DEFINE part == SubSeq(p, a + 1, a + n)
           t == s \o part
<1>0. Len(s) \in Nat /\ Len(p) \in Nat /\ Len(<<>>) = 0
  OBVIOUS
<1>1. part \in Seq(Nat) /\ Len(part) = n /\ \A i \in 1 .. n : part[i] = p[a + i]
  BY Zenon, Part
<1>t. t = s \o part
  OBVIOUS
<1> HIDE DEF part, t
<1>2. ASSUME NEW i \in 1 .. n PROVE part[i] = Len(s) + i - e
  <2>1. a + i \in 1 .. Len(p) /\ a + i > a
    BY <1>0
  <2>2. p[a + i] = Len(s) + (a + i) - a - e
    BY <2>1, Zenon DEF Written
  <2>3. part[i] = p[a + i]
    BY Zenon, <1>1
  <2> QED BY <1>0, <2>2, <2>3
<1>3. t \in Seq(Nat) /\ Len(t) = Len(s) + n /\ \A k \in 1 .. Len(t) : t[k] = k - e
  <2>1. \A k \in 1 .. Len(s) : s[k] = k - e
    BY Zenon DEF Written
  <2>2. \A i \in 1 .. Len(part) : part[i] = Len(s) + i - e
    BY <1>1, <1>2, Zenon
  <2>3. /\ s \o part \in Seq(Nat) /\ Len(s \o part) = Len(s) + Len(part)
        /\ \A k \in 1 .. Len(s) + Len(part) : (s \o part)[k] = k - e
    BY <1>1, <2>1, <2>2, CountsOn, Zenon
  <2> QED BY <1>1, <1>t, <2>3, Zenon
<1>4. ASSUME NEW i \in 1 .. Len(p), i > a + n PROVE p[i] = Len(t) + i - (a + n) - e
  <2>0. i > a /\ i \in Nat
    BY <1>0, <1>4
  <2>1. p[i] = Len(s) + i - a - e
    BY <2>0, Zenon DEF Written
  <2>2. Len(t) = Len(s) + n
    BY <1>3, Zenon
  <2>3. Len(s) + n + i - (a + n) - e = Len(s) + i - a - e
    BY <1>0, <2>0
  <2> QED BY <2>1, <2>2, <2>3, Zenon
<1>5. \A i \in 1 .. Len(<<>>) : FALSE
  BY <1>0
<1>6. Written(e, t, p, a + n) /\ Written(e, t, <<>>, 0)
  BY <1>3, <1>4, <1>5, Zenon DEF Written
<1> QED BY <1>3, <1>6, Zenon DEF t, part

\* The same of the stream's own pending bytes.
LEMMA SendingNow ==
    ASSUME NEW n, Envelope \in Nat, uplink \in Seq(Nat), obfs.pending \in Seq(Nat), obfs.sent \in Nat,
           n \in Nat, obfs.sent + n <= Len(obfs.pending),
           Written(Envelope, uplink, obfs.pending, obfs.sent)
    PROVE  LET t == uplink \o SubSeq(obfs.pending, obfs.sent + 1, obfs.sent + n)
           IN t \in Seq(Nat) /\ Len(t) = Len(uplink) + n /\ Written(Envelope, t, obfs.pending, obfs.sent + n)
              /\ Written(Envelope, t, <<>>, 0)
BY Sending, Zenon

\* Bytes that are passed through follow those that were sent before.
LEMMA Passing ==
    ASSUME NEW e \in Nat, NEW s \in Seq(Nat), NEW b \in Nat, NEW n \in Nat,
           Len(s) = e + b, Written(e, s, <<>>, 0)
    PROVE  LET t == s \o [i \in 1 .. n |-> b + i]
           IN t \in Seq(Nat) /\ Len(t) = Len(s) + n /\ Written(e, t, <<>>, 0)
<1> DEFINE more == [i \in 1 .. n |-> b + i]
           t == s \o more
<1>1. more \in Seq(Nat) /\ Len(more) = n /\ \A i \in 1 .. n : more[i] = b + i
  OBVIOUS
<1>t. t = s \o more
  OBVIOUS
<1> HIDE DEF more, t
<1>2. \A i \in 1 .. n : more[i] = Len(s) + i - e
  BY <1>1
<1>3. t \in Seq(Nat) /\ Len(t) = Len(s) + n /\ \A k \in 1 .. Len(t) : t[k] = k - e
  <2>1. \A k \in 1 .. Len(s) : s[k] = k - e
    BY Zenon DEF Written
  <2>2. \A i \in 1 .. Len(more) : more[i] = Len(s) + i - e
    BY <1>1, <1>2, Zenon
  <2>3. /\ s \o more \in Seq(Nat) /\ Len(s \o more) = Len(s) + Len(more)
        /\ \A k \in 1 .. Len(s) + Len(more) : (s \o more)[k] = k - e
    BY <1>1, <2>1, <2>2, CountsOn, Zenon
  <2> QED BY <1>1, <1>t, <2>3, Zenon
<1>5. \A i \in 1 .. Len(<<>>) : FALSE
  OBVIOUS
<1>6. Written(e, t, <<>>, 0)
  BY <1>3, <1>5, Zenon DEF Written
<1> QED BY <1>3, <1>6, Zenon DEF t, more

\* The same of the stream's own bytes.
LEMMA PassingNow ==
    ASSUME NEW n, Envelope \in Nat, uplink \in Seq(Nat), confirmed.bytes \in Nat, n \in Nat,
           Len(uplink) = Envelope + confirmed.bytes, Written(Envelope, uplink, <<>>, 0)
    PROVE  LET t == uplink \o Bytes(n)
           IN t \in Seq(Nat) /\ Len(t) = Len(uplink) + n /\ Written(Envelope, t, <<>>, 0)
BY Passing, Zenon DEF Bytes

\* The first write: the envelope and the bytes that are kept.
LEMMA Starting ==
    ASSUME NEW n \in Nat, NEW f \in 0 .. n, NEW p,
           p = <<ENVELOPE>> \o SubSeq([i \in 1 .. n |-> 0 + i], 1, f)
    PROVE  p \in Seq(Nat) /\ Len(p) = 1 + f /\ Written(1, <<>>, p, 0)
<1> DEFINE first == [i \in 1 .. n |-> 0 + i]
           kepts == SubSeq(first, 1, f)
<1>p. p = <<ENVELOPE>> \o kepts
  OBVIOUS
<1>1. first \in Seq(Nat) /\ Len(first) = n /\ \A i \in 1 .. n : first[i] = i
  OBVIOUS
<1> HIDE DEF first
<1>2. kepts \in Seq(Nat) /\ Len(kepts) = f /\ \A i \in 1 .. f : kepts[i] = i
  BY <1>1
<1> HIDE DEF kepts
<1>3. p \in Seq(Nat) /\ Len(p) = 1 + f /\ p[1] = 0 /\ \A i \in 1 .. f : p[1 + i] = i
  BY <1>2, <1>p DEF ENVELOPE
<1>4. ASSUME NEW i \in 1 .. 1 + f PROVE p[i] = i - 1
  <2>1. CASE i = 1
    BY <1>3, <2>1
  <2>2. CASE i # 1
    <3>1. i - 1 \in 1 .. f /\ 1 + (i - 1) = i
      BY <2>2
    <3> QED BY <1>3, <3>1
  <2> QED BY <2>1, <2>2
<1> QED BY <1>3, <1>4 DEF Written

\* The rest of a division, from a multiple of the divisor.
LEMMA Rest ==
    ASSUME NEW d \in Nat \ {0}, NEW k \in Nat, NEW r \in 0 .. d - 1
    PROVE  (d * k + r) % d = r
OBVIOUS

\* The bytes that are missing of the unit are told by the length of what was read.
LEMMA RestIs ==
    ASSUME NEW size \in Nat, NEW u \in Units, NEW record \in Nat, NEW rest \in 0 .. UnitSize - 1,
           Ended(size, u, record, rest)
    PROVE  size % UnitSize = rest
<1>1. UnitSize \in Nat \ {0}
  BY TransportAssumption
<1>2. u.unit \in {"salt", "firstLength", "nextLength", "payload"}
  BY Zenon DEF Units
<1>3. \E k \in Nat : size = UnitSize * k + rest
  <2>1. CASE u.unit = "salt"
    <3>1. size = UnitSize * 0 + rest
      BY <1>1, <2>1 DEF Ended
    <3> QED BY Zenon, <3>1
  <2>2. CASE u.unit = "firstLength"
    <3>1. size = UnitSize * 1 + rest
      BY <1>1, <2>2 DEF Ended
    <3> QED BY Zenon, <3>1
  <2> DEFINE twice == UnitSize * record
  <2>t. twice \in Nat /\ (2 * UnitSize) * record = 2 * twice /\ UnitSize * (2 * record) = 2 * twice
    BY <1>1
  <2>3. CASE u.unit = "nextLength"
    <3>1. size = UnitSize + (2 * UnitSize) * record + rest
      BY Zenon, <2>3 DEF Ended
    <3>2. UnitSize * (2 * record + 1) = UnitSize * (2 * record) + UnitSize
      BY <1>1
    <3>3. size = UnitSize * (2 * record + 1) + rest
      BY <1>1, <2>t, <3>1, <3>2
    <3> QED BY <3>3
  <2>4. CASE u.unit = "payload"
    <3>1. size = UnitSize + (2 * UnitSize) * record + UnitSize + rest
      BY Zenon, <2>4 DEF Ended
    <3>2. UnitSize * (2 * record + 2) = UnitSize * (2 * record) + UnitSize + UnitSize
      BY <1>1
    <3>3. size = UnitSize * (2 * record + 2) + rest
      BY <1>1, <2>t, <3>1, <3>2
    <3> QED BY <3>3
  <2> QED BY Zenon, <1>2, <2>1, <2>2, <2>3, <2>4
<1>4. PICK k \in Nat : size = UnitSize * k + rest
  BY <1>3
<1> QED BY <1>1, <1>4, Rest, Zenon

\* How many bytes were read, by the unit.
LEMMA EndedIs ==
    ASSUME NEW size, NEW u \in Units, NEW record, NEW rest, u.partial <=> rest > 0,
           \/ u.unit = "salt" /\ size = rest
           \/ u.unit = "firstLength" /\ size = UnitSize + rest
           \/ u.unit = "nextLength" /\ record > 0 /\ size = UnitSize + (2 * UnitSize) * record + rest
           \/ u.unit = "payload" /\ size = UnitSize + (2 * UnitSize) * record + UnitSize + rest
    PROVE  Ended(size, u, record, rest)
<1>1. CASE u.unit = "salt"
  BY <1>1 DEF Ended
<1>2. CASE u.unit = "firstLength"
  BY <1>2 DEF Ended
<1>3. CASE u.unit = "nextLength"
  BY <1>3 DEF Ended
<1>4. CASE u.unit = "payload"
  BY <1>4 DEF Ended
<1> QED BY <1>1, <1>2, <1>3, <1>4

\* The units move on with the bytes that are read.
LEMMA Advances ==
    ASSUME NEW size \in Nat, NEW u \in Units, NEW record \in Nat, NEW rest \in 0 .. UnitSize - 1,
           Ended(size, u, record, rest), NEW n \in Nat \ {0}, n <= UnitSize - rest, NEW v \in Units,
           v.partial <=> n < UnitSize - rest,
           v.unit = CASE n < UnitSize - rest -> u.unit
                      [] n = UnitSize - rest /\ u.unit = "salt" -> "firstLength"
                      [] n = UnitSize - rest /\ u.unit \in {"firstLength", "nextLength"} -> "payload"
                      [] OTHER -> "nextLength"
    PROVE  \E r \in Nat, k \in 0 .. UnitSize - 1 : Ended(size + n, v, r, k)
<1>1. UnitSize \in Nat \ {0} /\ 0 \in 0 .. UnitSize - 1 /\ 0 \in Nat
  BY TransportAssumption
<1>2. u.unit \in {"salt", "firstLength", "nextLength", "payload"}
  BY DEF Units
<1> DEFINE all == (2 * UnitSize) * record
<1>3. all \in Nat
  BY <1>1
<1> HIDE DEF all
<1>4. CASE n < UnitSize - rest
  <2>1. v.unit = u.unit /\ v.partial /\ rest + n \in 0 .. UnitSize - 1 /\ rest + n > 0
    BY <1>1, <1>4
  <2>0. v.partial <=> rest + n > 0
    BY <2>1, Zenon
  <2>2. Ended(size + n, v, record, rest + n)
    <3>1. CASE u.unit = "salt"
      <4>1. size + n = rest + n
        BY <3>1 DEF Ended
      <4> QED BY <2>0, <2>1, <3>1, <4>1, EndedIs, Zenon
    <3>2. CASE u.unit = "firstLength"
      <4>1. size = UnitSize + rest
        BY <3>2 DEF Ended
      <4>2. size + n = UnitSize + (rest + n)
        BY <1>1, <4>1
      <4> QED BY <2>0, <2>1, <3>2, <4>2, EndedIs, Zenon
    <3>3. CASE u.unit = "nextLength"
      <4>1. size = UnitSize + all + rest /\ record > 0
        BY <3>3 DEF Ended, all
      <4>2. size + n = UnitSize + all + (rest + n)
        BY <1>1, <1>3, <4>1
      <4> QED BY <2>0, <2>1, <3>3, <4>1, <4>2, EndedIs, Zenon DEF all
    <3>4. CASE u.unit = "payload"
      <4>1. size = UnitSize + all + UnitSize + rest
        BY <3>4 DEF Ended, all
      <4>2. size + n = UnitSize + all + UnitSize + (rest + n)
        BY <1>1, <1>3, <4>1
      <4> QED BY <2>0, <2>1, <3>4, <4>2, EndedIs, Zenon DEF all
    <3> QED BY Zenon, <1>2, <3>1, <3>2, <3>3, <3>4
  <2> QED BY <2>1, <2>2
<1>5. CASE n = UnitSize - rest
  <2>0. ~v.partial /\ rest + n = UnitSize /\ ~(n < UnitSize - rest)
    BY <1>1, <1>5
  <2>p. v.partial <=> 0 > 0
    BY <2>0
  <2>1. CASE u.unit = "salt"
    <3>1. v.unit = "firstLength" /\ size + n = UnitSize + 0
      BY <1>1, <1>5, <2>0, <2>1 DEF Ended
    <3>2. Ended(size + n, v, 0, 0)
      BY <2>p, <3>1, EndedIs, Zenon
    <3> QED BY <1>1, <3>2
  <2>2. CASE u.unit = "firstLength"
    <3>1. v.unit = "payload" /\ size + n = UnitSize + (2 * UnitSize) * 0 + UnitSize + 0
      BY <1>1, <1>5, <2>0, <2>2 DEF Ended
    <3>2. Ended(size + n, v, 0, 0)
      BY <2>p, <3>1, EndedIs, Zenon
    <3> QED BY <1>1, <3>2
  <2>3. CASE u.unit = "nextLength"
    <3>1. v.unit = "payload"
      BY <1>5, <2>0, <2>3
    <3>2. size = UnitSize + all + rest
      BY Zenon, <2>3 DEF Ended, all
    <3>3. size + n = UnitSize + all + UnitSize + 0
      BY <1>1, <1>3, <1>5, <3>2
    <3>4. Ended(size + n, v, record, 0)
      BY <2>p, <3>1, <3>3, EndedIs, Zenon DEF all
    <3> QED BY Zenon, <1>1, <3>4
  <2>4. CASE u.unit = "payload"
    <3>1. v.unit = "nextLength"
      BY <1>5, <2>0, <2>4
    <3>2. size = UnitSize + all + UnitSize + rest
      BY <2>4 DEF Ended, all
    <3>3. (2 * UnitSize) * (record + 1) = all + UnitSize + UnitSize
      BY <1>1 DEF all
    <3>4. size + n = UnitSize + (2 * UnitSize) * (record + 1) + 0
      BY <1>1, <1>3, <1>5, <3>2, <3>3
    <3>5. record + 1 > 0 /\ record + 1 \in Nat
      OBVIOUS
    <3>6. Ended(size + n, v, record + 1, 0)
      BY <2>p, <3>1, <3>4, <3>5, EndedIs, Zenon
    <3> QED BY <1>1, <3>5, <3>6
  <2> QED BY <1>2, <2>1, <2>2, <2>3, <2>4
<1> QED BY <1>1, <1>4, <1>5

\* What SsReadProgress holds tells whether a record was cut.
LEMMA CutIs ==
    ASSUME NEW size \in Nat, NEW u \in Units, NEW record \in Nat, NEW rest \in 0 .. UnitSize - 1,
           Ended(size, u, record, rest)
    PROVE  (u.partial \/ u.unit \in {"firstLength", "payload"}) <=>
                (size > 0 /\ ~(size > UnitSize /\ (size - UnitSize) % (2 * UnitSize) = 0))
<1>1. UnitSize \in Nat \ {0} /\ 2 * UnitSize \in Nat \ {0}
  BY TransportAssumption
<1>2. u.unit \in {"salt", "firstLength", "nextLength", "payload"} /\ u.partial \in BOOLEAN
  BY Zenon DEF Units
<1>3. CASE u.unit = "salt"
  BY <1>1, <1>2, <1>3 DEF Ended
<1> DEFINE all == (2 * UnitSize) * record
<1>a. all \in Nat
  BY <1>1
<1>4. CASE u.unit = "firstLength"
  <2>1. size = UnitSize + rest /\ (u.partial <=> rest > 0)
    BY <1>4 DEF Ended
  <2>2. size - UnitSize = (2 * UnitSize) * 0 + rest /\ rest \in 0 .. (2 * UnitSize) - 1
    BY SMTT(60), <1>1, <2>1
  <2>3. (size - UnitSize) % (2 * UnitSize) = rest
    BY <1>1, <2>2, Rest
  <2> QED BY <1>1, <1>4, <2>1, <2>3
<1>5. CASE u.unit = "nextLength"
  <2>1. size = UnitSize + all + rest /\ record > 0 /\ (u.partial <=> rest > 0)
    BY <1>5 DEF Ended
  <2>2. size - UnitSize = (2 * UnitSize) * record + rest /\ rest \in 0 .. (2 * UnitSize) - 1
    BY SMTT(60), <1>1, <1>a, <2>1
  <2>3. (size - UnitSize) % (2 * UnitSize) = rest
    BY Zenon, <1>1, <2>2, Rest
  <2>4. all > 0
    BY <1>1, <2>1
  <2> HIDE DEF all
  <2> QED BY SMTT(60), <1>1, <1>a, <1>2, <1>5, <2>1, <2>3, <2>4
<1>6. CASE u.unit = "payload"
  <2>1. size = UnitSize + all + UnitSize + rest
    BY <1>6 DEF Ended
  <2>2. size - UnitSize = (2 * UnitSize) * record + (UnitSize + rest)
        /\ UnitSize + rest \in 0 .. (2 * UnitSize) - 1
    BY <1>1, <1>a, <2>1
  <2>3. (size - UnitSize) % (2 * UnitSize) = UnitSize + rest
    BY Zenon, <1>1, <2>2, Rest
  <2> HIDE DEF all
  <2> QED BY <1>1, <1>a, <1>6, <2>1, <2>3
<1> QED BY <1>2, <1>3, <1>4, <1>5, <1>6

\* The writing side is as it was.
LEMMA SameWrite ==
    ASSUME WriteInv, UNCHANGED <<answer, uplink, confirmed>>,
           obfs'.sent = obfs.sent, obfs'.pending = obfs.pending, obfs'.started = obfs.started
    PROVE  WriteInv'
BY DEF WriteInv, Drained, Envelope

\* The reading side is as it was.
LEMMA SameRead ==
    ASSUME ReadInv, UNCHANGED <<answer, body>>, link'.taken = link.taken,
           obfs'.tail = obfs.tail, obfs'.response = obfs.response, obfs'.upgraded = obfs.upgraded
    PROVE  ReadInv'
BY DEF ReadInv, BodyIsWhole, HeaderSize

\* No byte was handed to Shadowsocks.
LEMMA SameUnits ==
    ASSUME UnitInv, UNCHANGED <<body, units>>
    PROVE  UnitInv'
BY Zenon DEF UnitInv, Ended

\* Nobody was told of an end.
LEMMA SameVerdict ==
    ASSUME CutInv, TruncationIsExact, UNCHANGED <<body, verdict, link>>, obfs'.upgraded = obfs.upgraded
    PROVE  CutInv' /\ TruncationIsExact'
BY DEF CutInv, TruncationIsExact

\* TLS was not concerned.
LEMMA SameTls == ASSUME TlsInv, UNCHANGED tlsVars PROVE TlsInv'
BY DEF TlsInv, ResetIsNotEof, tlsVars

\* The types of the parts.
LEMMA TransportTypes ==
    ASSUME TransportTypeOK
    PROVE  /\ obfs.pending \in Seq(Nat) /\ obfs.sent \in Nat /\ obfs.response \in Nat /\ obfs.tail \in Nat
           /\ obfs.started \in BOOLEAN /\ obfs.upgraded \in BOOLEAN
           /\ Len(obfs.pending) \in Nat /\ Len(uplink) \in Nat /\ Len(body) \in Nat
           /\ link.taken \in Nat /\ link.state \in {"open", "eof", "reset"}
           /\ confirmed.bytes \in Nat /\ confirmed.flushed \in Nat
           /\ Envelope \in 0 .. 1 /\ HeaderSize \in Nat
           /\ units.unit \in {"salt", "firstLength", "nextLength", "payload"}
<1>1. Envelope \in 0 .. 1
  BY DEF Envelope
<1>2. HeaderSize \in Nat
  BY TransportAssumption DEF HeaderSize
<1>3. /\ obfs.pending \in Seq(Nat) /\ obfs.sent \in Nat /\ obfs.response \in Nat /\ obfs.tail \in Nat
      /\ obfs.started \in BOOLEAN /\ obfs.upgraded \in BOOLEAN
  BY Zenon DEF TransportTypeOK, Obfs
<1>4. Len(obfs.pending) \in Nat /\ Len(uplink) \in Nat /\ Len(body) \in Nat
  BY <1>3 DEF TransportTypeOK
<1>5. /\ link.taken \in Nat /\ link.state \in {"open", "eof", "reset"}
      /\ confirmed.bytes \in Nat /\ confirmed.flushed \in Nat
      /\ units.unit \in {"salt", "firstLength", "nextLength", "payload"}
  BY Zenon DEF TransportTypeOK, Units
<1> QED BY <1>1, <1>2, <1>3, <1>4, <1>5, Zenon

\* drain: the server gets the next pending bytes; the wait for the upgrade is
\* timed from the last of them on.
LEMMA DrainKeeps ==
    ASSUME TransportInv, NEW n \in Nat \ {0}, Drain(n)
    PROVE  TransportInv'
<1> DEFINE o == [obfs EXCEPT !.sent = @ + n]
<1>0. /\ TransportTypeOK /\ WriteInv /\ ReadInv /\ UnitInv /\ CutInv /\ TruncationIsExact
      /\ UpgradeIsTimed /\ TlsInv
  BY Zenon DEF TransportInv
<1>u. UNCHANGED <<answer, link, confirmed, units, body, verdict>> /\ UNCHANGED tlsVars
  BY Zenon DEF Drain
<1>1. /\ obfs.pending \in Seq(Nat) /\ obfs.sent \in Nat /\ Len(obfs.pending) \in Nat
      /\ uplink \in Seq(Nat) /\ Len(uplink) \in Nat /\ obfs \in Obfs /\ Envelope \in 0 .. 1
      /\ confirmed.bytes \in Nat /\ confirmed.flushed \in Nat
  BY <1>0, TransportTypes, Zenon DEF TransportTypeOK
<1>2. obfs.sent + n <= Len(obfs.pending) /\ Written(Envelope, uplink, obfs.pending, obfs.sent)
  BY <1>0, Zenon DEF Drain, WriteInv
<1>n. n \in Nat /\ Envelope \in Nat /\ obfs.sent + n \in Nat
  BY <1>1
<1>3. /\ uplink' \in Seq(Nat) /\ Len(uplink') = Len(uplink) + n
      /\ Written(Envelope, uplink', obfs.pending, obfs.sent + n) /\ Written(Envelope, uplink', <<>>, 0)
  <2>1. uplink' = uplink \o SubSeq(obfs.pending, obfs.sent + 1, obfs.sent + n)
    BY Zenon DEF Drain
  <2>2. Envelope \in Nat /\ uplink \in Seq(Nat)
    BY <1>1, <1>n, Zenon
  <2>3. obfs.pending \in Seq(Nat) /\ obfs.sent \in Nat /\ n \in Nat
    BY <1>1, <1>n, Zenon
  <2>4. \A m \in Nat : obfs.sent + m <= Len(obfs.pending) =>
            LET t == uplink \o SubSeq(obfs.pending, obfs.sent + 1, obfs.sent + m)
            IN /\ t \in Seq(Nat) /\ Len(t) = Len(uplink) + m
               /\ Written(Envelope, t, obfs.pending, obfs.sent + m) /\ Written(Envelope, t, <<>>, 0)
    BY SendingNow, <1>2, <2>2, <2>3, Zenon
  <2> QED BY <1>2, <2>1, <2>3, <2>4, Zenon
<1>4. obfs' = IF o.sent = Len(o.pending) THEN Cleared(o) ELSE o
  BY Zenon DEF Drain
<1>5. /\ o \in Obfs /\ o.sent = obfs.sent + n /\ o.pending = obfs.pending /\ o.started = obfs.started
      /\ o.response = obfs.response /\ o.tail = obfs.tail /\ o.upgraded = obfs.upgraded
  BY <1>1, <1>n, Zenon DEF Obfs
<1> HIDE DEF o
<1>e. <<>> \in Seq(Nat) /\ 0 \in Nat /\ Len(<<>>) = 0
  OBVIOUS
<1>6. /\ obfs' \in Obfs /\ obfs'.started = obfs.started /\ obfs'.upgraded = obfs.upgraded
      /\ obfs'.response = obfs.response /\ obfs'.tail = obfs.tail
      /\ \/ /\ obfs.sent + n = Len(obfs.pending) /\ obfs'.sent = 0 /\ obfs'.pending = <<>>
            /\ obfs'.deadline = ~obfs'.upgraded
         \/ /\ obfs.sent + n # Len(obfs.pending) /\ obfs'.sent = obfs.sent + n
            /\ obfs'.pending = obfs.pending
  <2>1. CASE obfs.sent + n = Len(obfs.pending)
    BY <1>4, <1>5, <2>1, <1>e, Zenon DEF Obfs, Cleared
  <2>2. CASE obfs.sent + n # Len(obfs.pending)
    BY <1>4, <1>5, <2>2, Zenon
  <2> QED BY <2>1, <2>2, Zenon
<1>7. obfs.started /\ obfs.pending # <<>>
  <2>1. Len(obfs.pending) # 0
    BY SMTT(60), <1>1, <1>2
  <2> QED BY <1>0, <1>e, <2>1, Zenon DEF WriteInv, Drained
<1>8. WriteInv'
  <2>e. Envelope' = Envelope
    BY <1>u DEF Envelope
  <2>b. /\ Len(uplink) + Len(obfs.pending) - obfs.sent = Envelope + confirmed.bytes
        /\ confirmed.flushed > 0 => confirmed.flushed + Envelope <= Len(uplink)
    BY <1>0, <1>7, Zenon DEF WriteInv
  <2>l. Len(uplink') = Len(uplink) + n
    BY <1>3, Zenon
  <2>f. confirmed.flushed > 0 => confirmed.flushed + Envelope <= Len(uplink')
    BY SMTT(60), <1>1, <2>l, <2>b
  <2>1. CASE obfs'.sent = 0 /\ obfs'.pending = <<>> /\ obfs.sent + n = Len(obfs.pending)
    <3>1. Len(uplink') + 0 - 0 = Envelope + confirmed.bytes /\ 0 <= 0
      BY SMTT(60), <1>1, <1>n, <1>3, <2>1, <2>b
    <3> QED BY <1>u, <1>e, <1>3, <1>6, <1>7, <2>e, <2>f, <2>1, <3>1, Zenon DEF WriteInv, Drained
  <2>2. CASE obfs'.sent = obfs.sent + n /\ obfs'.pending = obfs.pending
    <3>1. Len(uplink') + Len(obfs.pending) - (obfs.sent + n) = Envelope + confirmed.bytes
      BY SMTT(60), <1>1, <1>n, <1>3, <2>b
    <3> QED BY <1>u, <1>2, <1>3, <1>6, <1>7, <2>e, <2>f, <2>2, <3>1, Zenon DEF WriteInv, Drained
  <2> QED BY <1>6, <2>1, <2>2, Zenon
<1>9. TransportTypeOK'
  BY <1>0, <1>u, <1>3, <1>6, Zenon DEF TransportTypeOK
<1>10. UpgradeIsTimed'
  BY <1>6, <1>7, Zenon DEF UpgradeIsTimed, Drained
<1>11. ReadInv' /\ UnitInv' /\ CutInv' /\ TruncationIsExact' /\ TlsInv'
  BY Zenon, <1>0, <1>u, <1>6, SameRead, SameUnits, SameVerdict, SameTls
<1> QED BY <1>8, <1>9, <1>10, <1>11 DEF TransportInv

\* poll_write: the first write is kept behind the envelope, later ones are passed on.
LEMMA PollWriteKeeps ==
    ASSUME TransportInv, NEW n \in Nat \ {0}, PollWrite(n)
    PROVE  TransportInv'
<1>0. /\ TransportTypeOK /\ WriteInv /\ ReadInv /\ UnitInv /\ CutInv /\ TruncationIsExact
      /\ UpgradeIsTimed /\ TlsInv
  BY Zenon DEF TransportInv
<1>u. UNCHANGED <<answer, link, units, body, verdict>> /\ UNCHANGED tlsVars /\ obfs.pending = <<>>
  BY Zenon DEF PollWrite, Drained
<1>1. /\ obfs.sent \in Nat /\ uplink \in Seq(Nat) /\ Len(uplink) \in Nat /\ obfs \in Obfs
      /\ Envelope \in 0 .. 1 /\ confirmed.bytes \in Nat /\ confirmed.flushed \in Nat
      /\ confirmed \in [bytes : Nat, flushed : Nat]
  BY <1>0, TransportTypes, Zenon DEF TransportTypeOK
<1>n. n \in Nat /\ Envelope \in Nat /\ confirmed.bytes + n \in Nat /\ Len(<<>>) = 0 /\ <<>> \in Seq(Nat)
  BY <1>1
<1>2. obfs.sent = 0 /\ Written(Envelope, uplink, <<>>, 0)
  BY <1>0, <1>u, Zenon DEF WriteInv, Drained
<1>e. Envelope' = Envelope
  BY Zenon, <1>u DEF Envelope
<1>3. CASE obfs.started
  <2>1. /\ uplink' = uplink \o Bytes(n) /\ obfs' = obfs
        /\ confirmed' = [confirmed EXCEPT !.bytes = @ + n]
    BY <1>3, Zenon DEF PollWrite
  <2>2. /\ confirmed' \in [bytes : Nat, flushed : Nat] /\ confirmed'.bytes = confirmed.bytes + n
        /\ confirmed'.flushed = confirmed.flushed
    BY <1>1, <1>n, <2>1, Zenon
  <2>3. Len(uplink) = Envelope + confirmed.bytes
    <3>1. Len(uplink) + Len(<<>>) - 0 = Envelope + confirmed.bytes
      BY <1>0, <1>u, <1>2, <1>3, Zenon DEF WriteInv
    <3> QED BY <3>1, <1>1, <1>n
  <2>4. uplink' \in Seq(Nat) /\ Len(uplink') = Len(uplink) + n /\ Written(Envelope, uplink', <<>>, 0)
    BY PassingNow, <1>1, <1>n, <1>2, <2>1, <2>3, Zenon
  <2>l. Len(uplink') = Len(uplink) + n
    BY <2>4, Zenon
  <2>5. /\ Len(uplink') + Len(<<>>) - 0 = Envelope + (confirmed.bytes + n)
        /\ confirmed.flushed > 0 => confirmed.flushed + Envelope <= Len(uplink')
    <3>1. confirmed.flushed > 0 => confirmed.flushed + Envelope <= Len(uplink)
      BY <1>0, Zenon DEF WriteInv
    <3> QED BY SMTT(60), <1>1, <1>n, <2>3, <2>l, <3>1
  <2>6. WriteInv'
    <3>1. 0 <= Len(<<>>)
      BY <1>n
    <3> QED BY <1>e, <1>u, <1>2, <1>3, <2>1, <2>2, <2>4, <2>5, <3>1, Zenon DEF WriteInv, Drained
  <2>7. TransportTypeOK'
    BY <1>0, <1>u, <2>1, <2>2, <2>4, Zenon DEF TransportTypeOK
  <2>8. UpgradeIsTimed'
    BY <1>0, <2>1, Zenon DEF UpgradeIsTimed, Drained
  <2>9. ReadInv' /\ UnitInv' /\ CutInv' /\ TruncationIsExact' /\ TlsInv'
    BY Zenon, <1>0, <1>u, <2>1, SameRead, SameUnits, SameVerdict, SameTls
  <2> QED BY <2>6, <2>7, <2>8, <2>9 DEF TransportInv
<1>4. CASE ~obfs.started
  <2> DEFINE f == FirstWrite(n)
             p == <<ENVELOPE>> \o SubSeq(Bytes(n), 1, f)
  <2>1. /\ confirmed' = [confirmed EXCEPT !.bytes = @ + f]
        /\ obfs' = [obfs EXCEPT !.started = TRUE, !.pending = p] /\ uplink' = uplink
    BY <1>4, Zenon DEF PollWrite, Acknowledged
  <2>2. uplink = <<>> /\ confirmed.bytes = 0 /\ answer # "none"
    BY <1>0, <1>4, Zenon DEF WriteInv
  <2>3. f \in 0 .. n /\ f \in Nat /\ 0 + f \in Nat
    BY TransportAssumption, <1>n DEF FirstWrite
  <2> HIDE DEF f
  <2>4. p \in Seq(Nat) /\ Len(p) = 1 + f /\ Written(1, <<>>, p, 0)
    BY Starting, <1>n, <2>2, <2>3, Zenon DEF Bytes
  <2>p. p # <<>> /\ 0 <= Len(p)
    BY <2>3, <2>4
  <2> HIDE DEF p
  <2>5. /\ confirmed' \in [bytes : Nat, flushed : Nat] /\ confirmed'.bytes = 0 + f
        /\ confirmed'.flushed = confirmed.flushed
    BY <1>1, <2>1, <2>2, <2>3, Zenon
  <2>6. /\ obfs' \in Obfs /\ obfs'.pending = p /\ obfs'.started = TRUE /\ obfs'.sent = obfs.sent
        /\ obfs'.response = obfs.response /\ obfs'.tail = obfs.tail /\ obfs'.upgraded = obfs.upgraded
    BY <1>1, <2>1, <2>4, Zenon DEF Obfs
  <2>7. WriteInv'
    <3>1. Envelope = 1
      BY <2>2 DEF Envelope
    <3>2. Len(<<>>) + Len(p) - 0 = 1 + (0 + f)
      BY <1>n, <2>3, <2>4
    <3> QED BY <1>0, <1>e, <1>2, <2>1, <2>2, <2>4, <2>p, <2>5, <2>6, <3>1, <3>2, Zenon DEF WriteInv, Drained
  <2>8. TransportTypeOK'
    BY <1>0, <1>u, <2>1, <2>5, <2>6, Zenon DEF TransportTypeOK
  <2>9. UpgradeIsTimed'
    BY <2>6, <2>p, Zenon DEF UpgradeIsTimed, Drained
  <2>10. ReadInv' /\ UnitInv' /\ CutInv' /\ TruncationIsExact' /\ TlsInv'
    BY Zenon, <1>0, <1>u, <2>6, SameRead, SameUnits, SameVerdict, SameTls
  <2> QED BY <2>7, <2>8, <2>9, <2>10 DEF TransportInv
<1> QED BY <1>3, <1>4

\* A write that fails, a flush and an end of the connection.
LEMMA SimpleStepsKeep ==
    ASSUME TransportInv, DrainFails \/ PollFlush \/ \E how \in {"eof", "reset"} : LinkEnds(how)
    PROVE  TransportInv'
<1>0. /\ TransportTypeOK /\ WriteInv /\ ReadInv /\ UnitInv /\ CutInv /\ TruncationIsExact
      /\ UpgradeIsTimed /\ TlsInv
  BY Zenon DEF TransportInv
<1>1. /\ obfs.sent \in Nat /\ uplink \in Seq(Nat) /\ Len(uplink) \in Nat /\ obfs \in Obfs
      /\ Envelope \in 0 .. 1 /\ confirmed.bytes \in Nat /\ confirmed.flushed \in Nat
  BY <1>0, TransportTypes, Zenon DEF TransportTypeOK
<1>2. CASE DrainFails
  <2>1. /\ UNCHANGED <<answer, link, confirmed, uplink, units, body, verdict>> /\ UNCHANGED tlsVars
        /\ obfs' = [obfs EXCEPT !.failed = TRUE]
    BY <1>2, Zenon DEF DrainFails
  <2>2. /\ obfs' \in Obfs /\ obfs'.pending = obfs.pending /\ obfs'.started = obfs.started
        /\ obfs'.sent = obfs.sent /\ obfs'.response = obfs.response /\ obfs'.tail = obfs.tail
        /\ obfs'.upgraded = obfs.upgraded /\ obfs'.failed = TRUE
    BY <1>1, <2>1, Zenon DEF Obfs
  <2>3. TransportTypeOK' /\ UpgradeIsTimed'
    BY <1>0, <2>1, <2>2, Zenon DEF TransportTypeOK, UpgradeIsTimed
  <2>4. WriteInv' /\ ReadInv' /\ UnitInv' /\ CutInv' /\ TruncationIsExact' /\ TlsInv'
    BY Zenon, <1>0, <2>1, <2>2, SameWrite, SameRead, SameUnits, SameVerdict, SameTls
  <2> QED BY <2>3, <2>4 DEF TransportInv
<1>3. CASE PollFlush
  <2>1. /\ UNCHANGED <<answer, link, obfs, uplink, units, body, verdict>> /\ UNCHANGED tlsVars
        /\ confirmed' = [confirmed EXCEPT !.flushed = confirmed.bytes] /\ obfs.pending = <<>>
    BY <1>3, Zenon DEF PollFlush, Drained
  <2>2. /\ confirmed' \in [bytes : Nat, flushed : Nat] /\ confirmed'.bytes = confirmed.bytes
        /\ confirmed'.flushed = confirmed.bytes
    BY <1>0, <1>1, <2>1, Zenon DEF TransportTypeOK
  <2>3. TransportTypeOK' /\ UpgradeIsTimed'
    BY <1>0, <2>1, <2>2, Zenon DEF TransportTypeOK, UpgradeIsTimed, Drained
  <2>4. ReadInv' /\ UnitInv' /\ CutInv' /\ TruncationIsExact' /\ TlsInv'
    BY Zenon, <1>0, <2>1, SameRead, SameUnits, SameVerdict, SameTls
  <2>5. WriteInv'
    <3>e. Envelope' = Envelope
      BY Zenon, <2>1 DEF Envelope
    <3>1. confirmed.bytes > 0 => confirmed.bytes + Envelope <= Len(uplink)
      <4>1. CASE obfs.started
        <5>1. Len(uplink) + Len(<<>>) - 0 = Envelope + confirmed.bytes
          BY <1>0, <2>1, <4>1, Zenon DEF WriteInv, Drained
        <5> QED BY <5>1, <1>1
      <4>2. CASE ~obfs.started
        <5>1. confirmed.bytes = 0
          BY <1>0, <4>2, Zenon DEF WriteInv
        <5> QED BY <5>1
      <4> QED BY Zenon, <4>1, <4>2
    <3> QED BY <1>0, <2>1, <2>2, <3>e, <3>1, Zenon DEF WriteInv, Drained
  <2> QED BY <2>3, <2>4, <2>5 DEF TransportInv
<1>4. ASSUME NEW how \in {"eof", "reset"}, LinkEnds(how)
      PROVE  TransportInv'
  <2>1. /\ UNCHANGED <<answer, obfs, confirmed, uplink, units, body, verdict>> /\ UNCHANGED tlsVars
        /\ link' = [link EXCEPT !.state = how] /\ link.state = "open"
    BY <1>4, Zenon DEF LinkEnds
  <2>2. link' \in [state : {"open", "eof", "reset"}, taken : Nat] /\ link'.taken = link.taken
    BY Zenon, <1>0, <2>1 DEF TransportTypeOK
  <2>3. TransportTypeOK' /\ UpgradeIsTimed'
    BY <1>0, <2>1, <2>2, Zenon DEF TransportTypeOK, UpgradeIsTimed, Drained
  <2>4. WriteInv' /\ ReadInv' /\ UnitInv' /\ TlsInv'
    BY Zenon, <1>0, <2>1, <2>2, SameWrite, SameRead, SameUnits, SameTls
  <2>5. verdict \notin {"reset", "truncated"}
    BY Zenon, <1>0, <2>1 DEF CutInv
  <2>6. CutInv' /\ TruncationIsExact'
    BY <2>1, <2>5, Zenon DEF CutInv, TruncationIsExact
  <2> QED BY <2>3, <2>4, <2>6 DEF TransportInv
<1> QED BY <1>2, <1>3, <1>4

\* A reader that is told of an end before the upgrade, or of a header that took
\* too long: the stream has failed.
LEMMA HeaderFailsKeeps ==
    ASSUME TransportInv, HeaderCut \/ HeaderExpires
    PROVE  TransportInv'
<1>0. /\ TransportTypeOK /\ WriteInv /\ ReadInv /\ UnitInv /\ CutInv /\ TruncationIsExact
      /\ UpgradeIsTimed /\ TlsInv
  BY Zenon DEF TransportInv
<1>1. /\ UNCHANGED <<answer, link, confirmed, uplink, units, body>> /\ UNCHANGED tlsVars
      /\ obfs' = [obfs EXCEPT !.failed = TRUE] /\ ~obfs.upgraded
      /\ \/ /\ link.state # "open"
            /\ verdict' = IF link.state = "eof" \/ obfs.response > 0 THEN "truncated" ELSE "reset"
         \/ verdict' = "timedOut"
  BY Zenon DEF HeaderCut, HeaderExpires, Told
<1>2. /\ obfs' \in Obfs /\ obfs'.pending = obfs.pending /\ obfs'.started = obfs.started
      /\ obfs'.sent = obfs.sent /\ obfs'.response = obfs.response /\ obfs'.tail = obfs.tail
      /\ obfs'.upgraded = obfs.upgraded /\ obfs'.failed = TRUE
  BY <1>0, <1>1, Zenon DEF Obfs, TransportTypeOK
<1>3. verdict' \in Verdicts
  BY <1>1, Zenon DEF Verdicts
<1>4. TransportTypeOK' /\ UpgradeIsTimed'
  BY <1>0, <1>1, <1>2, <1>3, Zenon DEF TransportTypeOK, UpgradeIsTimed
<1>5. WriteInv' /\ ReadInv' /\ UnitInv' /\ TlsInv'
  BY Zenon, <1>0, <1>1, <1>2, SameWrite, SameRead, SameUnits, SameTls
<1>6. CutInv'
  BY <1>1 DEF CutInv
<1>7. TruncationIsExact'
  <2>1. obfs.response = link.taken
    BY <1>0, <1>1, Zenon DEF ReadInv
  <2>2. (link'.state = "reset" /\ verdict' \in {"reset", "truncated"}) =>
            (verdict' = "truncated" <=> link'.taken > 0)
    BY Zenon, <1>1, <2>1
  <2> QED BY <1>1, <1>2, <2>2, Zenon DEF TruncationIsExact
<1> QED BY <1>4, <1>5, <1>6, <1>7 DEF TransportInv

\* The end of an AnyTLS connection and what TLS is told of it.
LEMMA SocketKeeps ==
    ASSUME TransportInv,
           (\E how \in {"fin", "reset"} : SocketEnds(how)) \/ (\E overlooked \in BOOLEAN : ReadSocket(overlooked))
    PROVE  TransportInv'
<1>0. /\ TransportTypeOK /\ WriteInv /\ ReadInv /\ UnitInv /\ CutInv /\ TruncationIsExact
      /\ UpgradeIsTimed /\ TlsInv
  BY Zenon DEF TransportInv
<1>1. UNCHANGED streamVars
  BY Zenon DEF SocketEnds, ReadSocket
<1>2. TransportTypeOK' /\ UpgradeIsTimed'
  BY Zenon, <1>0, <1>1 DEF TransportTypeOK, UpgradeIsTimed, streamVars, Drained
<1>3. WriteInv' /\ ReadInv' /\ UnitInv' /\ CutInv' /\ TruncationIsExact'
  BY Zenon, <1>0, <1>1, SameWrite, SameRead, SameUnits, SameVerdict DEF streamVars
<1>4. TlsInv'
  <2>1. CASE \E how \in {"fin", "reset"} : SocketEnds(how)
    BY <1>0, <2>1 DEF SocketEnds, TlsInv, ResetIsNotEof
  <2>2. CASE \E overlooked \in BOOLEAN : ReadSocket(overlooked)
    BY Zenon, <1>0, <2>2 DEF ReadSocket, Keep, TlsInv, ResetIsNotEof
  <2> QED BY Zenon, <2>1, <2>2
<1> QED BY <1>2, <1>3, <1>4 DEF TransportInv

\* poll_read before the upgrade: the header is complete, refused, too long or
\* still to come.
LEMMA ReadHeaderKeeps ==
    ASSUME TransportInv, NEW n \in Nat, ReadHeader(n)
    PROVE  TransportInv'
<1> DEFINE size == obfs.response + n
           o == [obfs EXCEPT !.response = size]
<1>0. /\ TransportTypeOK /\ WriteInv /\ ReadInv /\ UnitInv /\ CutInv /\ TruncationIsExact
      /\ UpgradeIsTimed /\ TlsInv
  BY Zenon DEF TransportInv
<1>1. /\ UNCHANGED <<answer, confirmed, uplink, units, body>> /\ UNCHANGED tlsVars
      /\ link' = [link EXCEPT !.taken = @ + n] /\ ~obfs.upgraded /\ ~obfs.failed /\ verdict = "none"
      /\ verdict' = IF obfs'.failed THEN "invalid" ELSE verdict
  BY Zenon DEF ReadHeader, Reading
<1>2. /\ obfs \in Obfs /\ obfs.response \in Nat /\ link.taken \in Nat /\ HeaderSize \in Nat
      /\ link \in [state : {"open", "eof", "reset"}, taken : Nat]
  BY <1>0, TransportTypes, Zenon DEF TransportTypeOK
<1>3. obfs.response = link.taken /\ obfs.tail = 0 /\ body = <<>> /\ BodyIsWhole
  BY <1>0, <1>1, Zenon DEF ReadInv
<1>4. size \in Nat /\ link.taken + n \in Nat /\ size = link.taken + n
  BY <1>2, <1>3
<1>5. link' \in [state : {"open", "eof", "reset"}, taken : Nat] /\ link'.taken = link.taken + n
  BY <1>1, <1>2, <1>4, Zenon
<1>6. \/ size >= HeaderSize /\ obfs' = [o EXCEPT !.upgraded = TRUE, !.deadline = FALSE, !.tail = HeaderSize]
      \/ obfs' = [o EXCEPT !.failed = TRUE]
      \/ obfs' = o
  BY <1>2, <1>4 DEF ReadHeader, BodyStart
<1> HIDE DEF size
<1>o. /\ o \in Obfs /\ o.response = size /\ o.pending = obfs.pending /\ o.started = obfs.started
      /\ o.sent = obfs.sent /\ o.tail = 0 /\ o.upgraded = FALSE /\ o.deadline = obfs.deadline
      /\ o.failed = FALSE
  <2>1. obfs.upgraded = FALSE /\ obfs.failed = FALSE
    BY <1>1, <1>2, Zenon DEF Obfs
  <2> QED BY <1>2, <1>3, <1>4, <2>1, Zenon DEF Obfs
<1> HIDE DEF o
<1>7. /\ obfs' \in Obfs /\ obfs'.response = size /\ obfs'.pending = obfs.pending
      /\ obfs'.started = obfs.started /\ obfs'.sent = obfs.sent
      /\ \/ size >= HeaderSize /\ obfs'.upgraded /\ obfs'.tail = HeaderSize
         \/ ~obfs'.upgraded /\ obfs'.tail = 0 /\ (obfs'.failed \/ obfs'.deadline = obfs.deadline)
  <2>1. CASE size >= HeaderSize /\ obfs' = [o EXCEPT !.upgraded = TRUE, !.deadline = FALSE, !.tail = HeaderSize]
    BY <1>2, <1>o, <2>1, Zenon DEF Obfs
  <2>2. CASE obfs' = [o EXCEPT !.failed = TRUE]
    BY <1>o, <2>2, Zenon DEF Obfs
  <2>3. CASE obfs' = o
    BY <1>o, <2>3, Zenon
  <2> QED BY <1>6, <2>1, <2>2, <2>3, Zenon
<1>8. verdict' \in {"none", "invalid"} /\ verdict' \in Verdicts
  BY <1>1, Zenon DEF Verdicts
<1>9. TransportTypeOK'
  BY <1>0, <1>1, <1>5, <1>7, <1>8, Zenon DEF TransportTypeOK
<1>10. UpgradeIsTimed'
  BY <1>0, <1>1, <1>7, Zenon DEF UpgradeIsTimed, Drained
<1>11. WriteInv' /\ UnitInv' /\ TlsInv'
  BY Zenon, <1>0, <1>1, <1>7, SameWrite, SameUnits, SameTls
<1>12. CutInv' /\ TruncationIsExact'
  BY <1>8 DEF CutInv, TruncationIsExact
<1>13. ReadInv'
  <2>h. HeaderSize' = HeaderSize /\ body' = <<>> /\ Len(body') = 0
    BY <1>1, <1>3 DEF HeaderSize
  <2>1. BodyIsWhole'
    BY <2>h DEF BodyIsWhole
  <2>2. CASE size >= HeaderSize /\ obfs'.upgraded /\ obfs'.tail = HeaderSize
    <3>1. HeaderSize <= size /\ HeaderSize = HeaderSize + 0
      BY <1>2, <1>4, <2>2
    <3> QED BY <1>4, <1>5, <1>7, <2>h, <2>1, <2>2, <3>1, Zenon DEF ReadInv
  <2>3. CASE ~obfs'.upgraded /\ obfs'.tail = 0
    <3>1. 0 <= size
      BY <1>4
    <3> QED BY <1>4, <1>5, <1>7, <2>h, <2>1, <2>3, <3>1, Zenon DEF ReadInv
  <2> QED BY <1>7, <2>2, <2>3, Zenon
<1> QED BY <1>9, <1>10, <1>11, <1>12, <1>13 DEF TransportInv

\* Handing out the next bytes of the body keeps it whole and moves the units on.
LEMMA HandOutKeeps ==
    ASSUME TransportTypeOK, BodyIsWhole, UnitInv, NEW n \in Nat \ {0}, n <= Wanted,
           HandOut(HeaderSize + Len(body), n)
    PROVE  /\ body' \in Seq(Nat) /\ Len(body') = Len(body) + n /\ units' \in Units
           /\ BodyIsWhole' /\ UnitInv'
<1> DEFINE more == [i \in 1 .. n |-> HeaderSize + Len(body) + i]
<1>1. body \in Seq(Nat) /\ Len(body) \in Nat /\ HeaderSize \in Nat /\ units \in Units
  BY TransportTypes, Zenon DEF TransportTypeOK
<1>2. body' = body \o more /\ units' = Progress(n) /\ answer' = answer
  BY Zenon DEF HandOut
<1>3. HeaderSize' = HeaderSize
  BY <1>2 DEF HeaderSize
<1>4. more \in Seq(Nat) /\ Len(more) = n /\ \A i \in 1 .. n : more[i] = HeaderSize + Len(body) + i
  <2>1. \A i \in 1 .. n : HeaderSize + Len(body) + i \in Nat
    BY <1>1
  <2> QED BY <2>1
<1> HIDE DEF more
<1>5. body' \in Seq(Nat) /\ Len(body') = Len(body) + n
  <2>1. body \o more \in Seq(Nat) /\ Len(body \o more) = Len(body) + Len(more)
    BY <1>1, <1>4, Joined, Zenon
  <2> QED BY <1>2, <1>4, <2>1, Zenon
<1>6. ASSUME NEW k \in 1 .. Len(body) + n PROVE body'[k] = HeaderSize + k
  <2>1. CASE k <= Len(body)
    <3>1. k \in 1 .. Len(body) /\ k \in DOMAIN body
      BY <1>1, <2>1
    <3>2. body[k] = HeaderSize + k
      BY <3>1, Zenon DEF BodyIsWhole
    <3>3. (body \o more)[k] = body[k]
      BY Zenon, <1>1, <1>4, <3>1, Joined
    <3> QED BY <1>2, <3>2, <3>3, Zenon
  <2>2. CASE k > Len(body)
    <3>1. k - Len(body) \in 1 .. n
      BY <1>1, <2>2
    <3>2. more[k - Len(body)] = HeaderSize + Len(body) + (k - Len(body))
      BY <1>4, <3>1, Zenon
    <3>3. HeaderSize + Len(body) + (k - Len(body)) = HeaderSize + k
      BY SMTT(60), <1>1
    <3>4. (body \o more)[k] = more[k - Len(body)]
      BY <1>1, <1>4, <2>2, Joined
    <3> QED BY <1>2, <3>2, <3>3, <3>4, Zenon
  <2> QED BY <1>1, <2>1, <2>2
<1>7. BodyIsWhole'
  <2>1. DOMAIN body' = 1 .. Len(body) + n
    BY <1>1, <1>5
  <2> QED BY <1>3, <1>6, <2>1, Zenon DEF BodyIsWhole
<1>8. PICK record \in Nat, rest \in 0 .. UnitSize - 1 : Ended(Len(body), units, record, rest)
  BY Zenon DEF UnitInv
<1>9. Wanted = UnitSize - rest
  <2>1. Len(body) % UnitSize = rest
    BY <1>1, <1>8, RestIs, Zenon
  <2> QED BY <2>1, Zenon DEF Wanted
<1>10. /\ units'.partial = (n < UnitSize - rest)
       /\ units'.unit = CASE n < UnitSize - rest -> units.unit
                          [] n = UnitSize - rest /\ units.unit = "salt" -> "firstLength"
                          [] n = UnitSize - rest /\ units.unit \in {"firstLength", "nextLength"} -> "payload"
                          [] OTHER -> "nextLength"
  BY <1>2, <1>9, Zenon DEF Progress
<1>11. units' \in Units
  <2>1. units.unit \in {"salt", "firstLength", "nextLength", "payload"}
    BY <1>1 DEF Units
  <2>2. (CASE n < Wanted -> units.unit
           [] n = Wanted /\ units.unit = "salt" -> "firstLength"
           [] n = Wanted /\ units.unit \in {"firstLength", "nextLength"} -> "payload"
           [] OTHER -> "nextLength") \in {"salt", "firstLength", "nextLength", "payload"}
    BY <2>1
  <2>3. (n < Wanted) \in BOOLEAN
    OBVIOUS
  <2> QED BY <1>2, <2>2, <2>3, Zenon DEF Units, Progress
<1>12. UnitInv'
  <2>1. n <= UnitSize - rest
    BY <1>9, Zenon
  <2>2. \E r \in Nat, k \in 0 .. UnitSize - 1 : Ended(Len(body) + n, units', r, k)
    BY <1>1, <1>8, <1>10, <1>11, <2>1, Advances, Zenon
  <2> QED BY <1>5, <2>2, Zenon DEF UnitInv
<1> QED BY <1>5, <1>7, <1>11, <1>12

\* What came with the header is handed out.
LEMMA ReadTailKeeps == ASSUME TransportInv, ReadTail PROVE TransportInv'
<1> DEFINE rest == obfs.response - obfs.tail
           n == IF rest < Wanted THEN rest ELSE Wanted
<1>0. /\ TransportTypeOK /\ WriteInv /\ ReadInv /\ UnitInv /\ CutInv /\ TruncationIsExact
      /\ UpgradeIsTimed /\ TlsInv
  BY Zenon DEF TransportInv
<1>1. /\ HandOut(obfs.tail, n) /\ link' = link /\ obfs.upgraded /\ obfs.tail < obfs.response
      /\ verdict = "none"
      /\ obfs' = IF n = rest THEN [obfs EXCEPT !.response = 0, !.tail = 0] ELSE [obfs EXCEPT !.tail = @ + n]
  BY Zenon DEF ReadTail, Reading
<1>2. /\ obfs \in Obfs /\ obfs.response \in Nat /\ obfs.tail \in Nat /\ HeaderSize \in Nat
      /\ Len(body) \in Nat /\ body \in Seq(Nat)
  BY <1>0, TransportTypes, Zenon DEF TransportTypeOK
<1>3. obfs.response = link.taken /\ obfs.tail = HeaderSize + Len(body) /\ BodyIsWhole
  BY <1>0, <1>1, Zenon DEF ReadInv
<1>4. Wanted \in Nat \ {0}
  BY <1>2, TransportAssumption DEF Wanted
<1>5. n \in Nat \ {0} /\ n <= Wanted /\ n <= rest /\ rest \in Nat
  BY <1>1, <1>2, <1>4
<1>6. UNCHANGED <<answer, confirmed, uplink, verdict>> /\ UNCHANGED tlsVars
  BY <1>1, Zenon DEF HandOut
<1>r. rest = obfs.response - obfs.tail
  OBVIOUS
<1> HIDE DEF n, rest
<1>7. /\ body' \in Seq(Nat) /\ Len(body') = Len(body) + n /\ units' \in Units
      /\ BodyIsWhole' /\ UnitInv'
  BY <1>0, <1>1, <1>3, <1>5, HandOutKeeps, Zenon
<1>8. /\ obfs' \in Obfs /\ obfs'.pending = obfs.pending /\ obfs'.started = obfs.started
      /\ obfs'.sent = obfs.sent /\ obfs'.upgraded = obfs.upgraded /\ obfs'.deadline = obfs.deadline
      /\ obfs'.failed = obfs.failed
      /\ \/ n = rest /\ obfs'.response = 0 /\ obfs'.tail = 0
         \/ n # rest /\ obfs'.response = obfs.response /\ obfs'.tail = obfs.tail + n
  <2>1. 0 \in Nat /\ obfs.tail + n \in Nat
    BY <1>2, <1>5
  <2>2. CASE n = rest
    BY <1>1, <1>2, <2>1, <2>2, Zenon DEF Obfs
  <2>3. CASE n # rest
    BY <1>1, <1>2, <2>1, <2>3, Zenon DEF Obfs
  <2> QED BY <2>2, <2>3, Zenon
<1>9. TransportTypeOK'
  BY <1>0, <1>1, <1>6, <1>7, <1>8, Zenon DEF TransportTypeOK
<1>10. UpgradeIsTimed'
  BY <1>1, <1>8, Zenon DEF UpgradeIsTimed
<1>11. WriteInv' /\ TlsInv'
  BY <1>0, <1>6, <1>8, SameWrite, SameTls
<1>12. CutInv' /\ TruncationIsExact'
  BY <1>1, <1>6 DEF CutInv, TruncationIsExact
<1>13. ReadInv'
  <2>h. HeaderSize' = HeaderSize
    BY <1>6 DEF HeaderSize
  <2>l. Len(body') = Len(body) + n
    BY <1>7, Zenon
  <2>2. CASE n = rest /\ obfs'.response = 0 /\ obfs'.tail = 0
    <3>1. link.taken = HeaderSize + Len(body') /\ 0 <= 0 /\ ~(0 < 0)
      BY SMTT(60), <1>2, <1>3, <1>5, <1>r, <2>2, <2>l
    <3> QED BY <1>1, <1>7, <1>8, <2>h, <2>2, <3>1, Zenon DEF ReadInv
  <2>3. CASE n # rest /\ obfs'.response = obfs.response /\ obfs'.tail = obfs.tail + n
    <3>1. /\ obfs.tail + n <= obfs.response /\ obfs.tail + n # obfs.response
          /\ obfs.tail + n = HeaderSize + Len(body')
      BY <1>2, <1>3, <1>5, <1>r, <2>3, <2>l
    <3> QED BY <1>1, <1>3, <1>7, <1>8, <2>h, <2>3, <3>1, Zenon DEF ReadInv
  <2> QED BY <1>8, <2>2, <2>3, Zenon
<1> QED BY <1>7, <1>9, <1>10, <1>11, <1>12, <1>13 DEF TransportInv

\* The body is read from the connection.
LEMMA ReadBodyKeeps ==
    ASSUME TransportInv, NEW n \in Nat \ {0}, ReadBody(n)
    PROVE  TransportInv'
<1>0. /\ TransportTypeOK /\ WriteInv /\ ReadInv /\ UnitInv /\ CutInv /\ TruncationIsExact
      /\ UpgradeIsTimed /\ TlsInv
  BY Zenon DEF TransportInv
<1>1. /\ HandOut(link.taken, n) /\ link' = [link EXCEPT !.taken = @ + n] /\ obfs' = obfs
      /\ obfs.upgraded /\ obfs.tail = obfs.response /\ verdict = "none" /\ n <= Wanted
  BY Zenon DEF ReadBody, Reading
<1>2. /\ obfs.response \in Nat /\ HeaderSize \in Nat /\ Len(body) \in Nat /\ link.taken \in Nat
      /\ link \in [state : {"open", "eof", "reset"}, taken : Nat]
  BY <1>0, TransportTypes, Zenon DEF TransportTypeOK
<1>3. link.taken = HeaderSize + Len(body) /\ BodyIsWhole
  BY <1>0, <1>1, Zenon DEF ReadInv
<1>4. UNCHANGED <<answer, confirmed, uplink, verdict>> /\ UNCHANGED tlsVars
  BY <1>1, Zenon DEF HandOut
<1>5. /\ body' \in Seq(Nat) /\ Len(body') = Len(body) + n /\ units' \in Units
      /\ BodyIsWhole' /\ UnitInv'
  BY <1>0, <1>1, <1>3, HandOutKeeps, Zenon
<1>6. link.taken + n \in Nat /\ link.taken + n = HeaderSize + (Len(body) + n)
      /\ ~(obfs.response < obfs.response)
  BY <1>2, <1>3
<1>7. link' \in [state : {"open", "eof", "reset"}, taken : Nat] /\ link'.taken = link.taken + n
  BY <1>1, <1>2, <1>6, Zenon
<1>8. TransportTypeOK' /\ UpgradeIsTimed'
  BY <1>0, <1>1, <1>4, <1>5, <1>7, Zenon DEF TransportTypeOK, UpgradeIsTimed, Drained
<1>9. WriteInv' /\ TlsInv'
  BY <1>0, <1>1, <1>4, SameWrite, SameTls
<1>10. CutInv' /\ TruncationIsExact'
  BY Zenon, <1>1, <1>4 DEF CutInv, TruncationIsExact
<1>11. ReadInv'
  <2>1. HeaderSize' = HeaderSize
    BY Zenon, <1>4 DEF HeaderSize
  <2>2. obfs.tail <= obfs.response
    BY <1>0, Zenon DEF ReadInv
  <2> QED BY <1>1, <1>5, <1>6, <1>7, <2>1, <2>2, Zenon DEF ReadInv
<1> QED BY <1>5, <1>8, <1>9, <1>10, <1>11 DEF TransportInv

\* The reader is told of the end of the body: a reset is a truncation exactly
\* where SsReadProgress is inside a record.
LEMMA BodyCutKeeps == ASSUME TransportInv, BodyCut PROVE TransportInv'
<1> DEFINE cut == units.partial \/ units.unit \in {"firstLength", "payload"}
<1>0. /\ TransportTypeOK /\ WriteInv /\ ReadInv /\ UnitInv /\ CutInv /\ TruncationIsExact
      /\ UpgradeIsTimed /\ TlsInv
  BY Zenon DEF TransportInv
<1>1. /\ UNCHANGED <<answer, link, obfs, confirmed, uplink, units, body>> /\ UNCHANGED tlsVars
      /\ obfs.upgraded /\ link.state # "open"
      /\ verdict' = CASE link.state = "eof" -> "eof"
                      [] link.state = "reset" /\ cut -> "truncated"
                      [] OTHER -> "reset"
  BY Zenon DEF BodyCut, Told
<1>2. link.state \in {"open", "eof", "reset"} /\ Len(body) \in Nat /\ units \in Units
  BY <1>0, TransportTypes, Zenon DEF TransportTypeOK
<1>3. PICK record \in Nat, rest \in 0 .. UnitSize - 1 : Ended(Len(body), units, record, rest)
  BY <1>0, Zenon DEF UnitInv
<1>4. cut <=> (Len(body) > 0 /\ ~(Len(body) > UnitSize /\ (Len(body) - UnitSize) % (2 * UnitSize) = 0))
  BY <1>2, <1>3, CutIs, Zenon
<1> HIDE DEF cut
<1>5. verdict' \in {"eof", "truncated", "reset"} /\ (link.state = "reset" => (verdict' = "truncated" <=> cut))
  BY <1>1
<1>6. TransportTypeOK' /\ UpgradeIsTimed'
  BY Zenon, <1>0, <1>1, <1>5 DEF TransportTypeOK, UpgradeIsTimed, Drained, Verdicts
<1>7. WriteInv' /\ ReadInv' /\ UnitInv' /\ TlsInv'
  BY Zenon, <1>0, <1>1, SameWrite, SameRead, SameUnits, SameTls
<1>8. CutInv'
  BY <1>1 DEF CutInv
<1>9. TruncationIsExact'
  BY <1>1, <1>4, <1>5, Zenon DEF TruncationIsExact
<1> QED BY <1>6, <1>7, <1>8, <1>9 DEF TransportInv

\* A new connection.
LEMMA TransportInitInv == TransportInit => TransportInv
<1> SUFFICES ASSUME TransportInit PROVE TransportInv
  OBVIOUS
<1>1. /\ obfs = [started |-> answer = "none", pending |-> <<>>, sent |-> 0, response |-> 0, tail |-> 0,
                 upgraded |-> answer = "none", deadline |-> FALSE, failed |-> FALSE]
      /\ link = [state |-> "open", taken |-> 0] /\ confirmed = [bytes |-> 0, flushed |-> 0]
      /\ uplink = <<>> /\ body = <<>> /\ units = [unit |-> "salt", partial |-> FALSE]
      /\ verdict = "none" /\ answer \in {"upgrade", "refusal", "oversized", "none", "anytls"}
      /\ socket = "open" /\ kept = FALSE /\ tlsSaw = "nothing"
  BY Zenon DEF TransportInit
<1>2. <<>> \in Seq(Nat) /\ Len(<<>>) = 0 /\ 0 \in Nat /\ 0 <= 0 /\ ~(0 > 0) /\ ~(0 < 0)
  OBVIOUS
<1>3. /\ obfs \in Obfs /\ obfs.pending = <<>> /\ obfs.sent = 0 /\ obfs.response = 0 /\ obfs.tail = 0
      /\ obfs.started = (answer = "none") /\ obfs.upgraded = (answer = "none")
  BY <1>1, <1>2, Zenon DEF Obfs
<1>4. TransportTypeOK
  BY <1>1, <1>2, <1>3, Zenon DEF TransportTypeOK, Units, Verdicts
<1>5. WriteInv
  <2>1. answer = "none" => 0 + 0 - 0 = Envelope + 0
    BY DEF Envelope
  <2>2. Written(Envelope, <<>>, <<>>, 0)
    BY <1>2 DEF Written
  <2> QED BY <1>1, <1>2, <1>3, <2>1, <2>2, Zenon DEF WriteInv, Drained
<1>6. ReadInv
  <2>1. BodyIsWhole
    BY <1>1 DEF BodyIsWhole
  <2>2. answer = "none" => 0 = HeaderSize + 0
    BY DEF HeaderSize
  <2> QED BY <1>1, <1>2, <1>3, <2>1, <2>2, Zenon DEF ReadInv
<1>7. UnitInv
  <2>1. 0 \in 0 .. UnitSize - 1
    BY TransportAssumption
  <2>2. Ended(Len(body), units, 0, 0)
    BY SMTT(60), <1>1 DEF Ended
  <2> QED BY <1>2, <2>1, <2>2, Zenon DEF UnitInv
<1>8. CutInv /\ TruncationIsExact /\ TlsInv
  BY Zenon, <1>1 DEF CutInv, TruncationIsExact, TlsInv, ResetIsNotEof
<1>9. UpgradeIsTimed
  BY <1>3, Zenon DEF UpgradeIsTimed
<1> QED BY Zenon, <1>4, <1>5, <1>6, <1>7, <1>8, <1>9 DEF TransportInv

\* Every step of the transports keeps the invariant.
LEMMA TransportStepInv == TransportInv /\ [TransportNext]_transportVars => TransportInv'
<1> SUFFICES ASSUME TransportInv, [TransportNext]_transportVars PROVE TransportInv'
  OBVIOUS
<1>1. ASSUME NEW n \in 1 .. MaxBytes + 1, Drain(n) \/ PollWrite(n) PROVE TransportInv'
  <2>1. n \in Nat \ {0}
    BY TransportAssumption
  <2> QED BY <1>1, <2>1, DrainKeeps, PollWriteKeeps
<1>2. ASSUME NEW n \in 1 .. HeaderLimit, ReadHeader(n) PROVE TransportInv'
  <2>1. n \in Nat
    BY TransportAssumption
  <2> QED BY <1>2, <2>1, ReadHeaderKeeps
<1>3. ASSUME NEW n \in 1 .. UnitSize, ReadBody(n) PROVE TransportInv'
  <2>1. n \in Nat \ {0}
    BY TransportAssumption
  <2> QED BY <1>3, <2>1, ReadBodyKeeps
<1>4. CASE UNCHANGED transportVars
  <2>1. UNCHANGED streamVars /\ UNCHANGED tlsVars
    BY Zenon, <1>4 DEF transportVars
  <2>2. TransportTypeOK' /\ UpgradeIsTimed'
    BY Zenon, <2>1 DEF TransportInv, TransportTypeOK, UpgradeIsTimed, streamVars, Drained
  <2>3. WriteInv' /\ ReadInv' /\ UnitInv' /\ CutInv' /\ TruncationIsExact' /\ TlsInv'
    BY Zenon, <2>1, SameWrite, SameRead, SameUnits, SameVerdict, SameTls DEF TransportInv, streamVars
  <2> QED BY <2>2, <2>3 DEF TransportInv
<1>5. CASE TransportNext
  BY <1>1, <1>2, <1>3, <1>5, SimpleStepsKeep, HeaderFailsKeeps, ReadTailKeeps, BodyCutKeeps,
     SocketKeeps, Zenon DEF TransportNext
<1> QED BY <1>4, <1>5

\* What is written is what was acknowledged, from its first byte on.
LEMMA WrittenIsSent == TransportInv => AcknowledgedIsSent
<1> SUFFICES ASSUME TransportInv PROVE AcknowledgedIsSent
  OBVIOUS
<1> DEFINE e == IF answer = "none" THEN <<>> ELSE <<ENVELOPE>>
           numbered == [i \in 1 .. confirmed.bytes |-> i]
           stream == e \o numbered
<1>1. TransportTypeOK /\ WriteInv
  BY Zenon DEF TransportInv
<1>2. /\ uplink \in Seq(Nat) /\ Len(uplink) \in Nat /\ Envelope \in 0 .. 1 /\ obfs.sent \in Nat
      /\ confirmed.bytes \in Nat /\ confirmed.flushed \in Nat /\ Len(obfs.pending) \in Nat
  BY <1>1, TransportTypes, Zenon DEF TransportTypeOK
<1>3. Written(Envelope, uplink, obfs.pending, obfs.sent)
  BY <1>1, Zenon DEF WriteInv
<1>s. \A k \in 1 .. Len(uplink) : uplink[k] = k - Envelope
  BY <1>3, Zenon DEF Written
<1>4. Len(uplink) <= Envelope + confirmed.bytes
  <2>1. CASE obfs.started
    <3>1. /\ Len(uplink) + Len(obfs.pending) - obfs.sent = Envelope + confirmed.bytes
          /\ obfs.sent <= Len(obfs.pending)
      BY <1>1, <2>1, Zenon DEF WriteInv
    <3> QED BY <1>2, <3>1
  <2>2. CASE ~obfs.started
    <3>1. uplink = <<>>
      BY <1>1, <2>2, Zenon DEF WriteInv
    <3> QED BY <1>2, <3>1
  <2> QED BY <2>1, <2>2
<1>5. e \in Seq(Nat) /\ Len(e) = Envelope /\ \A k \in 1 .. Len(e) : e[k] = k - Envelope
  BY DEF Envelope, ENVELOPE
<1>6. numbered \in Seq(Nat) /\ Len(numbered) = confirmed.bytes
      /\ \A i \in 1 .. Len(numbered) : numbered[i] = i
  BY <1>2
<1>7. \A i \in 1 .. Len(numbered) : numbered[i] = Len(e) + i - Envelope
  BY <1>2, <1>5, <1>6
<1> HIDE DEF e, numbered
<1>8. /\ stream \in Seq(Nat) /\ Len(stream) = Envelope + confirmed.bytes
      /\ \A k \in 1 .. Envelope + confirmed.bytes : stream[k] = k - Envelope
  <2>1. Envelope \in Nat
    BY <1>2
  <2>2. /\ e \o numbered \in Seq(Nat) /\ Len(e \o numbered) = Len(e) + Len(numbered)
        /\ \A k \in 1 .. Len(e) + Len(numbered) : (e \o numbered)[k] = k - Envelope
    BY CountsOn, <2>1, <1>5, <1>6, <1>7, Zenon
  <2> QED BY <1>5, <1>6, <2>2, Zenon
<1> HIDE DEF stream
<1>9. Len(uplink) <= Len(stream) /\ uplink = SubSeq(stream, 1, Len(uplink))
  <2>1. ASSUME NEW t \in Seq(Nat), NEW u \in Seq(Nat), Len(u) <= Len(t),
               \A k \in 1 .. Len(u) : u[k] = t[k]
        PROVE  u = SubSeq(t, 1, Len(u))
    BY <2>1
  <2>2. Len(uplink) <= Len(stream)
    BY <1>4, <1>8, Zenon
  <2>3. ASSUME NEW k \in 1 .. Len(uplink) PROVE uplink[k] = stream[k]
    <3>1. k \in 1 .. Envelope + confirmed.bytes
      BY <1>2, <1>4
    <3> QED BY <1>s, <1>8, <3>1, Zenon
  <2> QED BY <1>2, <1>8, <2>1, <2>2, <2>3, Zenon
<1>10. ASSUME NEW i \in 1 .. confirmed.flushed PROVE \E k \in DOMAIN uplink : uplink[k] = i
  <2>1. confirmed.flushed > 0 => confirmed.flushed + Envelope <= Len(uplink)
    BY <1>1, Zenon DEF WriteInv
  <2>2. i + Envelope \in 1 .. Len(uplink) /\ (i + Envelope) - Envelope = i
    BY <1>2, <2>1
  <2>3. uplink[i + Envelope] = i
    BY <1>s, <2>2, Zenon
  <2>4. DOMAIN uplink = 1 .. Len(uplink)
    BY <1>2
  <2> QED BY <2>2, <2>3, <2>4, Zenon
<1> QED BY <1>9, <1>10, Zenon DEF AcknowledgedIsSent, stream, e, numbered

\* The transports neither add, lose nor invent a byte, and report the end of a
\* connection for what it was, for every limit, unit size and splitting of the
\* streams over reads and writes.
THEOREM StreamHolds == TransportSpec => []StreamIsExact
<1>1. TransportInv => StreamIsExact
  BY WrittenIsSent, Zenon DEF TransportInv, ReadInv, TlsInv, StreamIsExact
<1> QED BY <1>1, TransportInitInv, TransportStepInv, PTL DEF TransportSpec
=============================================================================
