--------------------------- MODULE SessionProofs ---------------------------
(***************************************************************************)
(* UDP sessions over a stream and the control API's server, for any number *)
(* of datagrams and connections and any capacity of the queues.            *)
(***************************************************************************)
EXTENDS Datagrams, ControlApi, SequenceTheorems, TLAPS

-----------------------------------------------------------------------------
(* A UDP session. *)

DatagramTypeOK ==
    /\ broken \in 1 .. MaxIncoming + 1
    /\ arrived \in 0 .. 2 * MaxIncoming
    /\ reader \in [start : Nat, read : Nat]
    /\ inbox \in Seq(Nat) /\ delivered \in Seq(Nat)
    /\ outbox \in Seq(Nat) /\ written \in Seq(Nat)
    /\ pending \in [number : Nat, parts : 0 .. 1]
    /\ accepted \in Nat
    /\ worker \in {"running", "failing", "ended"}

\* The reader is within a frame or between two, and has not passed the malformed one.
ReaderInv ==
    \E k \in 0 .. MaxIncoming :
        /\ reader.start = 2 * k
        /\ reader.read \in {reader.start, reader.start + 1} /\ reader.read <= arrived
        /\ worker = "running" => k < broken

\* What the receiver got, followed by what waits for it.
Seen == delivered \o inbox

\* Frames that were queued or returned are whole, were read before, and the
\* error is last.
QueuedInv(seen) ==
    \A i \in 1 .. Len(seen) :
        /\ seen[i] = ERROR => i = Len(seen) /\ worker = "ended"
        /\ seen[i] # ERROR =>
            /\ seen[i] < broken /\ 2 * seen[i] <= reader.start
            /\ \A j \in 1 .. i - 1 : seen[j] # ERROR => seen[j] < seen[i]

\* Frames the worker has taken so far.
Taken == accepted - Len(outbox)

\* The stream and the queue hold the accepted datagrams, in order.
WriterInv ==
    /\ Taken \in Nat
    /\ \A i \in 1 .. Len(outbox) : outbox[i] = Taken + i
    /\ pending # NoFrame => pending.number = Taken /\ Taken > 0
    /\ Len(written) = IF pending = NoFrame THEN 2 * Taken ELSE 2 * Taken - 2 + pending.parts
    /\ WireIsWhole

DatagramInv ==
    /\ DatagramTypeOK /\ ReaderInv /\ WriterInv
    /\ QueuedInv(Seen)
    /\ worker = "ended" => Seen # <<>> /\ Seen[Len(Seen)] = ERROR
-----------------------------------------------------------------------------
(* The control API. *)

CallRecord ==
    [pc : {"reading", "answering", "over", "panicked"}, request : ApiRequests,
     arrived : 0 .. 2, performed : BOOLEAN, code : {"none", "ok", "refused"}, nonce : BOOLEAN]

\* What a handler has done for its request, and what it will say.
CallInv(k) ==
    /\ k.pc \in {"reading", "panicked"} => ~k.performed /\ ~k.nonce /\ k.code = "none"
    /\ k.performed => /\ k.arrived = 2 /\ k.request.header = "right"
                      /\ setup.secret => k.request.auth = "right"
    /\ k.nonce => setup.secret /\ k.request.auth = "right"
    /\ (k.code # "none" /\ Mutates(k.request)) => (k.code = "ok" <=> k.performed)

ControlInv ==
    /\ setup \in Setups /\ apiOk \in BOOLEAN /\ panics \in BOOLEAN
    /\ api \in {"accepting", "stopping", "ended"}
    /\ calls \in [Calls -> {NoCall} \cup CallRecord]
    /\ \A c \in Calls : calls[c] # NoCall => CallInv(calls[c])
    /\ api = "accepting" => apiOk
    /\ api = "ended" => Handled = {}
    /\ panics => ~apiOk \/ \E c \in Calls : calls[c].pc = "panicked"

\* A handler that moves on, in a server that goes on.
LEMMA HandlerMoves ==
    ASSUME ControlInv, NEW c \in Calls, NEW k \in {NoCall} \cup CallRecord, Become(c, k),
           k # NoCall => CallInv(k), calls[c].pc \in {"none", "reading", "answering", "over"},
           api = "ended" => calls[c].pc # "none",
           UNCHANGED <<setup, api, apiOk, panics>>
    PROVE  ControlInv'
<1>1. \A d \in Calls : calls'[d] = IF d = c THEN k ELSE calls[d]
  BY DEF ControlInv, Become
<1>2. calls' \in [Calls -> {NoCall} \cup CallRecord]
  BY Zenon DEF ControlInv, Become
<1>3. \A d \in Calls : calls'[d] # NoCall => CallInv(calls[d])'
  BY <1>1 DEF ControlInv, CallInv
<1>4. api # "ended"
  BY DEF ControlInv, Handled
<1>5. panics' => ~apiOk' \/ \E d \in Calls : calls'[d].pc = "panicked"
  BY <1>1 DEF ControlInv
<1> QED BY <1>2, <1>3, <1>4, <1>5 DEF ControlInv

\* What State::route answers: the answer is true, and only whole and entitled
\* requests are performed.
LEMMA RouteAnswers ==
    ASSUME ControlInv, NEW c \in Calls, ApiRoute(c)
    PROVE  \E code \in {"ok", "refused"}, nonce, performed \in BOOLEAN :
              /\ Answer(c, code, nonce, performed)
              /\ performed => /\ calls[c].arrived = 2 /\ calls[c].request.header = "right"
                              /\ setup.secret => calls[c].request.auth = "right"
              /\ nonce => setup.secret /\ calls[c].request.auth = "right"
              /\ Mutates(calls[c].request) => (code = "ok" <=> performed)
<1>0. PICK r : r = calls[c].request
  OBVIOUS
<1>1. calls[c] # NoCall /\ calls[c] \in CallRecord /\ r \in ApiRequests
  BY <1>0 DEF ControlInv, ApiRoute, NoCall, CallRecord
<1>2. calls[c].arrived = 2 /\ r.header = "right"
  BY <1>0 DEF ApiRoute, Complete
<1>3. CASE Answer(c, "refused", FALSE, FALSE)
  BY Zenon, <1>3
<1>4. CASE /\ ~(OfConnection(r) /\ ~setup.secret) /\ Authorized(r)
           /\ OfConnection(r) /\ Answer(c, "refused", TRUE, FALSE)
  BY Zenon, <1>0, <1>4 DEF Authorized
<1>5. CASE ~(OfConnection(r) /\ ~setup.secret) /\ Authorized(r) /\ Operate(c, r)
  <2>1. CASE r.kind = "select"
    <3>1. setup.secret => r.auth = "right"
      BY Zenon, <1>1, <1>5, <2>1, RequestsAssumption DEF Authorized
    <3>2. PICK a \in BOOLEAN : Answer(c, Code(a /\ InSelectableGroup(r)), FALSE, a /\ Selects(r))
      BY Zenon, <1>5, <2>1 DEF Operate
    <3>3. PICK p \in BOOLEAN : p <=> (a /\ InSelectableGroup(r))
      BY Zenon
    <3>4. p = (a /\ InSelectableGroup(r)) /\ p = (a /\ Selects(r))
      BY <3>3 DEF Selects
    <3>5. Answer(c, Code(p), FALSE, p)
      BY Zenon, <3>2, <3>4
    <3>6. Code(p) \in {"ok", "refused"} /\ (Code(p) = "ok" <=> p)
      BY DEF Code
    <3> QED BY Zenon, <1>0, <1>2, <3>1, <3>5, <3>6
  <2>2. CASE r.kind = "close"
    <3>1. setup.secret /\ r.auth = "right"
      BY <1>5, <2>2 DEF Authorized, OfConnection
    <3>2. PICK f \in BOOLEAN : Answer(c, Code(f), TRUE, f)
      BY Zenon, <1>5, <2>2 DEF Operate
    <3>3. Code(f) \in {"ok", "refused"} /\ (Code(f) = "ok" <=> f)
      BY DEF Code
    <3> QED BY Zenon, <1>0, <1>2, <3>1, <3>2, <3>3
  <2>3. CASE r.kind = "probe"
    <3>1. setup.secret /\ r.auth = "right" /\ ~Mutates(r)
      BY <1>5, <2>3 DEF Authorized, OfConnection, Mutates
    <3>2. PICK f \in BOOLEAN : Answer(c, Code(f), TRUE, f)
      BY Zenon, <1>5, <2>3 DEF Operate
    <3>3. Code(f) \in {"ok", "refused"}
      BY DEF Code
    <3> QED BY Zenon, <1>0, <1>2, <3>1, <3>2, <3>3
  <2>4. CASE r.kind = "status"
    <3>1. ~Mutates(r)
      BY <2>4 DEF Mutates
    <3>2. PICK f \in BOOLEAN : Answer(c, Code(f), FALSE, FALSE)
      BY Zenon, <1>5, <2>4 DEF Operate
    <3>3. Code(f) \in {"ok", "refused"}
      BY DEF Code
    <3> QED BY Zenon, <1>0, <3>1, <3>2, <3>3
  <2>5. CASE r.kind \notin {"select", "close", "probe", "status"}
    BY Zenon, <1>3, <1>5, <2>5 DEF Operate
  <2> QED BY Zenon, <2>1, <2>2, <2>3, <2>4, <2>5
<1> QED BY Zenon, <1>0, <1>3, <1>4, <1>5 DEF ApiRoute, NonceOfRefused

\* An answer is prepared for a request that was being read.
LEMMA AnswerInv ==
    ASSUME ControlInv, NEW c \in Calls, calls[c].pc = "reading", UNCHANGED <<setup, api, apiOk, panics>>,
           NEW code \in {"ok", "refused"}, NEW nonce \in BOOLEAN, NEW performed \in BOOLEAN,
           Answer(c, code, nonce, performed),
           performed => /\ calls[c].arrived = 2 /\ calls[c].request.header = "right"
                        /\ setup.secret => calls[c].request.auth = "right",
           nonce => setup.secret /\ calls[c].request.auth = "right",
           Mutates(calls[c].request) => (code = "ok" <=> performed)
    PROVE  ControlInv'
<1>1. PICK v \in CallRecord : v = calls[c]
  BY DEF ControlInv, NoCall
<1>2. PICK k : k = [v EXCEPT !.pc = "answering", !.code = code, !.nonce = nonce, !.performed = performed]
  BY Zenon
<1>3. /\ k \in CallRecord /\ k.pc = "answering" /\ k.code = code /\ k.nonce = nonce
      /\ k.performed = performed /\ k.request = v.request /\ k.arrived = v.arrived
  BY Zenon, <1>2 DEF CallRecord
<1>4. CallInv(k)
  BY Zenon, <1>1, <1>3 DEF CallInv
<1> QED BY Zenon, <1>1, <1>2, <1>3, <1>4, HandlerMoves DEF Answer

\* The steps of a handler.
LEMMA HandlerInv ==
    ASSUME ControlInv, NEW c \in Calls,
           \/ \E request \in ApiRequests : ApiAccept(c, request)
           \/ Arrives(c) \/ ApiRoute(c) \/ Malformed(c) \/ Incomplete(c) \/ Answered(c)
           \/ HandlerPanics(c) \/ ApiJoin(c) \/ ApiAbort(c)
    PROVE  ControlInv'
<1>0. calls[c] \in {NoCall} \cup CallRecord /\ (calls[c] # NoCall => CallInv(calls[c]))
  BY DEF ControlInv
<1>1. ASSUME NEW request \in ApiRequests, ApiAccept(c, request) PROVE ControlInv'
  <2>1. PICK k : k = [NoCall EXCEPT !.pc = "reading", !.request = request]
    OBVIOUS
  <2>2. k = [pc |-> "reading", request |-> request, arrived |-> 0, performed |-> FALSE,
             code |-> "none", nonce |-> FALSE]
    BY Zenon, <2>1 DEF NoCall
  <2>3. k \in CallRecord /\ CallInv(k)
    BY SMTT(60), <2>2 DEF CallRecord, CallInv
  <2> QED BY Zenon, <1>1, <2>1, <2>3, HandlerMoves DEF ApiAccept
<1>2. CASE Arrives(c)
  <2>1. PICK v \in CallRecord : v = calls[c] /\ CallInv(v) /\ v.pc = "reading" /\ v.arrived < 2
    BY <1>0, <1>2 DEF Arrives, NoCall
  <2>2. PICK k : k = [v EXCEPT !.arrived = v.arrived + 1]
    BY Zenon
  <2>3. v.arrived + 1 \in 0 .. 2
    BY SMTT(60), <2>1 DEF CallRecord
  <2>4. /\ k \in CallRecord /\ k.pc = "reading" /\ k.code = v.code /\ k.nonce = v.nonce
        /\ k.performed = v.performed
    BY Zenon, <2>1, <2>2, <2>3 DEF CallRecord
  <2>5. CallInv(k)
    BY Zenon, <2>1, <2>4 DEF CallInv
  <2> QED BY Zenon, <1>2, <2>1, <2>2, <2>4, <2>5, HandlerMoves DEF Arrives
<1>3. CASE ApiRoute(c)
  <2>1. calls[c].pc = "reading" /\ UNCHANGED <<setup, api, apiOk, panics>>
    BY <1>3 DEF ApiRoute
  <2> QED BY Zenon, <1>3, <2>1, RouteAnswers, AnswerInv
<1>4. CASE Malformed(c) \/ Incomplete(c)
  <2>1. /\ calls[c].pc = "reading" /\ UNCHANGED <<setup, api, apiOk, panics>>
        /\ Answer(c, "refused", FALSE, FALSE)
    BY ZenonT(40), <1>4 DEF Malformed, Incomplete
  <2> QED BY Zenon, <2>1, AnswerInv
<1>5. CASE Answered(c)
  <2>0. calls[c].pc = "answering"
    BY Zenon, <1>5 DEF Answered
  <2>1. PICK v \in CallRecord : v = calls[c] /\ CallInv(v) /\ v.pc = "answering"
    BY SMTT(40), <1>0, <2>0 DEF NoCall
  <2>2. PICK read \in BOOLEAN :
          Become(c, [v EXCEPT !.pc = "over", !.code = IF read THEN @ ELSE "none", !.nonce = read /\ @])
    BY Zenon, <1>5, <2>1 DEF Answered
  <2>3. PICK n \in BOOLEAN : n = (read /\ v.nonce)
    BY Zenon
  <2>4. PICK code : code = IF read THEN v.code ELSE "none"
    OBVIOUS
  <2>k. PICK k : k = [v EXCEPT !.pc = "over", !.code = code, !.nonce = n]
    OBVIOUS
  <2>5. /\ k \in CallRecord /\ k.pc = "over" /\ k.code \in {v.code, "none"} /\ (k.nonce => v.nonce)
        /\ k.performed = v.performed /\ k.request = v.request /\ k.arrived = v.arrived
    <3>1. n => v.nonce
      BY Zenon, <2>3
    <3>2. code \in {v.code, "none"}
      BY Zenon, <2>4
    <3> QED BY Zenon, <2>k, <3>1, <3>2 DEF CallRecord
  <2>6. CallInv(k)
    BY <2>1, <2>5 DEF CallInv
  <2>7. Become(c, k)
    BY Zenon, <2>2, <2>3, <2>4, <2>k
  <2> QED BY Zenon, <1>5, <2>1, <2>5, <2>6, <2>7, HandlerMoves DEF Answered
<1>6. CASE HandlerPanics(c)
  <2>1. PICK v \in CallRecord : v = calls[c] /\ CallInv(v) /\ v.pc = "reading"
    BY <1>0, <1>6 DEF HandlerPanics, NoCall
  <2>2. PICK k : k = [v EXCEPT !.pc = "panicked"]
    BY Zenon
  <2>3. /\ k \in CallRecord /\ k.pc = "panicked" /\ k.code = v.code /\ k.nonce = v.nonce
        /\ k.performed = v.performed
    BY Zenon, <2>1, <2>2 DEF CallRecord
  <2>4. CallInv(k)
    BY <2>1, <2>3 DEF CallInv
  <2>5. calls' \in [Calls -> {NoCall} \cup CallRecord] /\ \A d \in Calls : calls'[d] = IF d = c THEN k ELSE calls[d]
    BY Zenon, <1>6, <2>1, <2>2, <2>3 DEF HandlerPanics, Become, ControlInv
  <2>6. \A d \in Calls : calls'[d] # NoCall => CallInv(calls[d])'
    BY <1>6, <2>4, <2>5 DEF ControlInv, CallInv, HandlerPanics
  <2>7. api # "ended"
    BY Zenon, <2>1 DEF ControlInv, Handled
  <2> QED BY <1>6, <2>3, <2>5, <2>6, <2>7 DEF ControlInv, HandlerPanics
<1>7. CASE ApiJoin(c)
  <2>1. calls' \in [Calls -> {NoCall} \cup CallRecord] /\ \A d \in Calls : calls'[d] = IF d = c THEN NoCall ELSE calls[d]
    BY Zenon, <1>7 DEF ApiJoin, Become, ControlInv
  <2>2. \A d \in Calls : calls'[d] # NoCall => CallInv(calls[d])'
    BY <1>7, <2>1 DEF ControlInv, CallInv, ApiJoin
  <2>3. CASE calls[c].pc = "panicked"
    <3>1. ~apiOk' /\ api' = "stopping" /\ apiOk' \in BOOLEAN
      BY Zenon, <1>7, <2>3 DEF ApiJoin, ApiFailed
    <3> QED BY Zenon, <1>7, <2>1, <2>2, <3>1 DEF ControlInv, ApiJoin
  <2>4. CASE calls[c].pc # "panicked"
    <3>1. apiOk' = apiOk /\ api' = api /\ api # "ended"
      BY <1>7, <2>4 DEF ApiJoin, ApiFailed, ControlInv
    <3>2. panics' => ~apiOk' \/ \E d \in Calls : calls'[d].pc = "panicked"
      BY Zenon, <1>7, <2>1, <2>4, <3>1 DEF ControlInv, ApiJoin
    <3> QED BY Zenon, <1>7, <2>1, <2>2, <3>1, <3>2 DEF ControlInv, ApiJoin
  <2> QED BY <2>3, <2>4
<1>8. CASE ApiAbort(c)
  BY <1>8, HandlerMoves DEF ApiAbort
<1> QED BY Zenon, <1>1, <1>2, <1>3, <1>4, <1>5, <1>6, <1>7, <1>8

\* Every step of the control API's server keeps its invariant.
LEMMA ControlStepInv ==
    ASSUME ControlInv, [ControlNext]_apiServerVars
    PROVE  ControlInv'
<1>1. CASE UNCHANGED apiServerVars
  BY Zenon, <1>1 DEF apiServerVars, ControlInv, CallInv, Handled
<1>2. ASSUME NEW failed \in BOOLEAN, ApiStop(failed) PROVE ControlInv'
  BY Zenon, <1>2 DEF ApiStop, ControlInv, CallInv
<1>3. CASE ApiEnds
  BY <1>3 DEF ApiEnds, ControlInv, CallInv, Handled, Joined
<1> QED BY Zenon, <1>1, <1>2, <1>3, HandlerInv DEF ControlNext

\* What the control API tells its clients and the instance is what happened, and
\* only whole and entitled requests make something happen.
THEOREM ControlHolds == ControlSpec => []ControlIsTrue
<1>1. ControlInit => ControlInv
  BY Zenon DEF ControlInit, ControlInv, Handled
<1>2. ControlInv => ControlIsTrue
  <2> SUFFICES ASSUME ControlInv PROVE ControlIsTrue
    BY Zenon
  <2>1. ASSUME NEW c \in Calls PROVE
          /\ (Delivered(c) /\ Mutates(calls[c].request)) => (calls[c].code = "ok" <=> calls[c].performed)
          /\ calls[c].performed => /\ calls[c].arrived = 2 /\ calls[c].request.header = "right"
                                   /\ setup.secret => calls[c].request.auth = "right"
          /\ calls[c].nonce => setup.secret /\ calls[c].request.auth = "right"
    BY DEF ControlInv, CallInv, Delivered, NoCall
  <2>2. PanicIsReported
    BY DEF ControlInv, PanicIsReported, Handled
  <2> QED BY Zenon, <2>1, <2>2 DEF ControlIsTrue, AnswersAreTrue, OnlyWholeRequests, NonceForOwners
<1> QED BY <1>1, <1>2, ControlStepInv, PTL DEF ControlSpec
-----------------------------------------------------------------------------
(* What the receiver sees: the frames it got, followed by those that wait. *)

\* recv_from takes a frame from the queue; what is seen stays.
LEMMA SeenStays ==
    ASSUME NEW a \in Seq(Nat), NEW b \in Seq(Nat), b # <<>>
    PROVE  /\ Append(a, Head(b)) \in Seq(Nat) /\ Tail(b) \in Seq(Nat)
           /\ Append(a, Head(b)) \o Tail(b) = a \o b
<1>1. /\ Head(b) \in Nat /\ Head(b) = b[1] /\ Tail(b) \in Seq(Nat) /\ Len(Tail(b)) = Len(b) - 1
      /\ \A i \in 1 .. Len(b) - 1 : Tail(b)[i] = b[i + 1]
      /\ Len(b) \in Nat \ {0} /\ Len(a) \in Nat
  BY HeadTailProperties, EmptySeq
<1>2. /\ Append(a, Head(b)) \in Seq(Nat) /\ Len(Append(a, Head(b))) = Len(a) + 1
      /\ \A i \in 1 .. Len(a) + 1 : Append(a, Head(b))[i] = IF i <= Len(a) THEN a[i] ELSE b[1]
  BY <1>1
<1>3. PICK s \in Seq(Nat), t \in Seq(Nat) : s = Append(a, Head(b)) \o Tail(b) /\ t = a \o b
  BY Zenon, <1>1, <1>2, ConcatProperties
<1>4. Len(s) = Len(a) + Len(b) /\ Len(t) = Len(a) + Len(b)
  BY SMTT(60), <1>1, <1>2, <1>3, ConcatProperties
<1>5. ASSUME NEW i \in 1 .. Len(a) + Len(b) PROVE s[i] = t[i]
  <2>1. s[i] = IF i <= Len(a) + 1 THEN Append(a, Head(b))[i] ELSE Tail(b)[i - (Len(a) + 1)]
    BY SMTT(60), <1>1, <1>2, <1>3, ConcatProperties
  <2>2. t[i] = IF i <= Len(a) THEN a[i] ELSE b[i - Len(a)]
    BY <1>3, ConcatProperties
  <2>3. CASE i <= Len(a)
    BY <1>1, <1>2, <2>1, <2>2, <2>3
  <2>4. CASE i = Len(a) + 1
    BY <1>1, <1>2, <2>1, <2>2, <2>4
  <2>5. CASE i > Len(a) + 1
    <3>1. i - (Len(a) + 1) \in 1 .. Len(b) - 1 /\ i - (Len(a) + 1) + 1 = i - Len(a)
      BY <1>1, <2>5
    <3> QED BY SMTT(60), <1>1, <2>1, <2>2, <2>5, <3>1
  <2> QED BY SMTT(60), <1>1, <2>3, <2>4, <2>5
<1> QED BY Zenon, <1>1, <1>2, <1>3, <1>4, <1>5, SeqEqual

\* The worker queues a frame or the error; it comes last.
LEMMA SeenGrows ==
    ASSUME NEW a \in Seq(Nat), NEW b \in Seq(Nat), NEW x \in Nat, NEW d, d = Append(b, x),
           NEW n, n = Len(a) + Len(b) + 1, NEW s, s = a \o b, NEW t, t = a \o d
    PROVE  /\ d \in Seq(Nat) /\ t \in Seq(Nat)
           /\ n \in Nat \ {0} /\ Len(s) = n - 1 /\ Len(t) = n
           /\ t[n] = x /\ t # <<>>
           /\ \A i \in 1 .. n - 1 : t[i] = s[i]
<1>1. /\ d \in Seq(Nat) /\ Len(d) = Len(b) + 1 /\ Len(a) \in Nat /\ Len(b) \in Nat
      /\ \A i \in 1 .. Len(b) : d[i] = b[i]
      /\ d[Len(b) + 1] = x
  OBVIOUS
<1>2. /\ a \o d \in Seq(Nat) /\ Len(a \o d) = n
      /\ \A i \in 1 .. n : (a \o d)[i] = IF i <= Len(a) THEN a[i] ELSE d[i - Len(a)]
  <2>1. /\ a \o d \in Seq(Nat) /\ Len(a \o d) = Len(a) + Len(d)
        /\ \A i \in 1 .. Len(a) + Len(d) : (a \o d)[i] = IF i <= Len(a) THEN a[i] ELSE d[i - Len(a)]
    BY <1>1, ConcatProperties, Zenon
  <2>2. Len(a) + Len(d) = n
    BY <1>1
  <2> QED BY Zenon, <2>1, <2>2
<1>b. /\ Len(a \o b) = n - 1
      /\ \A i \in 1 .. n - 1 : (a \o b)[i] = IF i <= Len(a) THEN a[i] ELSE b[i - Len(a)]
  BY <1>1, ConcatProperties
<1>3. (a \o d)[n] = x
  BY <1>1, <1>2
<1>4. a \o d # <<>>
  BY <1>1, <1>2, EmptySeq
<1>5. ASSUME NEW i \in 1 .. n - 1 PROVE (a \o d)[i] = (a \o b)[i]
  <2>1. i \in 1 .. n /\ (i <= Len(a) \/ (~(i <= Len(a)) /\ i - Len(a) \in 1 .. Len(b)))
    BY SMTT(60), <1>1
  <2>2. (a \o d)[i] = IF i <= Len(a) THEN a[i] ELSE d[i - Len(a)]
    BY <1>2, <2>1, Zenon
  <2>3. (a \o b)[i] = IF i <= Len(a) THEN a[i] ELSE b[i - Len(a)]
    BY <1>b, Zenon
  <2>4. ~(i <= Len(a)) => d[i - Len(a)] = b[i - Len(a)]
    BY <1>1, <2>1, Zenon
  <2> QED BY Zenon, <2>2, <2>3, <2>4
<1>6. n \in Nat \ {0}
  BY SMTT(60), <1>1
<1> QED BY Zenon, <1>1, <1>2, <1>b, <1>3, <1>4, <1>5, <1>6

\* What was seen stays in order while the reader goes on.
LEMMA QueuedStays ==
    ASSUME DatagramTypeOK, NEW s \in Seq(Nat), QueuedInv(s), UNCHANGED broken,
           reader' \in [start : Nat, read : Nat], reader.start <= reader'.start,
           worker = "ended" => worker' = "ended"
    PROVE  QueuedInv(s)'
<1>1. reader.start \in Nat /\ reader'.start \in Nat
  BY DEF DatagramTypeOK
<1>2. \A i \in 1 .. Len(s) : s[i] \in Nat
  BY Zenon, ElementOfSeq
<1> QED BY SMTT(60), <1>1, <1>2 DEF QueuedInv

\* A frame that is read starts after all that were read before.
LEMMA LaterFrame ==
    ASSUME NEW x \in Nat, NEW y \in Nat, NEW start \in Nat, start < 2 * x, 2 * y <= start
    PROVE  y < x
OBVIOUS

\* What is queued next was read later than everything before it, or is the error.
LEMMA QueuedGrows ==
    ASSUME DatagramTypeOK, NEW s \in Seq(Nat), NEW t \in Seq(Nat), NEW x \in Nat, NEW n \in Nat \ {0},
           Len(s) = n - 1, Len(t) = n, t[n] = x, \A i \in 1 .. n - 1 : t[i] = s[i],
           QueuedInv(s), UNCHANGED broken, worker # "ended",
           reader' \in [start : Nat, read : Nat], reader.start <= reader'.start,
           \/ x = ERROR /\ worker' = "ended"
           \/ x # ERROR /\ x < broken /\ reader.start < 2 * x /\ 2 * x <= reader'.start
    PROVE  QueuedInv(t)'
<1>1. reader.start \in Nat /\ reader'.start \in Nat /\ ERROR = 0
  BY Zenon DEF DatagramTypeOK, ERROR
<1>2. \A i \in 1 .. n - 1 : s[i] \in Nat /\ s[i] # ERROR /\ s[i] < broken /\ 2 * s[i] <= reader.start
  BY Zenon, ElementOfSeq DEF QueuedInv
<1>3. ASSUME NEW i \in 1 .. n PROVE
        /\ t[i] = ERROR => i = n /\ worker' = "ended"
        /\ t[i] # ERROR =>
            /\ t[i] < broken' /\ 2 * t[i] <= reader'.start
            /\ \A j \in 1 .. i - 1 : t[j] # ERROR => t[j] < t[i]
  <2>1. CASE i = n
    <3>1. ASSUME NEW j \in 1 .. n - 1, x # ERROR PROVE t[j] < x
      <4>1. PICK y \in Nat : y = s[j] /\ y = t[j] /\ 2 * y <= reader.start
        BY Zenon, <1>2
      <4>2. reader.start < 2 * x
        BY <3>1
      <4> QED BY Zenon, <1>1, <4>1, <4>2, LaterFrame
    <3> QED BY Zenon, <2>1, <3>1
  <2>2. CASE i # n
    <3>1. i \in 1 .. n - 1 /\ \A j \in 1 .. i - 1 : j \in 1 .. n - 1
      BY <2>2
    <3>2. \A j \in 1 .. i - 1 : s[j] # ERROR => s[j] < s[i]
      BY Zenon, <1>2, <3>1 DEF QueuedInv
    <3>3. t[i] = s[i] /\ 2 * t[i] <= reader'.start /\ t[i] # ERROR /\ t[i] < broken'
      <4>1. PICK y \in Nat : y = s[i] /\ y = t[i] /\ 2 * y <= reader.start /\ y # ERROR /\ y < broken
        BY Zenon, <1>2, <3>1
      <4> QED BY SMTT(60), <1>1, <4>1
    <3> QED BY Zenon, <2>2, <3>1, <3>2, <3>3
  <2> QED BY Zenon, <2>1, <2>2
<1> QED BY Zenon, <1>3 DEF QueuedInv

Ends == worker = "ended" => Seen # <<>> /\ Seen[Len(Seen)] = ERROR

\* Steps of the reading half leave the writing half alone.
LEMMA WriterStays ==
    ASSUME WriterInv, UNCHANGED <<outbox, pending, written, accepted>>
    PROVE  WriterInv'
BY DEF WriterInv, Taken, WireIsWhole

\* Steps of the writing half leave the reading half alone, and may end the worker.
LEMMA ReaderStays ==
    ASSUME DatagramInv, UNCHANGED readVars, worker' = worker \/ (worker = "running" /\ worker' = "failing")
    PROVE  ReaderInv' /\ QueuedInv(Seen)' /\ Ends'
<1>0. UNCHANGED <<broken, arrived, reader, inbox, delivered>>
  BY DEF readVars
<1>1. ReaderInv'
  BY <1>0 DEF DatagramInv, ReaderInv
<1>2. PICK s \in Seq(Nat) : s = Seen /\ QueuedInv(s)
  BY Zenon, ConcatProperties DEF DatagramInv, DatagramTypeOK, Seen
<1>3. Seen' = s
  BY <1>0, <1>2 DEF Seen
<1>4. QueuedInv(s)'
  BY SMTT(30), <1>0, <1>2, QueuedStays DEF DatagramInv, DatagramTypeOK
<1>5. Ends'
  BY <1>2, <1>3 DEF Ends, DatagramInv
<1> QED BY <1>1, <1>3, <1>4, <1>5

\* The worker's reading half, and recv_from.
LEMMA ReadingInv ==
    ASSUME DatagramInv, Arrival \/ ReadPart \/ ReadFails \/ WorkerFails \/ ReceiveDatagram
    PROVE  DatagramInv'
<1>0. /\ DatagramTypeOK /\ ReaderInv /\ WriterInv /\ Ends
      /\ MaxIncoming \in Nat /\ arrived \in Nat /\ arrived <= 2 * MaxIncoming
  BY DatagramBounds DEF DatagramInv, DatagramTypeOK, Ends
<1>1. WriterInv'
  BY Zenon, <1>0, WriterStays DEF Arrival, ReadPart, ReadFails, WorkerFails, ReceiveDatagram, writeVars, sendVars
<1>2. PICK s \in Seq(Nat) : s = Seen /\ QueuedInv(s)
  BY Zenon, ConcatProperties DEF DatagramInv, DatagramTypeOK, Seen
<1>q. ASSUME DatagramTypeOK', ReaderInv', QueuedInv(Seen)', Ends' PROVE DatagramInv'
  BY Zenon, <1>1, <1>q DEF DatagramInv, Ends
<1>3. CASE Arrival
  <2>1. arrived' \in 0 .. 2 * MaxIncoming /\ arrived <= arrived'
    BY SMTT(60), <1>0, <1>3 DEF Arrival
  <2>2. DatagramTypeOK'
    BY Zenon, <1>0, <1>3, <2>1 DEF Arrival, DatagramTypeOK, writeVars, sendVars
  <2>3. ReaderInv'
    <3>1. PICK k \in 0 .. MaxIncoming :
            /\ reader.start = 2 * k /\ reader.read \in {reader.start, reader.start + 1}
            /\ reader.read <= arrived /\ (worker = "running" => k < broken)
      BY <1>0 DEF ReaderInv
    <3>2. reader.read <= arrived'
      BY <1>0, <2>1, <3>1
    <3> QED BY Zenon, <1>3, <3>1, <3>2 DEF ReaderInv, Arrival
  <2>4. Seen' = s /\ QueuedInv(s)'
    <3>1. UNCHANGED <<broken, reader, inbox, delivered, worker>>
      BY Zenon, <1>3 DEF Arrival
    <3>2. reader' \in [start : Nat, read : Nat] /\ reader.start <= reader'.start
      BY <1>0, <3>1 DEF DatagramTypeOK
    <3>3. QueuedInv(s)'
      BY Zenon, <1>0, <1>2, <3>1, <3>2, QueuedStays
    <3> QED BY <1>2, <3>1, <3>3 DEF Seen
  <2>5. Ends'
    BY <1>0, <1>2, <1>3, <2>4 DEF Ends, Arrival
  <2> QED BY Zenon, <1>q, <2>2, <2>3, <2>4, <2>5
<1>4. CASE ReadFails
  <2>1. UNCHANGED readVars /\ worker = "running" /\ worker' = "failing"
    BY Zenon, <1>4 DEF ReadFails, FailLater, readVars
  <2>2. DatagramTypeOK'
    BY Zenon, <1>0, <1>4, <2>1 DEF ReadFails, DatagramTypeOK, readVars, writeVars, sendVars
  <2> QED BY Zenon, <1>q, <2>1, <2>2, ReaderStays
<1>5. CASE ReceiveDatagram
  <2>1. delivered' \in Seq(Nat) /\ inbox' \in Seq(Nat) /\ Seen' = s
    BY Zenon, <1>0, <1>2, <1>5, SeenStays DEF ReceiveDatagram, Seen, DatagramTypeOK
  <2>2. DatagramTypeOK'
    BY <1>0, <1>5, <2>1 DEF ReceiveDatagram, DatagramTypeOK, writeVars, sendVars
  <2>3. ReaderInv'
    BY Zenon, <1>0, <1>5 DEF ReceiveDatagram, ReaderInv
  <2>4. QueuedInv(s)'
    BY <1>0, <1>2, <1>5, QueuedStays DEF ReceiveDatagram, DatagramTypeOK
  <2>5. Ends'
    BY Zenon, <1>0, <1>2, <1>5, <2>1 DEF Ends, ReceiveDatagram
  <2> QED BY Zenon, <1>q, <2>1, <2>2, <2>3, <2>4, <2>5
<1>6. CASE WorkerFails
  <2>1. PICK n : n = Len(delivered) + Len(inbox) + 1
    BY Zenon
  <2>2. /\ inbox' = Append(inbox, ERROR) /\ worker = "failing" /\ worker' = "ended" /\ ERROR \in Nat
        /\ UNCHANGED <<broken, arrived, reader, delivered, outbox, pending, written, accepted>>
    BY <1>6 DEF WorkerFails, QueueError, ERROR, writeVars, sendVars
  <2>3. inbox \in Seq(Nat) /\ delivered \in Seq(Nat)
    BY Zenon, <1>0 DEF DatagramTypeOK
  <2>4. PICK t : t = Seen' /\ t = delivered \o inbox' /\ s = delivered \o inbox
    BY Zenon, <1>2, <2>2 DEF Seen
  <2>5. /\ inbox' \in Seq(Nat) /\ t \in Seq(Nat) /\ n \in Nat \ {0} /\ Len(s) = n - 1 /\ Len(t) = n
        /\ t[n] = ERROR /\ t # <<>> /\ \A i \in 1 .. n - 1 : t[i] = s[i]
    BY SMTT(60), <2>1, <2>2, <2>3, <2>4, SeenGrows
  <2>7. DatagramTypeOK'
    BY <1>0, <2>2, <2>5 DEF DatagramTypeOK
  <2>8. ReaderInv'
    BY <1>0, <2>2 DEF ReaderInv
  <2>9. QueuedInv(t)'
    <3>1. reader' \in [start : Nat, read : Nat] /\ reader.start <= reader'.start
      BY <1>0, <2>2 DEF DatagramTypeOK
    <3> QED BY Zenon, <1>0, <1>2, <2>2, <2>5, <3>1, QueuedGrows
  <2>10. Ends'
    BY <2>4, <2>5 DEF Ends
  <2> QED BY <1>q, <2>4, <2>7, <2>8, <2>9, <2>10
<1>7. CASE ReadPart
  <2>1. PICK k \in 0 .. MaxIncoming :
          /\ reader.start = 2 * k /\ reader.read \in {2 * k, 2 * k + 1}
          /\ worker = "running" /\ k < broken /\ reader.read < arrived
    BY <1>0, <1>7 DEF ReaderInv, ReadPart
  <2>2. reader \in [start : Nat, read : Nat] /\ inbox \in Seq(Nat) /\ delivered \in Seq(Nat)
    BY Zenon, <1>0 DEF DatagramTypeOK
  <2>3. UNCHANGED <<broken, arrived, delivered, outbox, pending, written, accepted>>
    BY <1>7 DEF ReadPart, writeVars, sendVars
  <2>4. CASE reader.read = 2 * k
    <3>1. reader.read + 1 # reader.start + 2
      BY <2>1, <2>4
    <3>2. reader' = [reader EXCEPT !.read = reader.read + 1] /\ UNCHANGED <<inbox, worker>>
      BY Zenon, <1>7, <3>1 DEF ReadPart
    <3>3. /\ reader' \in [start : Nat, read : Nat] /\ reader'.start = reader.start
          /\ reader'.read = reader.start + 1 /\ reader.start <= reader'.start /\ reader'.read <= arrived
      <4>1. reader'.start = reader.start /\ reader'.read = reader.read + 1
            /\ reader' \in [start : Nat, read : Nat]
        <5>1. PICK r \in [start : Nat, read : Nat] : r = reader
          BY <2>2
        <5>2. PICK q : q = [r EXCEPT !.read = r.read + 1]
          BY Zenon
        <5>3. q \in [start : Nat, read : Nat] /\ q.start = r.start /\ q.read = r.read + 1
          BY SMTT(60), <5>2
        <5> QED BY Zenon, <3>2, <5>1, <5>2, <5>3
      <4>2. reader.start \in Nat /\ reader.read \in Nat
        BY <2>2
      <4> QED BY <1>0, <2>1, <2>4, <4>1, <4>2
    <3>4. DatagramTypeOK'
      BY <1>0, <2>3, <3>2, <3>3 DEF DatagramTypeOK
    <3>5. ReaderInv'
      BY Zenon, <2>1, <2>3, <3>2, <3>3 DEF ReaderInv
    <3>6. QueuedInv(s)'
      BY Zenon, <1>0, <1>2, <2>3, <3>2, <3>3, QueuedStays
    <3>7. Seen' = s
      BY Zenon, <1>2, <2>3, <3>2 DEF Seen
    <3>8. Ends'
      BY <2>1, <3>2 DEF Ends
    <3> QED BY Zenon, <1>q, <3>4, <3>5, <3>6, <3>7, <3>8
  <2>5. CASE reader.read = 2 * k + 1
    <3>1. reader.read + 1 = reader.start + 2 /\ reader.read + 1 = 2 * (k + 1)
      BY <2>1, <2>5
    <3>2. FrameAt(reader.start) = k + 1
      <4>1. (2 * k) % 2 = 0 /\ (2 * k) \div 2 = k
        OBVIOUS
      <4> QED BY Zenon, <2>1, <4>1 DEF FrameAt
    <3>3. k + 1 \in 0 .. MaxIncoming /\ k + 1 # ERROR /\ k + 1 \in Nat
      BY SMTT(60), <1>0, <2>1, <2>5 DEF ERROR
    <3>4. reader' = [start |-> 2 * (k + 1), read |-> 2 * (k + 1)]
      BY Zenon, <1>7, <3>1 DEF ReadPart
    <3>5. /\ reader' \in [start : Nat, read : Nat] /\ reader'.start = 2 * (k + 1)
          /\ reader'.read = reader'.start /\ reader.start <= reader'.start /\ reader'.read <= arrived
      BY SMTT(60), <1>0, <2>1, <2>5, <3>4
    <3>6. CASE k + 1 = broken
      <4>1. worker' = "failing" /\ UNCHANGED inbox
        BY Zenon, <1>7, <3>1, <3>2, <3>6 DEF ReadPart, FailLater
      <4>2. DatagramTypeOK'
        BY Zenon, <1>0, <2>3, <3>5, <4>1 DEF DatagramTypeOK
      <4>3. ReaderInv'
        BY Zenon, <2>3, <3>3, <3>5, <4>1 DEF ReaderInv
      <4>4. QueuedInv(s)'
        BY Zenon, <1>0, <1>2, <2>1, <2>3, <3>5, <4>1, QueuedStays
      <4>5. Seen' = s
        BY <1>2, <2>3, <4>1 DEF Seen
      <4>6. Ends'
        BY Zenon, <4>1 DEF Ends
      <4> QED BY <1>q, <4>2, <4>3, <4>4, <4>5, <4>6
    <3>7. CASE k + 1 # broken
      <4>0. k + 1 < broken
        BY SMTT(60), <1>0, <2>1, <3>7 DEF DatagramTypeOK
      <4>1. UNCHANGED worker /\ inbox' \in {inbox, Append(inbox, k + 1)}
        BY <1>7, <3>1, <3>2, <3>7 DEF ReadPart
      <4>2. inbox' \in Seq(Nat)
        <5>1. PICK x \in Nat : x = k + 1
          BY <3>3
        <5>2. Append(inbox, x) \in Seq(Nat)
          BY SMTT(60), <2>2
        <5> QED BY Zenon, <2>2, <4>1, <5>1, <5>2
      <4>3. DatagramTypeOK'
        BY Zenon, <1>0, <2>3, <3>5, <4>1, <4>2 DEF DatagramTypeOK
      <4>4. ReaderInv'
        BY Zenon, <2>3, <3>3, <3>5, <4>0, <4>1 DEF ReaderInv
      <4>5. QueuedInv(Seen)'
        <5>1. CASE inbox' = inbox
          <6>1. QueuedInv(s)'
            BY Zenon, <1>0, <1>2, <2>3, <3>5, <4>1, QueuedStays
          <6>2. Seen' = s
            BY Zenon, <1>2, <2>3, <5>1 DEF Seen
          <6> QED BY Zenon, <6>1, <6>2
        <5>2. CASE inbox' = Append(inbox, k + 1)
          <6>1. PICK n : n = Len(delivered) + Len(inbox) + 1
            BY Zenon
          <6>2. PICK t : t = Seen' /\ t = delivered \o inbox' /\ s = delivered \o inbox
            BY Zenon, <1>2, <2>3 DEF Seen
          <6>x. PICK x \in Nat : x = k + 1
            BY <3>3
          <6>3. /\ t \in Seq(Nat) /\ n \in Nat \ {0} /\ Len(s) = n - 1 /\ Len(t) = n
                /\ t[n] = x /\ \A i \in 1 .. n - 1 : t[i] = s[i]
            BY SMTT(60), <2>2, <5>2, <6>1, <6>2, <6>x, SeenGrows
          <6>5. reader.start < 2 * x /\ 2 * x <= reader'.start /\ x < broken /\ x # ERROR
            BY SMTT(40), <2>1, <3>3, <3>5, <4>0, <6>x
          <6>6. QueuedInv(t)'
            BY Zenon, <1>0, <1>2, <2>1, <2>3, <3>5, <6>3, <6>5, QueuedGrows
          <6> QED BY <6>2, <6>6
        <5> QED BY <4>1, <5>1, <5>2
      <4>6. Ends'
        BY Zenon, <2>1, <4>1 DEF Ends
      <4> QED BY Zenon, <1>q, <4>3, <4>4, <4>5, <4>6
    <3> QED BY Zenon, <3>6, <3>7
  <2> QED BY <2>1, <2>4, <2>5
<1> QED BY Zenon, <1>3, <1>4, <1>5, <1>6, <1>7

\* An accepted datagram goes to the end of the queue.
LEMMA EnqueueInv ==
    ASSUME DatagramTypeOK, WriterInv, Enqueue, UNCHANGED <<pending, written>>
    PROVE  outbox' \in Seq(Nat) /\ accepted' \in Nat /\ WriterInv'
<1>0. accepted \in Nat /\ outbox \in Seq(Nat) /\ Len(outbox) \in Nat /\ Taken \in Nat
  BY DEF DatagramTypeOK, WriterInv
<1>1. CASE UNCHANGED <<outbox, accepted>>
  BY <1>0, <1>1, WriterStays
<1>2. CASE outbox' = Append(outbox, accepted + 1) /\ accepted' = accepted + 1
  <2>1. PICK x \in Nat : x = accepted + 1
    BY <1>0
  <2>2. /\ outbox' \in Seq(Nat) /\ Len(outbox') = Len(outbox) + 1 /\ outbox'[Len(outbox) + 1] = x
        /\ \A i \in 1 .. Len(outbox) : outbox'[i] = outbox[i]
    BY SMTT(60), <1>0, <1>2, <2>1
  <2>3. Taken' = Taken /\ x = Taken + (Len(outbox) + 1)
    BY <1>0, <1>2, <2>1, <2>2 DEF Taken
  <2>4. \A i \in 1 .. Len(outbox') : outbox'[i] = Taken' + i
    <3>1. ASSUME NEW i \in 1 .. Len(outbox) + 1 PROVE outbox'[i] = Taken + i
      <4>1. CASE i = Len(outbox) + 1
        BY Zenon, <2>2, <2>3, <4>1
      <4>2. CASE i # Len(outbox) + 1
        <5>1. i \in 1 .. Len(outbox)
          BY SMTT(60), <1>0, <4>2
        <5> QED BY <2>2, <5>1 DEF WriterInv
      <4> QED BY <4>1, <4>2
    <3> QED BY Zenon, <2>2, <2>3, <3>1
  <2>5. WriterInv'
    BY <2>3, <2>4 DEF WriterInv, WireIsWhole
  <2> QED BY Zenon, <1>2, <2>1, <2>2, <2>5
<1> QED BY <1>1, <1>2 DEF Enqueue

\* The two parts of a frame are the next two of the stream.
LEMMA PartOfFrame ==
    ASSUME NEW n \in Nat, n > 0, NEW p \in 0 .. 1
    PROVE  (2 * n - 2 + p + 1 + 1) \div 2 = n
BY SMTT(60)

\* The worker's writing half.
LEMMA WritingInv ==
    ASSUME DatagramInv, TakeFrame \/ WritePart \/ WriteFails
    PROVE  DatagramInv'
<1>0. /\ DatagramTypeOK /\ WriterInv /\ accepted \in Nat /\ outbox \in Seq(Nat) /\ Len(outbox) \in Nat
      /\ Taken \in Nat /\ pending \in [number : Nat, parts : 0 .. 1] /\ written \in Seq(Nat)
      /\ Len(written) \in Nat
  BY SMTT(60) DEF DatagramInv, DatagramTypeOK, WriterInv
<1>q. ASSUME DatagramTypeOK', WriterInv', UNCHANGED readVars,
             worker' = worker \/ (worker = "running" /\ worker' = "failing")
      PROVE  DatagramInv'
  BY <1>q, ReaderStays DEF DatagramInv, Ends
<1>1. CASE WriteFails
  <2>1. UNCHANGED <<readVars, outbox, pending, written, accepted>> /\ worker = "running" /\ worker' = "failing"
    BY Zenon, <1>1 DEF WriteFails, WriteGivesUp, FailLater, readVars, sendVars
  <2>2. DatagramTypeOK'
    BY Zenon, <1>0, <2>1 DEF DatagramTypeOK, readVars
  <2>3. WriterInv'
    BY <1>0, <2>1, WriterStays
  <2> QED BY Zenon, <1>q, <2>1, <2>2, <2>3
<1>2. CASE TakeFrame
  <2>1. /\ UNCHANGED <<readVars, written, accepted, worker>> /\ outbox # <<>> /\ pending = NoFrame
        /\ outbox' = Tail(outbox) /\ pending' = [number |-> Head(outbox), parts |-> 0]
    BY Zenon, <1>2 DEF TakeFrame, ReaderKept, readVars, sendVars
  <2>2. /\ Head(outbox) = outbox[1] /\ Len(outbox) \in Nat \ {0} /\ outbox' \in Seq(Nat)
        /\ Len(outbox') = Len(outbox) - 1 /\ \A i \in 1 .. Len(outbox') : outbox'[i] = outbox[i + 1]
    BY SMTT(60), <1>0, <2>1, EmptySeq, HeadTailProperties
  <2>3. Taken' = Taken + 1 /\ Head(outbox) = Taken + 1
    <3>1. 1 \in 1 .. Len(outbox)
      BY SMTT(60), <2>2
    <3>2. outbox[1] = Taken + 1
      BY Zenon, <1>0, <3>1 DEF WriterInv
    <3> QED BY <1>0, <2>1, <2>2, <3>2 DEF Taken
  <2>4. pending' \in [number : Nat, parts : 0 .. 1] /\ pending'.number = Taken + 1 /\ pending'.parts = 0
        /\ pending' # NoFrame
    BY SMTT(60), <1>0, <2>1, <2>3 DEF NoFrame
  <2>5. \A i \in 1 .. Len(outbox') : outbox'[i] = Taken' + i
    <3>1. ASSUME NEW i \in 1 .. Len(outbox) - 1 PROVE outbox[i + 1] = Taken + 1 + i
      <4>1. i + 1 \in 1 .. Len(outbox)
        BY <2>2
      <4>2. outbox[i + 1] = Taken + (i + 1)
        BY Zenon, <1>0, <4>1 DEF WriterInv
      <4> QED BY SMTT(60), <1>0, <4>2
    <3> QED BY <2>2, <2>3, <3>1
  <2>6. Len(written) = 2 * Taken
    BY Zenon, <1>0, <2>1 DEF WriterInv
  <2>7. Taken' \in Nat /\ Taken' > 0 /\ Len(written') = 2 * Taken' - 2 + pending'.parts
    BY SMTT(60), <1>0, <2>1, <2>3, <2>4, <2>6
  <2>8. WriterInv'
    BY Zenon, <1>0, <2>1, <2>3, <2>4, <2>5, <2>7 DEF WriterInv, WireIsWhole
  <2>9. DatagramTypeOK'
    BY Zenon, <1>0, <2>1, <2>2, <2>4 DEF DatagramTypeOK, readVars
  <2> QED BY Zenon, <1>q, <2>1, <2>8, <2>9
<1>3. CASE WritePart
  <2>1. PICK p \in [number : Nat, parts : 0 .. 1] : p = pending /\ p # NoFrame
    BY Zenon, <1>0, <1>3 DEF WritePart
  <2>2. /\ UNCHANGED <<readVars, outbox, accepted, worker>>
        /\ written' = Append(written, p.number)
        /\ pending' = IF p.parts = 1 THEN NoFrame ELSE [p EXCEPT !.parts = p.parts + 1]
    BY Zenon, <1>3, <2>1 DEF WritePart, sendVars
  <2>3. p.number = Taken /\ Taken > 0 /\ Len(written) = 2 * Taken - 2 + p.parts /\ p.parts \in 0 .. 1
    BY Zenon, <1>0, <2>1 DEF WriterInv
  <2>4. Taken' = Taken
    BY <2>2 DEF Taken
  <2>5. /\ written' \in Seq(Nat) /\ Len(written') = Len(written) + 1
        /\ written'[Len(written) + 1] = Taken /\ \A i \in 1 .. Len(written) : written'[i] = written[i]
    <3>1. PICK x \in Nat : x = Taken /\ written' = Append(written, x)
      BY <1>0, <2>2, <2>3
    <3>2. written \in Seq(Nat)
      BY Zenon, <1>0
    <3> QED BY SMTT(60), <3>1, <3>2
  <2>6. WireIsWhole'
    <3>1. (Len(written) + 1 + 1) \div 2 = Taken
      BY Zenon, <1>0, <2>3, PartOfFrame
    <3>l. PICK l \in Nat : l = Len(written)
      BY <1>0
    <3>2. ASSUME NEW i \in 1 .. Len(written) + 1 PROVE written'[i] = (i + 1) \div 2
      <4>1. CASE i = Len(written) + 1
        BY Zenon, <2>5, <3>1, <4>1
      <4>2. CASE i # Len(written) + 1
        <5>1. i \in 1 .. Len(written)
          BY <3>l, <4>2
        <5>2. written[i] = (i + 1) \div 2
          BY ZenonT(40), <1>0, <5>1, LenProperties DEF WriterInv, WireIsWhole
        <5> QED BY Zenon, <2>5, <5>1, <5>2
      <4> QED BY Zenon, <4>1, <4>2
    <3>3. DOMAIN written' = 1 .. Len(written) + 1
      BY Zenon, <2>5, LenProperties
    <3> QED BY <3>2, <3>3 DEF WireIsWhole
  <2>7. /\ pending' \in [number : Nat, parts : 0 .. 1]
        /\ pending' # NoFrame => pending'.number = Taken
        /\ Len(written') = IF pending' = NoFrame THEN 2 * Taken ELSE 2 * Taken - 2 + pending'.parts
    <3>1. CASE p.parts = 1
      <4>1. pending' = NoFrame
        BY Zenon, <2>2, <3>1
      <4>2. NoFrame \in [number : Nat, parts : 0 .. 1]
        BY DEF NoFrame
      <4> QED BY <1>0, <2>3, <2>5, <3>1, <4>1, <4>2
    <3>2. CASE p.parts = 0
      <4>1. PICK q : q = [p EXCEPT !.parts = 1]
        BY Zenon
      <4>2. q \in [number : Nat, parts : 0 .. 1] /\ q.number = p.number /\ q.parts = 1 /\ q # NoFrame
        BY SMTT(60), <4>1 DEF NoFrame
      <4>3. pending' = q
        BY <2>2, <3>2, <4>1
      <4> QED BY <1>0, <2>3, <2>5, <3>2, <4>2, <4>3
    <3> QED BY SMTT(60), <2>3, <3>1, <3>2
  <2>8. WriterInv'
    BY Zenon, <1>0, <2>2, <2>3, <2>4, <2>6, <2>7 DEF WriterInv
  <2>9. DatagramTypeOK'
    BY Zenon, <1>0, <2>2, <2>5, <2>7 DEF DatagramTypeOK, readVars
  <2> QED BY <1>q, <2>2, <2>8, <2>9
<1> QED BY Zenon, <1>1, <1>2, <1>3

\* send_to never waits for the stream.
LEMMA SendingInv ==
    ASSUME DatagramInv, (\E h \in Hosts : SendTo(h)) \/ SendResolved \/ SendFails
    PROVE  DatagramInv'
<1>0. DatagramTypeOK /\ WriterInv
  BY DEF DatagramInv
<1>1. UNCHANGED <<readVars, pending, written, worker>> /\ (Enqueue \/ UNCHANGED <<outbox, accepted>>)
  BY Zenon DEF SendTo, SendResolved, SendFails, writeVars
<1>2. outbox' \in Seq(Nat) /\ accepted' \in Nat /\ WriterInv'
  <2>1. CASE Enqueue
    BY Zenon, <1>0, <1>1, <2>1, EnqueueInv
  <2>2. CASE UNCHANGED <<outbox, accepted>>
    BY Zenon, <1>0, <1>1, <2>2, WriterStays DEF DatagramTypeOK
  <2> QED BY <1>1, <2>1, <2>2
<1>3. DatagramTypeOK'
  BY Zenon, <1>0, <1>1, <1>2 DEF DatagramTypeOK, readVars
<1>4. ReaderInv' /\ QueuedInv(Seen)' /\ Ends'
  BY Zenon, <1>1, ReaderStays
<1> QED BY Zenon, <1>2, <1>3, <1>4 DEF DatagramInv, Ends

\* The first state of a session, whichever frame of the server is malformed.
LEMMA DatagramInitInv ==
    ASSUME DatagramInit
    PROVE  DatagramInv
<1>1. DatagramTypeOK
  <2>1. arrived \in 0 .. 2 * MaxIncoming
    BY DatagramBounds DEF DatagramInit
  <2>2. <<>> \in Seq(Nat)
    OBVIOUS
  <2>3. pending \in [number : Nat, parts : 0 .. 1] /\ reader \in [start : Nat, read : Nat]
    BY SMTT(60) DEF DatagramInit, NoFrame
  <2> QED BY Zenon, <2>1, <2>2, <2>3 DEF DatagramInit, DatagramTypeOK
<1>2. ReaderInv
  <2>1. 0 \in 0 .. MaxIncoming /\ 0 < broken /\ 2 * 0 = 0
    BY SMTT(60), DatagramBounds DEF DatagramInit
  <2> QED BY <2>1 DEF DatagramInit, ReaderInv
<1>3. Seen = <<>> /\ Len(Seen) = 0
  BY DEF DatagramInit, Seen
<1>4. QueuedInv(Seen)
  BY SMTT(60), <1>3 DEF QueuedInv
<1>5. WriterInv
  BY DEF DatagramInit, WriterInv, Taken, WireIsWhole, NoFrame
<1> QED BY Zenon, <1>1, <1>2, <1>4, <1>5 DEF DatagramInv, DatagramInit

\* Every step of a session keeps its invariant.
LEMMA DatagramStepInv ==
    ASSUME DatagramInv, [DatagramNext]_datagramVars
    PROVE  DatagramInv'
<1>1. CASE UNCHANGED datagramVars
  <2>1. UNCHANGED <<readVars, outbox, pending, written, accepted, worker>>
    BY Zenon, <1>1 DEF datagramVars, writeVars, sendVars
  <2>2. DatagramTypeOK' /\ WriterInv'
    BY <2>1, WriterStays DEF DatagramInv, DatagramTypeOK, readVars
  <2> QED BY <2>1, <2>2, ReaderStays DEF DatagramInv, Ends
<1> QED BY Zenon, <1>1, ReadingInv, WritingInv, SendingInv DEF DatagramNext

\* Both directions of a UDP session over a stream carry whole datagrams in order,
\* however reads and writes interleave, and its error comes last.
THEOREM SessionHolds == DatagramSpec => []SessionIsWhole
<1>1. DatagramInv => SessionIsWhole
  <2> SUFFICES ASSUME DatagramInv PROVE SessionIsWhole
    OBVIOUS
  <2>1. PICK s \in Seq(Nat) : s = delivered \o inbox /\ QueuedInv(s) /\ s = Seen /\ DOMAIN s = 1 .. Len(s)
    BY ZenonT(40), ConcatProperties, LenProperties DEF DatagramInv, DatagramTypeOK, Seen
  <2>2. broken <= MaxIncoming + 1 /\ broken \in Nat /\ MaxIncoming \in Nat
    BY DatagramBounds DEF DatagramInv, DatagramTypeOK
  <2>3. ASSUME NEW i \in 1 .. Len(s), s[i] # ERROR PROVE s[i] # GARBAGE
    <3>1. s[i] \in Nat /\ s[i] < broken
      BY Zenon, <2>1, <2>3, ElementOfSeq DEF QueuedInv
    <3> QED BY <2>2, <3>1 DEF GARBAGE
  <2>4. FramesAreWhole
    BY ZenonT(40), <2>1, <2>3 DEF QueuedInv, FramesAreWhole
  <2>5. ErrorIsLast
    BY Zenon, <2>1 DEF QueuedInv, ErrorIsLast, DatagramInv
  <2>6. WireIsWhole
    BY DEF DatagramInv, WriterInv
  <2> QED BY <2>4, <2>5, <2>6 DEF SessionIsWhole
<1> QED BY <1>1, DatagramInitInv, DatagramStepInv, PTL DEF DatagramSpec
=============================================================================
