--------------------------- MODULE ConnectionProofs ---------------------------
(***************************************************************************)
(* Proofs about HttpConnection, in five parts, each of which uses those    *)
(* before it: what an answer says of the connection can be relied on, and  *)
(* the socket is released (ConnInv); what was received, and the temporary  *)
(* files (RecvInv); answers with a file are framed and have the parts      *)
(* asked for (Typed, AnswerInv); the bytes of a script, as FlattenSeq puts *)
(* them together; and the order of the requests (OrderInv).                *)
(***************************************************************************)
EXTENDS HttpConnection, ParserProofs

\* The places of a turn up to the return of the application, behind it, and behind the
\* choice of the connection parameters.
Before  == {"headers", "settings", "data", "body", "application"}
Ready   == Before \union {"accepted", "process"}
Sending == {"answer", "sending", "parts", "again"}

Shapes ==
  /\ {"turn", "keepAlive", "params", "code", "variant", "head", "garbled", "answer"}
       \subseteq DOMAIN req
  /\ \E S : handled \in Seq(S)

\* The requests that were handled and those that may still come are keep_alive_count
\* together, but for the one whose parameters have not been looked at.
Counted ==
  /\ req.keepAlive \in Nat
  /\ pc \in Ready \union {"params"} \/ req.params = "reuse" => req.keepAlive >= 1
  /\ req.variant = "HTTP_1" =>
       /\ Len(handled) <= KeepAlive
       /\ pc \in Ready \/ req.params = "reuse" => Len(handled) + req.keepAlive <= KeepAlive
       /\ pc = "params" => Len(handled) + req.keepAlive <= KeepAlive + 1

\* What an answer says is what the parameters of the request are.
Says(answer) ==
  /\ {"status", "promised", "sent", "announced", "max"} \subseteq DOMAIN answer
  /\ answer.announced = "keep-alive" =>
       req.params = "reuse" /\ (req.variant = "HTTP_1" => answer.max = req.keepAlive)
  /\ answer.announced = "close" => req.params # "reuse"

Announced ==
  /\ pc \in Before \union {"accepted", "params"} => req.params = "close"
  /\ pc \in Before \union {"accepted", "params", "answer", "terminated"} => out.announced = "none"
  /\ pc \in {"closing", "ended"} => req.params # "reuse"
  /\ pc = "process" => out.announced # "close"
  /\ Says(out)

Released ==
  /\ req.turn \in Nat /\ (pc = "accepted" => req.turn = 0)
  /\ SocketIsReleased

ConnInv == Shapes /\ Counted /\ Announced /\ Released

LEMMA ConnInit == Init => ConnInv
<1> SUFFICES ASSUME Init PROVE ConnInv
  OBVIOUS
<1>1. handled \in Seq({}) /\ Len(handled) = 0
  BY EmptySeq DEF Init
<1>2. KeepAlive \in Nat \ {0}
  BY ConnectionAssumption
<1>3. Shapes
  BY <1>1 DEF Init, Shapes, NoStatus
<1>4. Counted
  BY <1>1, <1>2 DEF Init, Counted
<1>5. Announced /\ Released
  BY DEF Init, Announced, Says, Released, SocketIsReleased, NoStatus, Before
<1> QED
  BY <1>3, <1>4, <1>5 DEF ConnInv

LEMMA Appended ==
  ASSUME NEW s, NEW e, \E S : s \in Seq(S)
  PROVE  /\ \E S : Append(s, e) \in Seq(S)
         /\ Len(s) \in Nat /\ Len(Append(s, e)) = Len(s) + 1
<1>1. PICK S : s \in Seq(S)
  OBVIOUS
<1>2. s \in Seq(S \union {e})
  BY <1>1, SeqMonotonic, Zenon
<1>3. /\ Append(s, e) \in Seq(S \union {e})
      /\ Len(s) \in Nat /\ Len(Append(s, e)) = Len(s) + 1
  BY <1>2, AppendProperties, LenProperties
<1> QED
  BY <1>3

\* What the headers of an answer say of the connection.
LEMMA WhatIsAnnounced ==
  ASSUME NEW status, NEW promised
  PROVE  Says(Announce([NoStatus EXCEPT !.status = status, !.promised = promised]))
BY DEF Announce, NoStatus, Says

\* A step that leaves the request and its history alone and neither begins nor ends a turn.
Inside == UNCHANGED <<secure, socket, session, req, handled>>

\* From one place before the application to another, or refused.
LEMMA StepBefore ==
  ASSUME ConnInv, Inside, pc \in Before,
         \/ pc' \in Before \union {"terminated"} /\ UNCHANGED out
         \/ pc' = "again" /\ \E status : out' = [NoStatus EXCEPT !.status = status]
  PROVE  ConnInv'
<1>1. Shapes'
  BY DEF ConnInv, Shapes, Inside
<1>2. Counted'
  BY DEF ConnInv, Counted, Announced, Inside, Before, Ready
<1>3. Announced'
  BY DEF ConnInv, Announced, Says, Inside, Before, NoStatus
<1>4. Released'
  BY DEF ConnInv, Released, SocketIsReleased, Inside, Before
<1> QED
  BY <1>1, <1>2, <1>3, <1>4 DEF ConnInv

\* From one place of an answer to another.
LEMMA StepSending ==
  ASSUME ConnInv, Inside, pc \in Sending, pc' \in Sending \ {"answer"},
         \/ /\ out'.announced = out.announced /\ out'.max = out.max /\ DOMAIN out' = DOMAIN out
         \/ \E status, promised :
              out' = Announce([NoStatus EXCEPT !.status = status, !.promised = promised])
  PROVE  ConnInv'
<1>0. Says(out')
  <2>1. CASE out'.announced = out.announced /\ out'.max = out.max /\ DOMAIN out' = DOMAIN out
    BY <2>1 DEF ConnInv, Announced, Says
  <2>2. ASSUME NEW status, NEW promised,
               out' = Announce([NoStatus EXCEPT !.status = status, !.promised = promised])
        PROVE  Says(out')
    BY <2>2, WhatIsAnnounced
  <2> QED
    BY <2>1, <2>2
<1>1. Shapes'
  BY DEF ConnInv, Shapes, Inside
<1>2. Counted'
  BY DEF ConnInv, Counted, Inside, Before, Ready, Sending
<1>3. Announced'
  BY <1>0 DEF ConnInv, Announced, Says, Inside, Before, Sending
<1>4. Released'
  BY DEF ConnInv, Released, SocketIsReleased, Inside, Sending
<1> QED
  BY <1>1, <1>2, <1>3, <1>4 DEF ConnInv

\* The turn of a request: its beginning.
LEMMA StepTurned ==
  ASSUME ConnInv, UNCHANGED <<secure, socket, session, handled>>,
         pc = "process", pc' \in {"headers", "again"}, req' = Turned, out' = NoStatus
  PROVE  ConnInv'
<1>1. Shapes'
  BY DEF ConnInv, Shapes, Turned, NoStatus
<1>2. Counted'
  BY DEF ConnInv, Shapes, Counted, Turned, Before, Ready
<1>3. Announced'
  BY DEF ConnInv, Shapes, Announced, Says, Turned, Before, NoStatus
<1>4. Released'
  BY DEF ConnInv, Shapes, Released, SocketIsReleased, Turned
<1> QED
  BY <1>1, <1>2, <1>3, <1>4 DEF ConnInv

\* The steps of Server::threadRequestCycle before the protocol is known.
LEMMA StepAccepted ==
  ASSUME ConnInv, Plain \/ HandshakeFails \/ Negotiate \/ NegotiateH2
  PROVE  ConnInv'
<1> USE DEF ConnInv, Shapes, Counted, Announced, Says, Released, SocketIsReleased, Before, Ready, link
<1>1. CASE Plain \/ Negotiate
  BY <1>1 DEF Plain, Negotiate
<1>2. CASE HandshakeFails
  BY <1>2 DEF HandshakeFails
<1>3. CASE NegotiateH2
  BY <1>3 DEF NegotiateH2
<1> QED
  BY <1>1, <1>2, <1>3

LEMMA StepGetRequest ==
  ASSUME ConnInv, GetRequest \/ GetRequestTimeout \/ GetRequestClosed
  PROVE  ConnInv'
<1>1. UNCHANGED <<secure, socket, session, handled>> /\ pc = "process"
      /\ req' = Turned /\ out' = NoStatus
  BY DEF GetRequest, GetRequestTimeout, GetRequestClosed, link
<1>2. pc' \in {"headers", "again"}
  BY DEF GetRequest, GetRequestTimeout, GetRequestClosed
<1> QED
  BY <1>1, <1>2, StepTurned

\* getRequestHeaders sets the request's head and whether its first line is another's.
LEMMA StepHeaders ==
  ASSUME ConnInv, GetRequestHeaders
  PROVE  ConnInv'
<1>1. CASE UNCHANGED req /\ Refuse(400)
  <2>1. Inside /\ pc \in Before
    BY <1>1 DEF GetRequestHeaders, Inside, link, Before
  <2> QED
    BY <1>1, <2>1, StepBefore DEF Refuse
<1>2. ASSUME NEW head, NEW garbled,
             req' = [req EXCEPT !.head = head, !.garbled = garbled],
             pc' = "settings", UNCHANGED out
      PROVE  ConnInv'
  <2>1. pc = "headers" /\ UNCHANGED <<secure, socket, session, handled>>
    BY DEF GetRequestHeaders, link
  <2> QED
    BY <1>2, <2>1 DEF ConnInv, Shapes, Counted, Announced, Says, Released, SocketIsReleased,
                      Before, Ready
<1> QED
  BY <1>1, <1>2, Zenon DEF GetRequestHeaders

LEMMA StepSettings ==
  ASSUME ConnInv, GetApplicationSettings
  PROVE  ConnInv'
<1>1. Inside /\ pc \in Before
  BY DEF GetApplicationSettings, Inside, link, Before
<1>2. \/ pc' \in Before \union {"terminated"} /\ UNCHANGED out
      \/ pc' = "again" /\ \E status : out' = [NoStatus EXCEPT !.status = status]
  BY DEF GetApplicationSettings, Refuse, Before
<1> QED
  BY <1>1, <1>2, StepBefore

\* Whatever the parser made of a chunk.
LEMMA StepProceed ==
  ASSUME NEW got, NEW buf, NEW rest, Proceed(got, buf, rest)
  PROVE  \/ pc' \in Before \union {"terminated"} /\ UNCHANGED out
         \/ pc' = "again" /\ \E status : out' = [NoStatus EXCEPT !.status = status]
BY DEF Proceed, Refuse, Before

LEMMA StepData ==
  ASSUME ConnInv, GetRequestData \/ ReceiveData \/ ReceiveDataFails
  PROVE  ConnInv'
<1>1. Inside /\ pc \in Before
  <2>1. CASE GetRequestData
    BY <2>1 DEF GetRequestData, Inside, link, Before
  <2>2. CASE ReceiveData
    BY <2>2 DEF ReceiveData, Inside, link, Before
  <2>3. CASE ReceiveDataFails
    BY <2>3 DEF ReceiveDataFails, Inside, link, Before
  <2> QED
    BY <2>1, <2>2, <2>3
<1>2. \/ pc' \in Before \union {"terminated"} /\ UNCHANGED out
      \/ pc' = "again" /\ \E status : out' = [NoStatus EXCEPT !.status = status]
  <2>1. CASE GetRequestData
    BY <2>1, StepProceed DEF GetRequestData, Refuse, Before
  <2>2. CASE ReceiveData
    BY <2>2, StepProceed DEF ReceiveData
  <2>3. CASE ReceiveDataFails
    BY <2>3, StepProceed DEF ReceiveDataFails
  <2> QED
    BY <2>1, <2>2, <2>3
<1> QED
  BY <1>1, <1>2, StepBefore

\* The application returns: the request is counted.
LEMMA StepRun ==
  ASSUME ConnInv, RunApplication
  PROVE  ConnInv'
<1>1. PICK answer \in Answers :
        /\ req' = [req EXCEPT !.code = answer.code, !.answer = answer]
        /\ pc' = IF answer.code = "success" THEN "params" ELSE "again"
  BY DEF RunApplication
<1>2. PICK entry : handled' = Append(handled, entry)
  BY DEF RunApplication
<1>3. (\E S : handled' \in Seq(S)) /\ Len(handled) \in Nat /\ Len(handled') = Len(handled) + 1
  BY <1>2, Appended DEF ConnInv, Shapes
<1>4. UNCHANGED <<secure, socket, session, out>> /\ pc = "application"
  BY DEF RunApplication, link
<1>5. KeepAlive \in Nat
  BY ConnectionAssumption
<1> HIDE DEF RunApplication
<1>6. Shapes'
  BY <1>1, <1>3 DEF ConnInv, Shapes
<1>7. Counted'
  BY <1>1, <1>3, <1>4, <1>5 DEF ConnInv, Shapes, Counted, Announced, Before, Ready
<1>8. Announced'
  BY <1>1, <1>4 DEF ConnInv, Shapes, Announced, Says, Before
<1>9. Released'
  BY <1>1, <1>4 DEF ConnInv, Shapes, Released, SocketIsReleased
<1> QED
  BY <1>6, <1>7, <1>8, <1>9 DEF ConnInv

\* The parameters of the connection are chosen: keep_alive_count goes down.
LEMMA StepParams ==
  ASSUME ConnInv, GetConnectionParams
  PROVE  ConnInv'
<1>1. pc = "params" /\ pc' = "answer" /\ UNCHANGED <<secure, socket, session, out, handled>>
  BY DEF GetConnectionParams, link
<1>2. \/ req' = [req EXCEPT !.keepAlive = @ - 1,
                            !.params = IF req.keepAlive - 1 > 0 THEN "reuse" ELSE @]
      \/ req' = [req EXCEPT !.variant = "HTTP_2", !.params = "reuse"]
      \/ req' = [req EXCEPT !.params = "leave_open"]
      \/ UNCHANGED req
  BY DEF GetConnectionParams
<1>3. KeepAlive \in Nat /\ Len(handled) \in Nat
  BY ConnectionAssumption, LenProperties DEF ConnInv, Shapes
<1>4. Shapes'
  BY <1>1, <1>2 DEF ConnInv, Shapes
<1>5. Counted'
  <2> USE <1>1, <1>3 DEF ConnInv, Shapes, Counted, Announced, Before, Ready
  <2>1. CASE req' = [req EXCEPT !.keepAlive = @ - 1,
                                !.params = IF req.keepAlive - 1 > 0 THEN "reuse" ELSE @]
    <3>1. /\ req'.keepAlive = req.keepAlive - 1 /\ req'.variant = req.variant
          /\ req'.params = IF req.keepAlive - 1 > 0 THEN "reuse" ELSE "close"
      BY <2>1
    <3>2. req.keepAlive \in Nat /\ req.keepAlive >= 1
      OBVIOUS
    <3> QED
      BY <3>1, <3>2
  <2>2. CASE req' = [req EXCEPT !.variant = "HTTP_2", !.params = "reuse"]
    BY <2>2
  <2>3. CASE req' = [req EXCEPT !.params = "leave_open"] \/ UNCHANGED req
    BY <2>3
  <2> QED
    BY <1>2, <2>1, <2>2, <2>3
<1>6. Announced'
  BY <1>1, <1>2 DEF ConnInv, Shapes, Announced, Says, Before
<1>7. Released'
  BY <1>1, <1>2 DEF ConnInv, Shapes, Released, SocketIsReleased
<1> QED
  BY <1>4, <1>5, <1>6, <1>7 DEF ConnInv

\* The beginning of an answer.
LEMMA StepAnswer ==
  ASSUME ConnInv, XSendfileNone \/ XSendfileStatus \/ TransferFile \/ TransferFilePart
  PROVE  ConnInv'
<1>1. Inside /\ pc \in Sending
  BY DEF XSendfileNone, XSendfileStatus, TransferFile, TransferFilePart, Inside, link, Sending
<1>2. CASE XSendfileNone
  BY <1>1, <1>2, StepSending DEF XSendfileNone, Sending
<1>3. ASSUME NEW status, NEW promised, Reply(status, promised)
      PROVE  ConnInv'
  BY <1>1, <1>3, StepSending DEF Reply, Sending
<1>4. ASSUME NEW status, NEW promised, NEW f, NEW next, Begin(status, promised, f, next),
             next \in {"again", "sending", "parts"}
      PROVE  ConnInv'
  BY <1>1, <1>4, StepSending DEF Begin, Sending
<1>5. CASE XSendfileStatus
  BY <1>3, <1>5 DEF XSendfileStatus
<1>6. CASE TransferFile
  BY <1>4, <1>6 DEF TransferFile
<1>7. CASE TransferFilePart
  BY <1>3, <1>4, <1>7 DEF TransferFilePart
<1> QED
  BY <1>2, <1>5, <1>6, <1>7

LEMMA StepBlocks ==
  ASSUME ConnInv, SendBlock \/ SendPartBlock
  PROVE  ConnInv'
<1>1. Inside /\ pc \in Sending /\ pc' \in Sending \ {"answer"}
  BY DEF SendBlock, SendPartBlock, Inside, link, Sending
<1>2. \E sent : out' = [out EXCEPT !.sent = sent]
  BY DEF SendBlock, SendPartBlock
<1>3. out'.announced = out.announced /\ out'.max = out.max /\ DOMAIN out' = DOMAIN out
  BY <1>2 DEF ConnInv, Announced, Says
<1> QED
  BY <1>1, <1>3, StepSending

\* The end of a turn, and of the connection.
LEMMA StepEnds ==
  ASSUME ConnInv, Again \/ Close
  PROVE  ConnInv'
<1>1. CASE Again
  <2>1. /\ UNCHANGED <<secure, socket, session, req, handled, out>> /\ pc = "again"
        /\ \/ req.params = "reuse" /\ pc' = "process"
           \/ req.params = "leave_open" /\ pc' = "ended"
           \/ req.params # "reuse" /\ pc' = "closing"
    BY <1>1 DEF Again, link
  <2> QED
    BY <2>1 DEF ConnInv, Shapes, Counted, Announced, Says, Released, SocketIsReleased,
                Before, Ready
<1>2. CASE Close
  BY <1>2 DEF Close, ConnInv, Shapes, Counted, Announced, Says, Released, SocketIsReleased,
              Before, Ready
<1> QED
  BY <1>1, <1>2

LEMMA ConnStep == ConnInv /\ [Next]_vars => ConnInv'
<1> SUFFICES ASSUME ConnInv, [Next]_vars PROVE ConnInv'
  OBVIOUS
<1>1. CASE Server
  BY <1>1, StepAccepted, StepGetRequest, StepHeaders, StepSettings, StepData, StepRun,
     StepParams, StepAnswer, StepBlocks, StepEnds DEF Server
<1>2. CASE UNCHANGED <<pc, req, out, secure, socket, session, handled>>
  BY <1>2 DEF ConnInv, Shapes, Counted, Announced, Says, Released, SocketIsReleased
<1>3. ClientReads \/ FileChanges \/ Stopped \/ UNCHANGED vars
        => UNCHANGED <<pc, req, out, secure, socket, session, handled>>
  BY DEF ClientReads, FileChanges, Stopped, vars, link
<1> QED
  BY <1>1, <1>2, <1>3 DEF Next

\* The inductive invariant of a connection.
THEOREM ConnCorrect == Spec => []ConnInv
  BY ConnInit, ConnStep, PTL DEF Spec

\* What an answer says of the connection is kept, for every script, limit and answer:
\* nothing is read after "close", the connection goes on after "keep-alive", and
\* applications are called at most keep_alive_count times.
THEOREM AnnouncedIsKept == Spec => []KeepAliveIsKept
<1>1. ConnInv => KeepAliveIsKept
  <2> SUFFICES ASSUME ConnInv PROVE KeepAliveIsKept
    OBVIOUS
  <2>1. KeepAlive \in Nat /\ Len(handled) \in Nat
    BY ConnectionAssumption, LenProperties DEF ConnInv, Shapes
  <2> QED
    BY <2>1 DEF ConnInv, Counted, Announced, Says, KeepAliveIsKept
<1> QED
  BY <1>1, ConnCorrect, PTL

\* Every connection that the worker is done with is closed and its TLS session freed, or
\* left to an application, or was negotiated as HTTP/2.
THEOREM SocketsAreReleased == Spec => []SocketIsReleased
<1>1. ConnInv => SocketIsReleased
  BY DEF ConnInv, Released
<1> QED
  BY <1>1, ConnCorrect, PTL

-----------------------------------------------------------------------------
(* What was received of a script                                            *)

\* The units of a script.
SentBy(s) == [t : Words, r : DOMAIN s]

LEMMA IsSequence ==
  ASSUME NEW S, NEW n \in Nat, NEW f \in [1 .. n -> S]
  PROVE  f \in Seq(S) /\ Len(f) = n
OBVIOUS

LEMMA TokensTyped ==
  ASSUME NEW texts \in Texts, NEW R, NEW r \in R
  PROVE  Tokens(texts, r) \in Seq([t : Words, r : R]) /\ Len(Tokens(texts, r)) = Len(texts)
<1>1. PICK n \in Nat : n = Len(texts) /\ DOMAIN texts = 1 .. n
  BY LenProperties DEF Texts
<1>2. \A i \in 1 .. n : texts[i] \in Words
  BY <1>1, ElementOfSeq DEF Texts
<1>3. Tokens(texts, r) = [i \in 1 .. n |-> [t |-> texts[i], r |-> r]]
  BY <1>1 DEF Tokens
<1>4. Tokens(texts, r) \in [1 .. n -> [t : Words, r : R]]
  BY <1>2, <1>3
<1>5. Tokens(texts, r) \in Seq([t : Words, r : R]) /\ Len(Tokens(texts, r)) = n
  BY <1>4, IsSequence, Zenon
<1> QED
  BY <1>1, <1>5

\* Texts of literal tokens.
LEMMA SignsTyped ==
  /\ <<"bnd">> \in Texts /\ <<"eq">> \in Texts /\ <<"amp">> \in Texts
  /\ <<"nl", "bnd">> \in Texts /\ <<"fin", "nl">> \in Texts /\ <<"head", "nl", "nl">> \in Texts
<1>1. \A w \in Signs : w \in Words
  BY DEF Words
<1>2. /\ "bnd" \in Words /\ "eq" \in Words /\ "amp" \in Words /\ "nl" \in Words /\ "fin" \in Words
      /\ "head" \in Words
  BY <1>1 DEF Signs
<1> QED
  BY <1>2 DEF Texts

LEMMA PartTextTyped ==
  ASSUME NEW item \in Items
  PROVE  PartText(item) \in Texts /\ PairText(item) \in Texts
<1>1. item.kind \in Words /\ item.name \in Texts /\ item.value \in Texts /\ "nl" \in Words
  BY DEF Items, Words, Signs
<1>2. <<"nl", item.kind, "nl", "nl">> \in Texts
  BY <1>1 DEF Texts
<1>3. PartText(item) \in Texts
  BY <1>1, <1>2, SignsTyped, ConcatProperties DEF PartText, Texts
<1>4. PairText(item) \in Texts
  BY <1>1, SignsTyped, ConcatProperties DEF PairText, Texts
<1> QED
  BY <1>3, <1>4

LEMMA BodyTyped ==
  ASSUME NEW q \in Requests
  PROVE  BodyText(q) \in Texts
<1>1. PICK n \in Nat : n = Len(q.items) /\ DOMAIN q.items = 1 .. n
  BY LenProperties DEF Requests
<1>2. \A i \in 1 .. n : q.items[i] \in Items
  BY <1>1, ElementOfSeq DEF Requests
<1>3. \A i \in 1 .. n : /\ PartText(q.items[i]) \in Seq(Words)
                        /\ PairText(q.items[i]) \in Seq(Words)
                        /\ <<"amp">> \o PairText(q.items[i]) \in Seq(Words)
  <2> TAKE i \in 1 .. n
  <2>1. PartText(q.items[i]) \in Texts /\ PairText(q.items[i]) \in Texts
    BY <1>2, PartTextTyped
  <2> QED
    BY <2>1, SignsTyped, ConcatProperties DEF Texts
<1>4. [i \in 1 .. n |-> PartText(q.items[i])] \in Lists(Words)
  BY <1>3 DEF Lists
<1>5. [i \in 1 .. n |-> IF i = 1 THEN PairText(q.items[i]) ELSE <<"amp">> \o PairText(q.items[i])]
        \in Lists(Words)
  BY <1>3 DEF Lists
<1>6. CASE q.variant = "multipart"
  <2>1. PICK parts \in Seq(Words) : parts = FlattenSeq([i \in 1 .. n |-> PartText(q.items[i])])
    BY <1>4, FlattenTyped
  <2>2. q.epilogue \in Seq(Words) /\ <<"bnd">> \in Seq(Words) /\ <<"fin", "nl">> \in Seq(Words)
    BY SignsTyped DEF Requests, Texts
  <2>3. BodyText(q) = <<"bnd">> \o parts \o <<"fin", "nl">> \o q.epilogue
    BY <1>1, <1>6, <2>1 DEF BodyText
  <2> QED
    BY <2>2, <2>3, ConcatProperties DEF Texts
<1>7. CASE q.variant # "multipart"
  BY <1>1, <1>5, <1>7, FlattenTyped DEF BodyText, Texts
<1> QED
  BY <1>6, <1>7

\* A request as it is sent.
Message(s, r) == Tokens(<<"head", "nl", "nl">> \o BodyText(s[r]), r)

LEMMA MessageTyped ==
  ASSUME NEW s \in Scripts, NEW r \in DOMAIN s
  PROVE  /\ s[r] \in Requests /\ BodyText(s[r]) \in Texts
         /\ <<"head", "nl", "nl">> \o BodyText(s[r]) \in Texts
         /\ Message(s, r) \in Seq(SentBy(s)) /\ Len(Message(s, r)) = Len(BodyText(s[r])) + 3
<1>1. s \in Seq(Requests)
  BY ConnectionAssumption
<1>2. s[r] \in Requests
  BY <1>1, ElementOfSeq, LenProperties
<1>3. BodyText(s[r]) \in Texts
  BY <1>2, BodyTyped
<1>4. PICK a \in Seq(Words) : a = <<"head", "nl", "nl">> /\ Len(a) = 3
  BY SignsTyped DEF Texts
<1>5. a \o BodyText(s[r]) \in Texts /\ Len(a \o BodyText(s[r])) = Len(BodyText(s[r])) + 3
  BY <1>3, <1>4, ConcatProperties DEF Texts
<1>6. Message(s, r) \in Seq(SentBy(s)) /\ Len(Message(s, r)) = Len(BodyText(s[r])) + 3
  BY <1>4, <1>5, TokensTyped DEF Message, SentBy
<1> QED
  BY <1>2, <1>3, <1>4, <1>5, <1>6

Messages(s) == [r \in DOMAIN s |-> Message(s, r)]

LEMMA StreamTyped ==
  ASSUME NEW s \in Scripts
  PROVE  /\ Messages(s) \in Lists(SentBy(s)) /\ Len(Messages(s)) = Len(s)
         /\ StreamOf[s] = FlattenSeq(Messages(s))
         /\ StreamOf[s] \in Seq(SentBy(s)) /\ Len(StreamOf[s]) \in Nat
<1>1. PICK n \in Nat : n = Len(s) /\ DOMAIN s = 1 .. n
  BY ConnectionAssumption, LenProperties
<1>2. Messages(s) \in [1 .. n -> Seq(SentBy(s))]
  BY <1>1, MessageTyped DEF Messages
<1>3. Messages(s) \in Lists(SentBy(s)) /\ Len(Messages(s)) = n
  BY <1>2 DEF Lists
<1>4. StreamOf[s] = FlattenSeq(Messages(s))
  BY Zenon DEF StreamOf, Messages, Message
<1>5. FlattenSeq(Messages(s)) \in Seq(SentBy(s))
  BY <1>3, FlattenTyped
<1> QED
  BY <1>1, <1>3, <1>4, <1>5, LenProperties

LEMMA FromTyped ==
  ASSUME NEW S, NEW buf \in Seq(S), NEW cur \in Nat \ {0}
  PROVE  /\ From(buf, cur) \in Seq(S)
         /\ Len(From(buf, cur)) = IF cur <= Len(buf) THEN Len(buf) - cur + 1 ELSE 0
         /\ \A i \in 1 .. Len(buf) - cur + 1 : From(buf, cur)[i] = buf[cur + i - 1]
<1>1. Len(buf) \in Nat /\ \A i \in 1 .. Len(buf) : buf[i] \in S
  BY LenProperties, ElementOfSeq
<1>2. cur \in Int /\ Len(buf) \in Int /\ \A i \in cur .. Len(buf) : buf[i] \in S
  BY <1>1
<1>3. /\ SubSeq(buf, cur, Len(buf)) \in Seq(S)
      /\ Len(SubSeq(buf, cur, Len(buf))) = IF cur <= Len(buf) THEN Len(buf) - cur + 1 ELSE 0
      /\ \A i \in 1 .. Len(buf) - cur + 1 : SubSeq(buf, cur, Len(buf))[i] = buf[cur + i - 1]
  BY <1>2, SubSeqProperties
<1> QED
  BY <1>3 DEF From

LEMMA FirstTyped ==
  ASSUME NEW S, NEW buf \in Seq(S), NEW n \in 0 .. Len(buf)
  PROVE  /\ SubSeq(buf, 1, n) \in Seq(S) /\ Len(SubSeq(buf, 1, n)) = n
         /\ \A i \in 1 .. n : SubSeq(buf, 1, n)[i] = buf[i]
<1>1. Len(buf) \in Nat /\ \A i \in 1 .. Len(buf) : buf[i] \in S
  BY LenProperties, ElementOfSeq
<1>2. 1 \in Int /\ n \in Int /\ \A i \in 1 .. n : buf[i] \in S
  BY <1>1
<1>3. /\ SubSeq(buf, 1, n) \in Seq(S)
      /\ Len(SubSeq(buf, 1, n)) = IF 1 <= n THEN n - 1 + 1 ELSE 0
      /\ \A i \in 1 .. n - 1 + 1 : SubSeq(buf, 1, n)[i] = buf[1 + i - 1]
  BY <1>2, SubSeqProperties
<1>4. n - 1 + 1 = n /\ (IF 1 <= n THEN n - 1 + 1 ELSE 0) = n /\ \A i \in 1 .. n : 1 + i - 1 = i
  BY <1>1
<1> QED
  BY <1>3, <1>4

\* Up to the first zero byte.
LEMMA CStringTyped ==
  ASSUME NEW S, NEW text \in Seq(S)
  PROVE  /\ CString(text) \in Seq(S) /\ Len(CString(text)) \in 0 .. Len(text)
         /\ \A i \in 1 .. Len(CString(text)) : CString(text)[i] = text[i]
         /\ Len(CString(text)) < Len(text) => text[Len(CString(text)) + 1].t = "zero"
<1> DEFINE zero == Find(text, <<"zero">>, 1)
<1>0. Len(text) \in Nat
  BY LenProperties
<1>1. Len(<<"zero">>) = 1 /\ DOMAIN <<"zero">> = {1} /\ <<"zero">>[1] = "zero"
      /\ Len(text) - Len(<<"zero">>) + 1 = Len(text)
  BY <1>0
<1>2. \/ zero = NotFound
      \/ zero \in 1 .. Len(text) /\ At(text, <<"zero">>, zero)
  <2>0. PICK n \in Int : n = Len(text) /\ n = Len(text) - Len(<<"zero">>) + 1
    BY <1>0, <1>1
  <2>1. 1 \in Nat \ {0} /\ n = Len(text) - Len(<<"zero">>) + 1
    BY <2>0
  <2>2. LET place == Find(text, <<"zero">>, 1)
        IN  \/ place = NotFound /\ \A i \in 1 .. n : ~At(text, <<"zero">>, i)
            \/ /\ place \in 1 .. n /\ At(text, <<"zero">>, place)
               /\ \A i \in 1 .. place - 1 : ~At(text, <<"zero">>, i)
    BY <2>1, FindIs
  <2> QED
    BY <2>0, <2>2
<1>3. CString(text) = IF zero = NotFound THEN text ELSE SubSeq(text, 1, zero - 1)
  BY Zenon DEF CString
<1> HIDE DEF zero
<1>4. CASE zero = NotFound
  BY <1>0, <1>3, <1>4
<1>5. CASE zero # NotFound
  <2>1. zero \in 1 .. Len(text) /\ zero - 1 \in 0 .. Len(text) /\ zero - 1 + 1 = zero
    BY <1>0, <1>2, <1>5
  <2>2. /\ SubSeq(text, 1, zero - 1) \in Seq(S) /\ Len(SubSeq(text, 1, zero - 1)) = zero - 1
        /\ \A i \in 1 .. zero - 1 : SubSeq(text, 1, zero - 1)[i] = text[i]
    BY <2>1, FirstTyped
  <2>3. text[zero].t = "zero"
    <3>1. At(text, <<"zero">>, zero)
      BY <1>2, <1>5
    <3>2. text[zero + 1 - 1].t = "zero"
      BY <1>1, <3>1 DEF At
    <3>3. zero + 1 - 1 = zero
      BY <2>1
    <3> QED
      BY <3>2, <3>3
  <2> QED
    BY <1>3, <1>5, <2>1, <2>2, <2>3
<1> QED
  BY <1>4, <1>5

-----------------------------------------------------------------------------
(* Bodies and their files                                                   *)

AnyReceivers == [full : Nat, recv : Nat, left : Nat, ss : MultipartStates \union {NoState}]

\* The temporary files of a request are numbered as they were made, and all but one at most
\* were saved.
Listed(data, n) ==
  DOMAIN data.files = 1 .. n /\ \A i \in 1 .. n : data.files[i].tmp = i
FilesCounted(data) ==
  /\ {"fields", "files", "made"} \subseteq DOMAIN data
  /\ \E n \in Nat : Listed(data, n) /\ data.made \in {n, n + 1}
FilesSaved(data) == data.made \in Nat /\ Listed(data, data.made)

\* No file was made for a body without parts.
NoFiles(data) ==
  {"fields", "files", "made"} \subseteq DOMAIN data /\ data.files = <<>> /\ data.made = 0

\* What is held of a body between two of its chunks.
Holding(q, buf, data, d) ==
  /\ d.recv < d.full /\ q.variant \in {"form", "text", "multipart"}
  /\ IF q.variant = "multipart"
     THEN /\ data \in Data /\ d.ss \in MultipartStates
          /\ Numbered(data, d.ss) /\ d.ss.state # "SAVE_DATA_BLOCK"
          /\ d.ss.state = "FIND_DATA_BLOCK" =>
               d.left \in 2 .. Len(buf) /\ DelimiterAt(buf, Len(buf) - d.left + 1)
     ELSE NoFiles(data) /\ d.ss = NoState

\* What the caller of parse relies on.
GotWell(q, buf, made, got) ==
  /\ got.ok \in BOOLEAN /\ got.dies \in BOOLEAN /\ (got.dies => ~got.ok)
  /\ got.dr \in AnyReceivers /\ got.dr.recv <= got.dr.full
  /\ FilesCounted(got.rd) /\ got.rd.made >= made
  /\ got.ok /\ got.dr.recv < got.dr.full => Holding(q, buf, got.rd, got.dr)
  /\ got.ok /\ got.dr.recv = got.dr.full => FilesSaved(got.rd) /\ got.dr.left <= Len(buf)

LEMMA NoFilesCounted ==
  ASSUME NEW data, NoFiles(data)
  PROVE  FilesCounted(data) /\ FilesSaved(data)
<1>1. Listed(data, 0) /\ data.made = 0 /\ 0 \in Nat
  BY DEF NoFiles, Listed
<1> QED
  BY <1>1 DEF FilesCounted, FilesSaved, NoFiles

LEMMA NumberedCounted ==
  ASSUME NEW data \in Data, NEW ss, Numbered(data, ss)
  PROVE  FilesCounted(data) /\ (~Open(ss) => FilesSaved(data))
<1>1. {"fields", "files", "made"} \subseteq DOMAIN data /\ Len(data.files) \in Nat
      /\ DOMAIN data.files = 1 .. Len(data.files)
  BY LenProperties DEF Data
<1>2. PICK n \in Nat : n = Len(data.files)
  BY <1>1
<1>3. Listed(data, n)
  BY <1>1, <1>2 DEF Listed, Numbered
<1>4. data.made = n + (IF Open(ss) THEN 1 ELSE 0)
  BY <1>2, Zenon DEF Numbered
<1>5. data.made \in {n, n + 1} /\ (~Open(ss) => data.made = n)
  BY <1>4
<1> QED
  BY <1>1, <1>3, <1>5 DEF FilesCounted, FilesSaved

\* Whatever the variant of the body is.
LEMMA ParseIsGood ==
  ASSUME NEW buf \in Seq(Units), NEW data, NEW receiver \in AnyReceivers, NEW canOpen,
         receiver.left = 0, receiver.recv <= receiver.full,
         script[req.head].variant \in {"form", "text", "multipart"},
         IF script[req.head].variant = "multipart" THEN Parsable(buf, data, receiver)
                                                   ELSE NoFiles(data) /\ receiver.ss = NoState
  PROVE  GotWell(script[req.head], buf, data.made, Parse(buf, data, receiver, canOpen))
<1> DEFINE q == script[req.head]
           got == Parse(buf, data, receiver, canOpen)
<1>0. Len(buf) \in Nat
  BY LenProperties
<1>1. CASE q.variant = "multipart"
  <2>1. got = ParseMultipart(buf, data, receiver, canOpen)
    BY <1>1 DEF Parse
  <2>2. ParsedWell(buf, data, receiver, got) /\ data \in Data
    BY <1>1, <2>1, MultipartIsParsed DEF Parsable
  <2> HIDE DEF got
  <2>3. got.dr \in AnyReceivers /\ got.dr.recv <= got.dr.full /\ got.dr.ss \in MultipartStates
    BY <2>2 DEF ParsedWell, Receivers, AnyReceivers
  <2>4. FilesCounted(got.rd) /\ (~Open(got.dr.ss) => FilesSaved(got.rd))
    BY <2>2, NumberedCounted DEF ParsedWell
  <2>5. Complete(receiver) <=> got.dr.recv = got.dr.full
    BY <2>2 DEF Complete, ParsedWell
  <2>6. ASSUME LeftBehindEnd(buf, got.dr.left) PROVE got.dr.left <= Len(buf)
    BY <1>0, <2>6 DEF LeftBehindEnd
  <2>7. got.ok /\ got.dr.recv < got.dr.full => Holding(q, buf, got.rd, got.dr)
    <3>1. got.dr.recv < got.dr.full => ~Complete(receiver)
      BY <2>3, <2>5 DEF AnyReceivers
    <3> QED
      BY <1>1, <2>2, <2>3, <3>1 DEF ParsedWell, Holding
  <2> QED
    BY <2>2, <2>3, <2>4, <2>5, <2>6, <2>7 DEF GotWell, ParsedWell, got
<1>2. CASE q.variant # "multipart"
  <2>1. NoFiles(data) /\ receiver.ss = NoState
    BY <1>2
  <2>2. /\ receiver = [receiver EXCEPT !.left = receiver.left] /\ "left" \in DOMAIN receiver
        /\ receiver.left \in Nat
    BY DEF AnyReceivers
  <2>3. FieldsParsed(receiver, data, got)
    <3>1. got = ParseFormUrlencoded(buf, data, receiver) \/ got = ParseTextPlain(buf, data, receiver)
      BY <1>2 DEF Parse
    <3> QED
      BY <2>1, <2>2, <3>1, FormIsParsed DEF NoFiles
  <2> HIDE DEF got
  <2>4. NoFiles(got.rd) /\ got.rd.made >= data.made
    BY <2>1, <2>3 DEF FieldsParsed, NoFiles
  <2>5. /\ got.dr \in AnyReceivers /\ got.dr.recv = receiver.recv /\ got.dr.full = receiver.full
        /\ got.dr.ss = NoState
    BY <2>1, <2>2, <2>3 DEF FieldsParsed, AnyReceivers
  <2>6. got.dr.recv = got.dr.full => got.dr.left <= Len(buf)
    BY <1>0, <2>3, <2>5 DEF FieldsParsed, Complete
  <2> QED
    BY <1>2, <2>3, <2>4, <2>5, <2>6, NoFilesCounted DEF GotWell, FieldsParsed, Holding, got
<1> QED
  BY <1>1, <1>2

-----------------------------------------------------------------------------
(* What a connection has received, and its temporary files                  *)

Known == {"data", "body", "application", "params", "answer", "sending", "parts"}

\* What was received of the client's requests, and whose request it is.
Texted ==
  /\ script \in Scripts /\ taken \in 0 .. Len(StreamOf[script])
  /\ variants \subseteq {"form", "text", "multipart"}
  /\ strBuf \in Seq(SentBy(script)) /\ dataBuf \in Seq(SentBy(script))
  /\ req.head \in {0} \union DOMAIN script
  /\ pc \in Known => req.head \in DOMAIN script

\* Its body.
Received ==
  /\ dr \in AnyReceivers /\ dr.recv <= dr.full /\ FilesCounted(rd)
  /\ pc = "body" => Holding(script[req.head], dataBuf, rd, dr)
  /\ pc = "application" => FilesSaved(rd)

\* The files of a request exist from the parse that makes them to the return of the
\* application.  A refusal leaves the file of the block that was being received, and ends
\* the connection.
Refused ==
  /\ out.status = 400 /\ req.code = "failure" /\ req.params # "reuse"
  /\ \E x : disk \subseteq {x}
Disked ==
  /\ pc \in Before => req.code = "failure"
  /\ pc \in {"body", "application"} => disk = TmpFiles(rd)
  /\ pc \in {"again", "closing", "ended"} => disk = {} \/ Refused
  /\ pc \notin {"body", "application", "again", "closing", "ended", "terminated"} => disk = {}

RecvInv == Texted /\ Received /\ Disked

LEMMA RecvInit == Init => RecvInv
<1> SUFFICES ASSUME Init PROVE RecvInv
  OBVIOUS
<1>1. Texted
  <2>1. script \in Scripts /\ taken = 0 /\ strBuf = <<>> /\ dataBuf = <<>> /\ req.head = 0
        /\ pc = "accepted" /\ variants \subseteq {"form", "text", "multipart"}
    BY DEF Init
  <2>2. Len(StreamOf[script]) \in Nat
    BY <2>1, StreamTyped
  <2>3. taken \in 0 .. Len(StreamOf[script])
    BY <2>1, <2>2
  <2>4. <<>> \in Seq(SentBy(script))
    BY EmptySeq
  <2> QED
    BY <2>1, <2>3, <2>4 DEF Texted, Known
<1>2. Received
  <2>1. dr = [full |-> 0, recv |-> 0, left |-> 0, ss |-> NoState] /\ rd = NoData
        /\ pc = "accepted"
    BY DEF Init, NoReceiver, DataReceiver
  <2>2. dr \in AnyReceivers /\ dr.recv <= dr.full
    BY <2>1 DEF AnyReceivers
  <2>3. NoFiles(rd)
    BY <2>1 DEF NoFiles, NoData
  <2> QED
    BY <2>1, <2>2, <2>3, NoFilesCounted DEF Received
<1>3. Disked
  BY DEF Init, Disked, Before
<1> QED
  BY <1>1, <1>2, <1>3 DEF RecvInv

LEMMA UnitsSent ==
  ASSUME NEW s \in Scripts, NEW buf \in Seq(SentBy(s))
  PROVE  buf \in Seq(Units)
<1>1. DOMAIN s \subseteq Nat
  BY ConnectionAssumption
<1>2. SentBy(s) \subseteq Units
  BY <1>1 DEF SentBy, Units
<1> QED
  BY <1>2, SeqMonotonic, Zenon

LEMMA SegmentTyped ==
  ASSUME Texted, NEW k \in Nat, NEW n \in 1 .. Least(Available, k)
  PROVE  /\ Segment(n) \in Seq(SentBy(script)) /\ Len(Segment(n)) = n
         /\ taken + n \in 0 .. Len(StreamOf[script]) /\ n \in Nat /\ n <= k /\ n >= 1
<1>1. script \in Scripts /\ taken \in 0 .. Len(StreamOf[script])
  BY DEF Texted
<1>2. PICK len \in Nat : len = Len(StreamOf[script])
  BY <1>1, StreamTyped
<1>3. StreamOf[script] \in Seq(SentBy(script))
  BY <1>1, StreamTyped
<1>4. n \in Nat /\ n >= 1 /\ n <= k /\ taken + n \in 0 .. len /\ taken \in 0 .. len
  BY <1>1, <1>2 DEF Least, Available
<1>5. /\ taken + 1 \in Int /\ taken + n \in Int
      /\ \A i \in taken + 1 .. taken + n : StreamOf[script][i] \in SentBy(script)
  <2>1. \A i \in taken + 1 .. taken + n : i \in 1 .. len
    BY <1>4
  <2> QED
    BY <1>2, <1>3, <1>4, <2>1, ElementOfSeq
<1>6. Segment(n) \in Seq(SentBy(script)) /\ Len(Segment(n)) = n
  <2> DEFINE stream == StreamOf[script]
             from == taken + 1
             to == taken + n
  <2>1. from \in Int /\ to \in Int /\ \A i \in from .. to : stream[i] \in SentBy(script)
    BY <1>5
  <2>2. Segment(n) = SubSeq(stream, from, to) /\ (IF from <= to THEN to - from + 1 ELSE 0) = n
    BY <1>4 DEF Segment
  <2> HIDE DEF stream, from, to
  <2>3. /\ SubSeq(stream, from, to) \in Seq(SentBy(script))
        /\ Len(SubSeq(stream, from, to)) = IF from <= to THEN to - from + 1 ELSE 0
    BY <2>1, SubSeqProperties
  <2> QED
    BY <2>2, <2>3
<1> QED
  BY <1>2, <1>4, <1>6

LEMMA KeptTyped ==
  ASSUME NEW S, dataBuf \in Seq(S), dr.left \in Nat
  PROVE  /\ Kept \in Seq(S)
         /\ dr.left <= Len(dataBuf) =>
              /\ Len(Kept) = dr.left
              /\ \A i \in 1 .. dr.left : Kept[i] = dataBuf[Len(dataBuf) - dr.left + i]
<1>1. PICK len \in Nat : len = Len(dataBuf)
  BY LenProperties
<1>2. CASE dr.left > len
  BY <1>1, <1>2, EmptySeq DEF Kept
<1>3. CASE dr.left <= len
  <2>1. PICK cur \in Nat \ {0} : cur = len - dr.left + 1
    <3>1. len - dr.left + 1 \in Nat \ {0}
      BY <1>3
    <3> QED
      BY <3>1
  <2>2. Kept = From(dataBuf, cur)
    BY <1>1, <1>3, <2>1 DEF Kept
  <2>3. /\ Kept \in Seq(S)
        /\ Len(Kept) = IF cur <= len THEN len - cur + 1 ELSE 0
        /\ \A i \in 1 .. len - cur + 1 : Kept[i] = dataBuf[cur + i - 1]
    BY <1>1, <2>2, FromTyped
  <2>4. len - cur + 1 = dr.left /\ (IF cur <= len THEN len - cur + 1 ELSE 0) = dr.left
        /\ \A i \in 1 .. dr.left : cur + i - 1 = len - dr.left + i
    BY <2>1
  <2> QED
    BY <1>1, <2>3, <2>4
<1> QED
  BY <1>1, <1>2, <1>3

\* What follows a call of parse.
LEMMA ProceedIsGood ==
  ASSUME ConnInv, RecvInv, NEW got, NEW buf \in Seq(SentBy(script)),
         NEW rest \in Seq(SentBy(script)), Proceed(got, buf, rest), pc \in {"data", "body"},
         NEW made \in Nat, disk = { <<req.turn, n>> : n \in 1 .. made },
         GotWell(script[req.head], buf, made, got),
         UNCHANGED <<script, variants, req>>, taken' \in 0 .. Len(StreamOf[script])
  PROVE  RecvInv'
<1> DEFINE files == { <<req.turn, n>> : n \in 1 .. got.rd.made }
<1>0. /\ req.head \in DOMAIN script /\ req.code = "failure" /\ req.params = "close"
      /\ script \in Scripts /\ variants \subseteq {"form", "text", "multipart"}
  BY DEF RecvInv, Texted, Disked, ConnInv, Announced, Known, Before
<1>1. /\ got.ok \in BOOLEAN /\ got.dies \in BOOLEAN /\ (got.dies => ~got.ok)
      /\ got.dr \in AnyReceivers /\ got.dr.recv <= got.dr.full
      /\ got.dr.recv \in Nat /\ got.dr.full \in Nat /\ got.dr.left \in Nat
      /\ FilesCounted(got.rd) /\ got.rd.made >= made
  BY DEF GotWell, AnyReceivers
<1>2. PICK n \in Nat : Listed(got.rd, n) /\ got.rd.made \in {n, n + 1}
  BY <1>1 DEF FilesCounted
<1>3. /\ dataBuf' = buf /\ rd' = got.rd /\ dr' = got.dr
      /\ pc' \in {"terminated", "again", "body", "application"}
      /\ pc' = "body" => got.ok /\ got.dr.recv < got.dr.full
      /\ pc' = "application" => got.ok /\ got.dr.recv = got.dr.full
  BY <1>1 DEF Proceed, Refuse
<1>4. strBuf' \in Seq(SentBy(script))
  <2>1. CASE strBuf' = rest
    BY <2>1
  <2>2. CASE got.ok /\ got.dr.full <= got.dr.recv /\ got.dr.left # 0
             /\ strBuf' = From(buf, Len(buf) - got.dr.left + 1)
    <3>1. got.dr.recv = got.dr.full
      BY <1>1, <2>2
    <3>2. got.dr.left <= Len(buf) /\ Len(buf) \in Nat
      BY <2>2, <3>1, LenProperties DEF GotWell
    <3>3. Len(buf) - got.dr.left + 1 \in Nat \ {0}
      BY <1>1, <3>2
    <3> QED
      BY <2>2, <3>3, FromTyped
  <2> QED
    BY <2>1, <2>2 DEF Proceed
<1>5. Texted'
  BY <1>0, <1>3, <1>4 DEF Texted
<1>6. Received'
  <2>1. pc' = "body" => Holding(script[req.head], buf, got.rd, got.dr)
    BY <1>3 DEF GotWell
  <2>2. pc' = "application" => FilesSaved(got.rd)
    BY <1>3 DEF GotWell
  <2> QED
    BY <1>1, <1>3, <2>1, <2>2 DEF Received
<1>7. disk \subseteq files
  BY <1>1, <1>2
<1>8. TmpFiles(got.rd) = files /\ TmpFiles(rd)' = files
  BY <1>3 DEF TmpFiles
<1> HIDE DEF files
<1>9. ASSUME pc' = "terminated" PROVE Disked'
  BY <1>9 DEF Disked, Before
<1>10. ASSUME pc' = "again" PROVE Disked'
  <2>1. /\ out'.status = 400
        /\ disk' = (disk \union TmpFiles(got.rd)) \ Incoming(got.rd)
    BY <1>10 DEF Proceed, Refuse, NoStatus
  <2>2. disk' \subseteq {<<req.turn, n + 1>>}
    <3> SUFFICES ASSUME NEW x \in disk' PROVE x = <<req.turn, n + 1>>
      OBVIOUS
    <3>1. x \in files /\ x \notin Incoming(got.rd)
      BY <1>7, <1>8, <2>1
    <3>2. PICK k \in 1 .. got.rd.made : x = <<req.turn, k>>
      BY <3>1 DEF files
    <3>3. k \notin 1 .. n
      <4> SUFFICES ASSUME k \in 1 .. n PROVE FALSE
        OBVIOUS
      <4>1. k \in DOMAIN got.rd.files /\ got.rd.files[k].tmp = k
        BY <1>2 DEF Listed
      <4>2. x \in Incoming(got.rd)
        BY <3>2, <4>1 DEF Incoming
      <4> QED
        BY <3>1, <4>2
    <3>4. k = n + 1
      BY <1>2, <3>3
    <3> QED
      BY <3>2, <3>4
  <2>3. Refused'
    <3>1. \E x : disk' \subseteq {x}
      BY <2>2, Zenon
    <3> QED
      BY <1>0, <2>1, <3>1 DEF Refused
  <2> QED
    BY <1>10, <2>3 DEF Disked, Before
<1>11. ASSUME pc' \in {"body", "application"} PROVE Disked'
  <2>1. disk' = disk \union TmpFiles(got.rd)
    BY <1>11 DEF Proceed, Refuse
  <2>2. disk' = files
    BY <1>7, <1>8, <2>1
  <2> QED
    BY <1>0, <1>8, <1>11, <2>2 DEF Disked, Before
<1> QED
  BY <1>3, <1>5, <1>6, <1>9, <1>10, <1>11 DEF RecvInv

\* Where no file exists: outside the reception of a body.
LEMMA RecvApart ==
  ASSUME RecvInv, UNCHANGED <<script, variants, dataBuf, dr, rd, disk>>,
         pc \notin {"body", "application", "again", "closing", "ended", "terminated"},
         strBuf' \in Seq(SentBy(script)), taken' \in 0 .. Len(StreamOf[script]),
         req'.head \in {0} \union DOMAIN script, pc' \in Known => req'.head \in DOMAIN script,
         pc' \in Before => req'.code = "failure", pc' \notin {"body", "application"}
  PROVE  RecvInv'
<1>1. Texted'
  BY DEF RecvInv, Texted
<1>2. Received'
  BY DEF RecvInv, Received
<1>3. Disked'
  BY DEF RecvInv, Disked
<1> QED
  BY <1>1, <1>2, <1>3 DEF RecvInv

\* Nor was anything received.
LEMMA RecvQuiet ==
  ASSUME RecvInv, UNCHANGED <<client, variants, strBuf, body, disk>>,
         pc \notin {"body", "application", "again", "closing", "ended", "terminated"},
         req'.head \in {0} \union DOMAIN script, pc' \in Known => req'.head \in DOMAIN script,
         pc' \in Before => req'.code = "failure", pc' \notin {"body", "application"}
  PROVE  RecvInv'
<1>1. /\ strBuf' \in Seq(SentBy(script)) /\ taken' \in 0 .. Len(StreamOf[script])
      /\ UNCHANGED <<script, variants, dataBuf, dr, rd, disk>>
  BY DEF RecvInv, Texted, client, body
<1> QED
  BY <1>1, RecvApart

LEMMA RecvAccepted ==
  ASSUME ConnInv, RecvInv, Plain \/ HandshakeFails \/ Negotiate \/ NegotiateH2
  PROVE  RecvInv'
<1>1. /\ UNCHANGED <<client, variants, strBuf, body, disk>> /\ pc = "accepted"
      /\ pc' \in {"process", "ended"} /\ req'.head = req.head
  BY DEF Plain, HandshakeFails, Negotiate, NegotiateH2, link, ConnInv, Shapes
<1>2. req.head \in {0} \union DOMAIN script
  BY DEF RecvInv, Texted
<1> QED
  BY <1>1, <1>2, RecvQuiet DEF Known, Before

LEMMA RecvGetRequest ==
  ASSUME ConnInv, RecvInv, GetRequest \/ GetRequestTimeout \/ GetRequestClosed
  PROVE  RecvInv'
<1>1. /\ UNCHANGED <<script, variants, dataBuf, dr, rd, disk>> /\ pc = "process"
      /\ pc' \in {"headers", "again"} /\ req' = Turned
  BY DEF GetRequest, GetRequestTimeout, GetRequestClosed, link, body, client
<1>2. req'.head = 0 /\ req'.code = "failure"
  BY <1>1 DEF Turned, ConnInv, Shapes
<1>3. strBuf' \in Seq(SentBy(script)) /\ taken' \in 0 .. Len(StreamOf[script])
  <2>1. CASE GetRequest
    <3>1. PICK n \in 1 .. Least(Available, BufSize) :
            strBuf' = strBuf \o Segment(n) /\ taken' = taken + n
      BY <2>1 DEF GetRequest
    <3>2. Segment(n) \in Seq(SentBy(script)) /\ taken + n \in 0 .. Len(StreamOf[script])
      BY ConnectionAssumption, SegmentTyped DEF RecvInv
    <3>3. strBuf \in Seq(SentBy(script))
      BY DEF RecvInv, Texted
    <3> QED
      BY <3>1, <3>2, <3>3, ConcatProperties
  <2>2. CASE GetRequestTimeout \/ GetRequestClosed
    BY <2>2 DEF GetRequestTimeout, GetRequestClosed, client, RecvInv, Texted
  <2> QED
    BY <2>1, <2>2
<1> QED
  BY <1>1, <1>2, <1>3, RecvApart DEF Known

LEMMA RecvHeaders ==
  ASSUME ConnInv, RecvInv, GetRequestHeaders
  PROVE  RecvInv'
<1> DEFINE end   == Find(strBuf, EmptyLine, 1)
           heads == { i \in 1 .. end - 1 : strBuf[i].t = "head" }
<1>1. /\ UNCHANGED <<client, variants, body, disk>> /\ pc = "headers"
      /\ req.code = "failure" /\ req.head \in {0} \union DOMAIN script
  BY DEF GetRequestHeaders, link, RecvInv, Disked, Before, Texted
<1>2. CASE end = NotFound
  <2>1. UNCHANGED <<strBuf, req>> /\ pc' = "again"
    BY <1>2, Zenon DEF GetRequestHeaders, Refuse
  <2> QED
    BY <1>1, <2>1, RecvQuiet DEF Known, Before
<1>3. CASE end # NotFound
  <2>0. strBuf \in Seq(SentBy(script)) /\ Len(strBuf) \in Nat
    BY LenProperties DEF RecvInv, Texted
  <2>1. /\ req' = [req EXCEPT !.head = IF heads = {} THEN 0 ELSE strBuf[Min(heads)].r,
                              !.garbled = heads = {} \/ Min(heads) # 1]
        /\ strBuf' = From(strBuf, end + 2) /\ pc' = "settings"
    BY <1>3, Zenon DEF GetRequestHeaders
  <2>2. end \in 1 .. Len(strBuf) - 1
    BY <1>3, <2>0, FindEmptyLine
  <2>3. strBuf' \in Seq(SentBy(script))
    BY <2>0, <2>1, <2>2, FromTyped
  <2>4. heads # {} => strBuf[Min(heads)].r \in DOMAIN script
    <3> HAVE heads # {}
    <3>1. heads \in SUBSET Nat
      OBVIOUS
    <3>2. Min(heads) \in heads
      BY <3>1, MinIs
    <3>3. Min(heads) \in 1 .. Len(strBuf)
      BY <2>0, <2>2, <3>2
    <3>4. strBuf[Min(heads)] \in SentBy(script)
      BY <2>0, <3>3, ElementOfSeq
    <3> QED
      BY <3>4 DEF SentBy
  <2> HIDE DEF heads, end
  <2>5. req'.head \in {0} \union DOMAIN script /\ req'.code = "failure"
    BY <1>1, <2>1, <2>4 DEF ConnInv, Shapes
  <2>6. /\ UNCHANGED <<script, variants, dataBuf, dr, rd, disk>>
        /\ taken' \in 0 .. Len(StreamOf[script])
    BY <1>1 DEF client, body, RecvInv, Texted
  <2> QED
    BY <1>1, <2>1, <2>3, <2>5, <2>6, RecvApart DEF Known
<1> QED
  BY <1>2, <1>3

LEMMA RecvSettings ==
  ASSUME ConnInv, RecvInv, GetApplicationSettings
  PROVE  RecvInv'
<1>1. /\ UNCHANGED <<client, variants, strBuf, body, disk, req>> /\ pc = "settings"
      /\ req.head \in {0} \union DOMAIN script /\ req.code = "failure"
      /\ pc' = "again" \/ (pc' = "data" /\ req.head # 0)
  BY DEF GetApplicationSettings, Refuse, link, RecvInv, Texted, Disked, Before
<1> QED
  BY <1>1, RecvQuiet DEF Known, Before

\* The steps between the application and the end of its answer.
LEMMA RecvAnswers ==
  ASSUME ConnInv, RecvInv,
         GetConnectionParams \/ XSendfileNone \/ XSendfileStatus \/ TransferFile
           \/ TransferFilePart \/ SendBlock \/ SendPartBlock
  PROVE  RecvInv'
<1>1. UNCHANGED <<client, variants, strBuf, body, disk>>
  BY DEF GetConnectionParams, XSendfileNone, XSendfileStatus, TransferFile, TransferFilePart,
         SendBlock, SendPartBlock, link
<1>2. pc \in {"params", "answer", "sending", "parts"}
  BY DEF GetConnectionParams, XSendfileNone, XSendfileStatus, TransferFile, TransferFilePart,
         SendBlock, SendPartBlock
<1>3. req'.head = req.head
  BY DEF GetConnectionParams, XSendfileNone, XSendfileStatus, TransferFile, TransferFilePart,
         SendBlock, SendPartBlock, ConnInv, Shapes
<1>4. pc' \in {"answer", "sending", "parts", "again"}
  <2>1. CASE GetConnectionParams \/ XSendfileNone \/ XSendfileStatus
    BY <2>1 DEF GetConnectionParams, XSendfileNone, XSendfileStatus, Reply
  <2>2. CASE TransferFile
    BY <2>2 DEF TransferFile, Begin
  <2>3. CASE TransferFilePart
    BY <2>3 DEF TransferFilePart, Begin, Reply
  <2>4. CASE SendBlock
    BY <2>4 DEF SendBlock
  <2>5. CASE SendPartBlock
    BY <1>2, <2>5 DEF SendPartBlock
  <2> QED
    BY <2>1, <2>2, <2>3, <2>4, <2>5
<1>5. req.head \in DOMAIN script
  BY <1>2 DEF RecvInv, Texted, Known
<1> QED
  BY <1>1, <1>2, <1>3, <1>4, <1>5, RecvQuiet DEF Before

\* The end of a turn forgets the body, and goes on only where no file is left.
LEMMA RecvEnds ==
  ASSUME ConnInv, RecvInv, Again \/ Close
  PROVE  RecvInv'
<1>1. CASE Again
  <2>1. /\ UNCHANGED <<script, taken, variants, strBuf, req, out, disk>>
        /\ dataBuf' = <<>> /\ dr' = NoReceiver /\ rd' = NoData /\ pc = "again"
        /\ \/ req.params = "reuse" /\ pc' = "process"
           \/ pc' \in {"ended", "closing"}
    BY <1>1 DEF Again, client, link
  <2>2. Texted'
    BY <2>1, EmptySeq DEF RecvInv, Texted, Known
  <2>3. Received'
    <3>1. NoReceiver \in AnyReceivers /\ NoReceiver.recv <= NoReceiver.full
      BY DEF NoReceiver, DataReceiver, AnyReceivers
    <3>2. NoFiles(NoData)
      BY DEF NoFiles, NoData
    <3> QED
      BY <2>1, <3>1, <3>2, NoFilesCounted DEF Received
  <2>4. Disked'
    BY <2>1 DEF RecvInv, Disked, Refused, Before
  <2> QED
    BY <2>2, <2>3, <2>4 DEF RecvInv
<1>2. CASE Close
  <2>1. /\ UNCHANGED <<script, taken, variants, strBuf, dataBuf, dr, rd, req, out, disk>>
        /\ pc = "closing" /\ pc' = "ended"
    BY <1>2 DEF Close, client, body
  <2> QED
    BY <2>1 DEF RecvInv, Texted, Received, Disked, Refused, Known, Before
<1> QED
  BY <1>1, <1>2

\* What the first call of parse is given.
LEMMA FirstReceiver ==
  ASSUME NEW q \in Requests, NEW whole \in Nat, NEW here \in 0 .. whole,
         q.variant \in {"form", "text", "multipart"},
         NEW r, r = DataReceiver(whole, here, IF q.variant = "multipart"
                                              THEN StateMultipart(q.boundary) ELSE NoState),
         NEW buf
  PROVE  /\ r \in AnyReceivers /\ r.left = 0 /\ r.recv <= r.full
         /\ IF q.variant = "multipart" THEN Parsable(buf, NoData, r)
                                       ELSE NoFiles(NoData) /\ r.ss = NoState
<1>1. StateMultipart(q.boundary) \in MultipartStates
  <2>1. q.boundary \in BOOLEAN /\ <<>> \in Seq(Units)
    BY EmptySeq DEF Requests
  <2> QED
    BY <2>1 DEF StateMultipart, MultipartStates
<1>2. StateMultipart(q.boundary).state = "INITIALIZATION" /\ ~Open(StateMultipart(q.boundary))
  BY DEF StateMultipart, Open
<1>3. NoFiles(NoData) /\ NoData \in Data /\ Len(NoData.files) = 0 /\ DOMAIN NoData.files = {}
      /\ NoData.made = 0
  BY DEF NoFiles, NoData, Data
<1>4. CASE q.variant = "multipart"
  <2>1. PICK ss \in MultipartStates : ss = StateMultipart(q.boundary)
                                      /\ ss.state = "INITIALIZATION" /\ ~Open(ss)
    BY <1>1, <1>2
  <2>2. r = [full |-> whole, recv |-> here, left |-> 0, ss |-> ss]
    BY <1>4, <2>1 DEF DataReceiver
  <2>3. r \in AnyReceivers /\ r \in Receivers /\ r.left = 0 /\ r.recv <= r.full /\ r.ss = ss
    BY <2>2 DEF AnyReceivers, Receivers
  <2>4. Numbered(NoData, ss)
    BY <1>3, <2>1 DEF Numbered
  <2> QED
    BY <1>3, <1>4, <2>1, <2>3, <2>4 DEF Parsable
<1>5. CASE q.variant # "multipart"
  BY <1>3, <1>5 DEF DataReceiver, AnyReceivers
<1> QED
  BY <1>4, <1>5

LEMMA RecvData ==
  ASSUME ConnInv, RecvInv, GetRequestData
  PROVE  RecvInv'
<1> DEFINE q        == script[req.head]
           whole    == ContentLengthOf(q)
           here     == Least(Len(strBuf), whole)
           receiver == DataReceiver(whole, here, IF q.variant = "multipart"
                                                 THEN StateMultipart(q.boundary) ELSE NoState)
           first    == SubSeq(strBuf, 1, here)
<1>0. pc = "data" /\ UNCHANGED <<client, variants, script, req>>
  BY DEF GetRequestData, link, client
<1>1. /\ script \in Scripts /\ req.head \in DOMAIN script /\ disk = {} /\ req.code = "failure"
      /\ variants \subseteq {"form", "text", "multipart"} /\ strBuf \in Seq(SentBy(script))
      /\ taken' \in 0 .. Len(StreamOf[script])
  BY <1>0 DEF RecvInv, Texted, Disked, Known, Before, client
<1>2. CASE pc' = "again" /\ UNCHANGED <<strBuf, body, disk>>
  BY <1>0, <1>1, <1>2, RecvQuiet DEF Known, Before
<1>3. CASE pc' = "application" /\ rd' = NoData /\ UNCHANGED <<strBuf, dataBuf, dr, out, disk>>
  <2>1. NoFiles(NoData) /\ NoData.made = 0
    BY DEF NoFiles, NoData
  <2>2. Texted'
    BY <1>0, <1>1, <1>3 DEF RecvInv, Texted
  <2>3. Received'
    BY <1>3, <2>1, NoFilesCounted DEF RecvInv, Received
  <2>4. Disked'
    <3>1. { <<req.turn, n>> : n \in 1 .. 0 } = {}
      OBVIOUS
    <3>2. TmpFiles(rd)' = {}
      BY <1>0, <1>3, <2>1, <3>1 DEF TmpFiles
    <3> QED
      BY <1>0, <1>1, <1>3, <3>2 DEF Disked, Before
  <2> QED
    BY <2>2, <2>3, <2>4 DEF RecvInv
<1>4. ASSUME q.variant \in variants, NEW canOpen \in BOOLEAN,
             Proceed(Parse(first, NoData, receiver, canOpen), first, From(strBuf, here + 1))
      PROVE  RecvInv'
  <2>1. Proceed(Parse(first, NoData, receiver, canOpen), first, From(strBuf, here + 1))
    BY <1>4
  <2>2. q \in Requests /\ whole \in Nat
    <3>1. q \in Requests /\ BodyText(q) \in Texts
      BY <1>1, MessageTyped
    <3>2. Len(BodyText(q)) \in Nat /\ q.claim \in Nat
      BY <3>1, LenProperties DEF Texts, Requests
    <3> QED
      BY <3>1, <3>2 DEF ContentLengthOf
  <2>3. PICK len \in Nat : len = Len(strBuf)
    BY <1>1, LenProperties
  <2>4. here \in 0 .. whole /\ here \in 0 .. len
    BY <2>2, <2>3 DEF Least
  <2>5. first \in Seq(SentBy(script)) /\ From(strBuf, here + 1) \in Seq(SentBy(script))
    <3>1. PICK n \in Nat : n = here /\ n \in 0 .. Len(strBuf) /\ n + 1 \in Nat \ {0}
      BY <2>3, <2>4
    <3>2. first = SubSeq(strBuf, 1, n) /\ From(strBuf, here + 1) = From(strBuf, n + 1)
      BY <3>1
    <3> HIDE DEF first, here
    <3>3. SubSeq(strBuf, 1, n) \in Seq(SentBy(script))
      BY <1>1, <3>1, FirstTyped
    <3>4. From(strBuf, n + 1) \in Seq(SentBy(script))
      BY <1>1, <3>1, FromTyped
    <3> QED
      BY <3>2, <3>3, <3>4
  <2>6. PICK buf \in Seq(SentBy(script)) : buf = first
    BY <2>5
  <2>7. buf \in Seq(Units)
    BY <1>1, UnitsSent
  <2>8. q.variant \in {"form", "text", "multipart"}
    BY <1>1, <1>4
  <2>9. PICK r : r = receiver
    OBVIOUS
  <2> HIDE DEF receiver, first, here, whole
  <2>10. /\ r \in AnyReceivers /\ r.left = 0 /\ r.recv <= r.full
         /\ IF q.variant = "multipart" THEN Parsable(buf, NoData, r)
                                       ELSE NoFiles(NoData) /\ r.ss = NoState
    BY <2>2, <2>4, <2>8, <2>9, FirstReceiver DEF receiver
  <2>11. GotWell(q, buf, NoData.made, Parse(buf, NoData, r, canOpen))
    BY <2>7, <2>8, <2>10, ParseIsGood
  <2>12. PICK got : got = Parse(buf, NoData, r, canOpen)
    OBVIOUS
  <2>13. Proceed(got, buf, From(strBuf, here + 1)) /\ GotWell(q, buf, 0, got)
    BY <2>1, <2>6, <2>9, <2>11, <2>12 DEF NoData
  <2>14. disk = { <<req.turn, n>> : n \in 1 .. 0 }
    BY <1>1
  <2> QED
    BY <1>0, <1>1, <2>5, <2>13, <2>14, ProceedIsGood
<1> QED
  <2>1. \/ /\ q.variant = "none" /\ pc' = "application" /\ rd' = NoData
           /\ UNCHANGED <<strBuf, dataBuf, dr, out, disk>>
        \/ (Refuse(400) \/ Refuse(413)) /\ UNCHANGED <<strBuf, body, disk>>
        \/ /\ q.variant \in variants
           /\ \E canOpen \in BOOLEAN :
                Proceed(Parse(first, NoData, receiver, canOpen), first, From(strBuf, here + 1))
    BY SMTT(60) DEF GetRequestData
  <2>2. Refuse(400) \/ Refuse(413) => pc' = "again"
    BY DEF Refuse
  <2> HIDE DEF receiver, first, here, whole, q
  <2> QED
    BY <1>2, <1>3, <1>4, <2>1, <2>2, Zenon

\* A delimiter in front of what was kept is in front of the next chunk.
LEMMA NextChunk ==
  ASSUME RecvInv, pc = "body", NEW text \in Seq(Units), NEW n \in Nat,
         dr.recv + n <= dr.full, NEW chunk, chunk = Kept \o text
  PROVE  LET r == [dr EXCEPT !.recv = @ + n, !.left = 0]
             q == script[req.head]
         IN  /\ r \in AnyReceivers /\ r.left = 0 /\ r.recv <= r.full
             /\ q.variant \in {"form", "text", "multipart"}
             /\ IF q.variant = "multipart" THEN Parsable(chunk, rd, r)
                                           ELSE NoFiles(rd) /\ r.ss = NoState
<1> DEFINE q == script[req.head]
<1>1. /\ dr \in AnyReceivers /\ dr.recv \in Nat /\ dr.full \in Nat /\ dr.left \in Nat
      /\ Holding(q, dataBuf, rd, dr) /\ dataBuf \in Seq(SentBy(script)) /\ script \in Scripts
  BY DEF RecvInv, Received, Texted, AnyReceivers
<1>2. PICK r : r = [dr EXCEPT !.recv = @ + n, !.left = 0]
  OBVIOUS
<1>3. /\ r \in AnyReceivers /\ r.left = 0 /\ r.recv <= r.full
      /\ dr.ss \in MultipartStates => r \in Receivers
  <2>1. r = [full |-> dr.full, recv |-> dr.recv + n, left |-> 0, ss |-> dr.ss]
        /\ dr.ss \in MultipartStates \union {NoState}
    BY <1>1, <1>2 DEF AnyReceivers
  <2> QED
    BY <1>1, <2>1 DEF AnyReceivers, Receivers
<1>31. r.ss = dr.ss
  BY <1>1, <1>2 DEF AnyReceivers
<1>4. ASSUME q.variant = "multipart" PROVE Parsable(chunk, rd, r)
  <2>1. /\ rd \in Data /\ dr.ss \in MultipartStates
        /\ Numbered(rd, dr.ss) /\ dr.ss.state # "SAVE_DATA_BLOCK"
        /\ dr.ss.state = "FIND_DATA_BLOCK" =>
             dr.left \in 2 .. Len(dataBuf) /\ DelimiterAt(dataBuf, Len(dataBuf) - dr.left + 1)
    BY <1>1, <1>4 DEF Holding
  <2>2. dr.ss.state = "FIND_DATA_BLOCK" => DelimiterAt(chunk, 1)
    <3> HAVE dr.ss.state = "FIND_DATA_BLOCK"
    <3>0. PICK len \in Nat : len = Len(dataBuf)
      BY <1>1, LenProperties
    <3>1. dataBuf \in Seq(Units)
      BY <1>1, UnitsSent
    <3>2. dr.left >= 2 /\ dr.left <= len /\ 1 \in 1 .. dr.left /\ 2 \in 1 .. dr.left
          /\ len - dr.left + 1 + 1 = len - dr.left + 2
      BY <2>1, <3>0
    <3>3. /\ Kept \in Seq(Units) /\ Len(Kept) = dr.left
          /\ Kept[1] = dataBuf[len - dr.left + 1] /\ Kept[2] = dataBuf[len - dr.left + 2]
      BY <1>1, <3>0, <3>1, <3>2, KeptTyped
    <3>4. Kept[1].t = "nl" /\ Kept[2].t = "bnd"
      BY <2>1, <3>0, <3>2, <3>3 DEF DelimiterAt
    <3>5. Len(chunk) = dr.left + Len(text) /\ Len(text) \in Nat
          /\ \A i \in 1 .. dr.left : chunk[i] = Kept[i]
      <4>1. PICK k \in Nat : k = Len(text)
        BY LenProperties
      <4>2. PICK a \in Seq(Units) : a = Kept
        BY <3>3
      <4>3. /\ Len(a \o text) = Len(a) + Len(text)
            /\ \A i \in 1 .. Len(a) + Len(text) :
                 (a \o text)[i] = IF i <= Len(a) THEN a[i] ELSE text[i - Len(a)]
        BY ConcatProperties
      <4>4. a \o text = chunk /\ Len(a) = dr.left
        BY <3>3, <4>2
      <4> QED
        BY <1>1, <4>1, <4>2, <4>3, <4>4
    <3>6. 1 + 1 = 2 /\ 1 + 1 <= Len(chunk)
      BY <3>2, <3>3, <3>5
    <3> QED
      BY <3>2, <3>3, <3>4, <3>5, <3>6 DEF DelimiterAt
  <2> QED
    BY <1>3, <1>31, <1>4, <2>1, <2>2 DEF Parsable
<1> QED
  BY <1>1, <1>2, <1>3, <1>31, <1>4 DEF Holding

LEMMA RecvReceive ==
  ASSUME ConnInv, RecvInv, ReceiveData
  PROVE  RecvInv'
<1>0. pc = "body" /\ UNCHANGED <<script, variants, req>>
  BY DEF ReceiveData, link
<1>1. /\ script \in Scripts /\ dr.recv \in Nat /\ dr.full \in Nat /\ dr.left \in Nat
      /\ dr.recv <= dr.full /\ disk = TmpFiles(rd) /\ FilesCounted(rd)
      /\ dataBuf \in Seq(SentBy(script)) /\ strBuf \in Seq(SentBy(script))
  BY <1>0 DEF RecvInv, Texted, Received, Disked, AnyReceivers
<1>2. PICK n \in 1 .. Least(Available, dr.full - dr.recv), canOpen \in BOOLEAN :
        LET chunk    == Kept \o CString(Segment(n))
            receiver == [dr EXCEPT !.recv = @ + n, !.left = 0]
        IN  /\ Proceed(Parse(chunk, rd, receiver, canOpen), chunk, strBuf)
            /\ taken' = taken + n
  BY DEF ReceiveData
<1>3. dr.full - dr.recv \in Nat
  BY <1>1
<1>4. /\ Segment(n) \in Seq(SentBy(script)) /\ n \in Nat /\ n <= dr.full - dr.recv
      /\ taken' \in 0 .. Len(StreamOf[script])
  BY <1>2, <1>3, SegmentTyped DEF RecvInv
<1>5. PICK text \in Seq(SentBy(script)) : text = CString(Segment(n))
  BY <1>4, CStringTyped
<1>6. Kept \in Seq(SentBy(script))
  BY <1>1, KeptTyped
<1>7. PICK chunk \in Seq(SentBy(script)) : chunk = Kept \o text
  BY <1>5, <1>6, ConcatProperties
<1>8. text \in Seq(Units) /\ chunk \in Seq(Units) /\ dr.recv + n <= dr.full
  BY <1>1, <1>4, UnitsSent
<1>9. PICK r : r = [dr EXCEPT !.recv = @ + n, !.left = 0]
  OBVIOUS
<1>10. /\ r \in AnyReceivers /\ r.left = 0 /\ r.recv <= r.full
       /\ script[req.head].variant \in {"form", "text", "multipart"}
       /\ IF script[req.head].variant = "multipart" THEN Parsable(chunk, rd, r)
                                                    ELSE NoFiles(rd) /\ r.ss = NoState
  BY <1>0, <1>4, <1>7, <1>8, <1>9, NextChunk
<1>11. PICK got : got = Parse(chunk, rd, r, canOpen)
  OBVIOUS
<1>12. GotWell(script[req.head], chunk, rd.made, got)
  BY <1>8, <1>10, <1>11, ParseIsGood
<1>13. Proceed(got, chunk, strBuf)
  BY <1>2, <1>5, <1>7, <1>9, <1>11
<1>14. rd.made \in Nat /\ disk = { <<req.turn, k>> : k \in 1 .. rd.made }
  BY <1>1 DEF FilesCounted, TmpFiles
<1> QED
  BY <1>0, <1>1, <1>4, <1>12, <1>13, <1>14, ProceedIsGood

LEMMA RecvFails ==
  ASSUME ConnInv, RecvInv, ReceiveDataFails
  PROVE  RecvInv'
<1>1. PICK got : got = [ok |-> FALSE, dr |-> dr, rd |-> rd, dies |-> FALSE]
                 /\ Proceed(got, dataBuf, strBuf)
  BY DEF ReceiveDataFails
<1>2. /\ pc = "body" /\ UNCHANGED <<script, variants, req>>
      /\ taken' \in 0 .. Len(StreamOf[script])
  BY DEF ReceiveDataFails, link, client, RecvInv, Texted
<1>3. /\ dataBuf \in Seq(SentBy(script)) /\ strBuf \in Seq(SentBy(script))
      /\ disk = TmpFiles(rd) /\ FilesCounted(rd) /\ dr \in AnyReceivers /\ dr.recv <= dr.full
  BY <1>2 DEF RecvInv, Texted, Received, Disked
<1>4. rd.made \in Nat /\ disk = { <<req.turn, k>> : k \in 1 .. rd.made }
  BY <1>3 DEF FilesCounted, TmpFiles
<1>5. GotWell(script[req.head], dataBuf, rd.made, got)
  BY <1>1, <1>3, <1>4 DEF GotWell
<1> QED
  BY <1>1, <1>2, <1>3, <1>4, <1>5, ProceedIsGood

\* The application returns, and the files it was handed are removed.
LEMMA RecvRun ==
  ASSUME ConnInv, RecvInv, RunApplication
  PROVE  RecvInv'
<1>1. /\ UNCHANGED <<script, taken, variants, strBuf, dataBuf, dr, rd>> /\ pc = "application"
      /\ pc' \in {"params", "again"} /\ disk' = disk \ Incoming(rd)
      /\ \E answer : req' = [req EXCEPT !.code = answer.code, !.answer = answer]
  BY DEF RunApplication, client, body, link
<1>2. req'.head = req.head
  BY <1>1 DEF ConnInv, Shapes
<1>3. FilesSaved(rd) /\ disk = TmpFiles(rd)
  BY <1>1 DEF RecvInv, Received, Disked
<1>4. TmpFiles(rd) = Incoming(rd)
  BY <1>3 DEF FilesSaved, Listed, TmpFiles, Incoming
<1>5. disk' = {}
  BY <1>1, <1>3, <1>4
<1>6. Texted'
  BY <1>1, <1>2 DEF RecvInv, Texted, Known
<1>7. Received'
  BY <1>1 DEF RecvInv, Received
<1>8. Disked'
  BY <1>1, <1>5 DEF Disked, Before
<1> QED
  BY <1>6, <1>7, <1>8 DEF RecvInv

LEMMA RecvStep == ConnInv /\ RecvInv /\ [Next]_vars => RecvInv'
<1> SUFFICES ASSUME ConnInv, RecvInv, [Next]_vars PROVE RecvInv'
  OBVIOUS
<1>1. CASE Server
  BY <1>1, RecvAccepted, RecvGetRequest, RecvHeaders, RecvSettings, RecvData, RecvReceive,
     RecvFails, RecvRun, RecvAnswers, RecvEnds DEF Server
<1>2. CASE UNCHANGED <<script, taken, variants, strBuf, dataBuf, dr, rd, pc, req, out, disk>>
  <2>1. Texted'
    BY <1>2 DEF RecvInv, Texted
  <2>2. Received'
    BY <1>2 DEF RecvInv, Received
  <2>3. TmpFiles(rd)' = TmpFiles(rd)
    BY <1>2 DEF TmpFiles
  <2>4. Disked'
    BY <1>2, <2>3 DEF RecvInv, Disked, Refused
  <2> QED
    BY <2>1, <2>2, <2>4 DEF RecvInv
<1>3. ClientReads \/ FileChanges \/ Stopped \/ UNCHANGED vars
        => UNCHANGED <<script, taken, variants, strBuf, dataBuf, dr, rd, pc, req, out, disk>>
  BY DEF ClientReads, FileChanges, Stopped, vars, link, client, body
<1> QED
  BY <1>1, <1>2, <1>3 DEF Next

\* What is known of a connection's bodies and files, for every script and every cut.
THEOREM RecvCorrect == Spec => []RecvInv
  BY ConnCorrect, RecvInit, RecvStep, PTL DEF Spec

\* The files of a request are removed when its application has returned or it was refused,
\* but for the file of the block that was being received at the refusal.
THEOREM FilesRemoved == Spec => []FilesAreRemoved
<1>1. RecvInv => FilesAreRemoved
  <2> SUFFICES ASSUME RecvInv, pc \notin {"body", "application", "terminated"}
               PROVE  Cardinality(disk) <= (IF out.status = 400 /\ req.code = "failure"
                                            THEN 1 ELSE 0)
    BY DEF FilesAreRemoved
  <2>1. Cardinality({}) = 0
    BY FS_EmptySet
  <2>2. CASE disk = {}
    BY <2>1, <2>2
  <2>3. CASE Refused
    <3>1. PICK x : disk \subseteq {x}
      BY <2>3 DEF Refused
    <3>2. IsFiniteSet({x}) /\ Cardinality({x}) = 1
      BY FS_Singleton
    <3>3. Cardinality(disk) <= 1
      BY <3>1, <3>2, FS_Subset
    <3> QED
      BY <2>3, <3>3 DEF Refused
  <2> QED
    BY <2>2, <2>3 DEF RecvInv, Disked
<1> QED
  BY <1>1, RecvCorrect, PTL

\* The parts of every header are parts of a file, and there is one where there is a length.
LEMMA RangesTyped ==
  ASSUME NEW unit, NEW specs \in Seq(Specs), NEW size \in Nat
  PROVE  /\ getRanges(unit, specs, size) \in Seq(FileParts)
         /\ ContentLength(getRanges(unit, specs, size)) \in Nat
         /\ ContentLength(getRanges(unit, specs, size)) # 0 =>
              getRanges(unit, specs, size) # <<>> /\ unit = "bytes"
<1>1. PICK n \in Nat : n = Len(specs) /\ DOMAIN specs = 1 .. n
  BY LenProperties
<1>2. PICK f : RangesUpTo(unit, specs, size, f, n) /\ getRanges(unit, specs, size) = f[n]
  BY <1>1, RangesUpToIs
<1>3. \A k \in 0 .. n : f[k] = IF k = 0 \/ unit # "bytes" THEN <<>>
                               ELSE IF PartOf(specs[k], size) = NoPart THEN f[k - 1]
                               ELSE Append(f[k - 1], PartOf(specs[k], size))
  BY <1>2 DEF RangesUpTo
<1>4. \A k \in 1 .. n : PartOf(specs[k], size) \in FileParts
  <2> TAKE k \in 1 .. n
  <2>1. PICK spec \in Specs : spec = specs[k]
    BY <1>1, ElementOfSeq
  <2>2. \A b, l \in Nat : Part(b, l) \in FileParts
    BY DEF Part, FileParts
  <2>3. NoPart \in FileParts
    BY <2>2 DEF NoPart
  <2>4. /\ spec.first \in Nat \/ spec.first = Absent
        /\ spec.last \in Nat \/ spec.last = Absent
        /\ \A i \in Nat : i # Absent
    BY DEF Specs, Numbers, Absent
  <2>5. ASSUME spec.first # Absent PROVE FromStart(spec, size) \in FileParts
    BY <2>2, <2>3, <2>4, <2>5 DEF FromStart
  <2>6. ASSUME spec.last # Absent PROVE FromEnd(spec, size) \in FileParts
    BY <2>2, <2>4, <2>6 DEF FromEnd
  <2> QED
    BY <2>1, <2>3, <2>5, <2>6 DEF PartOf
<1> DEFINE T == { k \in Nat : k <= n => f[k] \in Seq(FileParts) }
<1>5. 0 \in T
  <2>1. 0 \in 0 .. n /\ <<>> \in Seq(FileParts)
    BY EmptySeq
  <2>2. f[0] = <<>>
    BY <1>3, <2>1
  <2> QED
    BY <2>1, <2>2
<1>6. ASSUME NEW k \in T PROVE k + 1 \in T
  <2> SUFFICES ASSUME k + 1 <= n PROVE f[k + 1] \in Seq(FileParts)
    OBVIOUS
  <2>1. k \in 0 .. n /\ k + 1 \in 1 .. n /\ k + 1 \in 0 .. n /\ k + 1 # 0 /\ k + 1 - 1 = k
    OBVIOUS
  <2>2. f[k] \in Seq(FileParts) /\ <<>> \in Seq(FileParts)
    BY <2>1, EmptySeq
  <2>3. PICK part \in FileParts : part = PartOf(specs[k + 1], size)
    BY <1>4, <2>1
  <2>4. Append(f[k], part) \in Seq(FileParts)
    BY <2>2, AppendProperties
  <2>5. f[k + 1] = IF unit # "bytes" THEN <<>> ELSE IF part = NoPart THEN f[k]
                   ELSE Append(f[k], part)
    BY <1>3, <2>1, <2>3
  <2> QED
    BY <2>2, <2>4, <2>5
<1>7. f[n] \in Seq(FileParts)
  <2> HIDE DEF T
  <2>1. T = Nat
    <3>1. T \subseteq Nat
      BY DEF T
    <3> QED
      BY <1>5, <1>6, <3>1, NatSetInduction
  <2> QED
    BY <2>1 DEF T
<1>8. PICK parts \in Seq(FileParts) : parts = getRanges(unit, specs, size)
  BY <1>2, <1>7
<1>9. ContentLength(parts) = Len(PositionsOf(parts)) /\ PositionsOf(parts) \in Seq(Nat)
  BY LengthOfParts
<1>10. ContentLength(parts) \in Nat
  BY <1>9, LenProperties
<1>11. parts = <<>> => ContentLength(parts) = 0
  <2> HAVE parts = <<>>
  <2>1. 0 = Len(<<>>)
    OBVIOUS
  <2>2. PICK g : SumUpTo(<<>>, g, 0) /\ ContentLength(<<>>) = g[0]
    BY <2>1, SumUpToIs
  <2> QED
    BY <2>2 DEF SumUpTo
<1>12. unit # "bytes" => ContentLength(parts) = 0
  BY <1>8, OnlyBytes
<1> QED
  BY <1>8, <1>10, <1>11, <1>12

-----------------------------------------------------------------------------
(* Types                                                                    *)

Typed ==
  /\ pc \in Pcs /\ full \in BOOLEAN /\ secure \in BOOLEAN
  /\ socket \in {"open", "closed"} /\ session \in {"none", "live", "freed"}
  /\ req.keepAlive \in 0 .. KeepAlive
  /\ req.params \in {"close", "reuse", "leave_open"} /\ req.variant \in {"HTTP_1", "HTTP_2"}

LEMMA TypedInit == Init => Typed
<1> SUFFICES ASSUME Init PROVE Typed
  OBVIOUS
<1>1. /\ pc = "accepted" /\ full = FALSE /\ secure \in BOOLEAN /\ socket = "open"
      /\ session \in {"none", "live"}
  BY DEF Init
<1>2. req.keepAlive = KeepAlive /\ req.params = "close" /\ req.variant = "HTTP_1"
  BY DEF Init
<1>3. KeepAlive \in 0 .. KeepAlive
  BY ConnectionAssumption
<1> QED
  BY <1>1, <1>2, <1>3 DEF Typed, Pcs

\* A step that leaves the link and the request's parameters alone.
LEMMA TypedSame ==
  ASSUME Typed, UNCHANGED <<secure, socket, session>>, full' \in BOOLEAN, pc' \in Pcs,
         req'.keepAlive = req.keepAlive, req'.params \in {req.params, "close"},
         req'.variant = req.variant
  PROVE  Typed'
BY DEF Typed

LEMMA TypedStep == ConnInv /\ Typed /\ [Next]_vars => Typed'
<1> SUFFICES ASSUME ConnInv, Typed, [Next]_vars PROVE Typed'
  OBVIOUS
<1>0. full \in BOOLEAN /\ pc \in Pcs /\ Shapes
  BY DEF Typed, ConnInv
<1>1. CASE Plain \/ HandshakeFails \/ Negotiate \/ NegotiateH2
  BY <1>1 DEF Plain, HandshakeFails, Negotiate, NegotiateH2, link, Typed, Pcs, ConnInv, Shapes
<1>2. CASE GetRequest \/ GetRequestTimeout \/ GetRequestClosed
  <2>1. /\ UNCHANGED <<secure, socket, session, full>> /\ pc' \in {"headers", "again"}
        /\ req' = Turned
    BY <1>2 DEF GetRequest, GetRequestTimeout, GetRequestClosed, link
  <2>2. /\ req'.keepAlive = req.keepAlive /\ req'.params = "close"
        /\ req'.variant = req.variant
    BY <1>0, <2>1 DEF Turned, Shapes
  <2> QED
    BY <1>0, <2>1, <2>2, TypedSame DEF Pcs
<1>3. CASE GetRequestHeaders
  <2>1. /\ UNCHANGED <<secure, socket, session, full>> /\ pc' \in {"settings", "again"}
        /\ UNCHANGED req \/ \E head, garbled : req' = [req EXCEPT !.head = head, !.garbled = garbled]
    BY <1>3, Zenon DEF GetRequestHeaders, Refuse, link
  <2>2. /\ req'.keepAlive = req.keepAlive /\ req'.params = req.params
        /\ req'.variant = req.variant
    BY <1>0, <2>1 DEF Shapes
  <2> QED
    BY <1>0, <2>1, <2>2, TypedSame DEF Pcs
<1>4. CASE GetApplicationSettings \/ GetRequestData \/ ReceiveData \/ ReceiveDataFails
  <2>1. UNCHANGED <<secure, socket, session, full, req>>
    <3>1. CASE GetApplicationSettings
      BY <3>1 DEF GetApplicationSettings, link
    <3>2. CASE GetRequestData
      BY <3>2 DEF GetRequestData, link
    <3>3. CASE ReceiveData
      BY <3>3 DEF ReceiveData, link
    <3>4. CASE ReceiveDataFails
      BY <3>4 DEF ReceiveDataFails, link
    <3> QED
      BY <1>4, <3>1, <3>2, <3>3, <3>4
  <2>2. pc' \in Before \union {"terminated", "again"}
    <3>1. CASE GetApplicationSettings
      BY <3>1 DEF GetApplicationSettings, Refuse, Before
    <3>2. CASE GetRequestData
      BY <3>2, StepProceed DEF GetRequestData, Refuse, Before
    <3>3. CASE ReceiveData
      BY <3>3, StepProceed DEF ReceiveData
    <3>4. CASE ReceiveDataFails
      BY <3>4, StepProceed DEF ReceiveDataFails
    <3> QED
      BY <1>4, <3>1, <3>2, <3>3, <3>4
  <2> QED
    BY <1>0, <2>1, <2>2, TypedSame DEF Before, Pcs
<1>5. CASE RunApplication
  <2>1. /\ UNCHANGED <<secure, socket, session, full>> /\ pc' \in {"params", "again"}
        /\ \E answer : req' = [req EXCEPT !.code = answer.code, !.answer = answer]
    BY <1>5 DEF RunApplication, link
  <2> QED
    BY <1>0, <2>1, TypedSame DEF Shapes, Pcs
<1>6. CASE GetConnectionParams
  <2>1. pc = "params" /\ pc' = "answer" /\ UNCHANGED <<secure, socket, session, full>>
    BY <1>6 DEF GetConnectionParams, link
  <2>2. req.keepAlive \in Nat /\ req.keepAlive >= 1 /\ req.keepAlive <= KeepAlive
        /\ KeepAlive \in Nat
    BY <2>1, ConnectionAssumption DEF ConnInv, Counted, Typed
  <2>3. \/ req' = [req EXCEPT !.keepAlive = @ - 1,
                              !.params = IF req.keepAlive - 1 > 0 THEN "reuse" ELSE @]
        \/ req' = [req EXCEPT !.variant = "HTTP_2", !.params = "reuse"]
        \/ req' = [req EXCEPT !.params = "leave_open"]
        \/ UNCHANGED req
    BY <1>6 DEF GetConnectionParams
  <2>4. /\ req'.keepAlive \in {req.keepAlive, req.keepAlive - 1}
        /\ req'.params \in {req.params, "reuse", "leave_open"}
        /\ req'.variant \in {req.variant, "HTTP_2"}
    BY <1>0, <2>3 DEF Shapes
  <2>5. req'.keepAlive \in 0 .. KeepAlive
    BY <2>2, <2>4
  <2> QED
    BY <2>1, <2>4, <2>5 DEF Typed, Pcs
<1>7. CASE XSendfileNone \/ XSendfileStatus \/ TransferFile \/ TransferFilePart
  <2>1. /\ UNCHANGED <<secure, socket, session, full, req>>
        /\ pc' \in {"again", "sending", "parts"}
    BY <1>7 DEF XSendfileNone, XSendfileStatus, TransferFile, TransferFilePart, Reply, Begin, link
  <2> QED
    BY <1>0, <2>1, TypedSame DEF Pcs
<1>8. CASE SendBlock \/ SendPartBlock
  <2>1. UNCHANGED <<secure, socket, session, req>> /\ pc' \in {pc, "again", "sending"}
    BY <1>8 DEF SendBlock, SendPartBlock, link
  <2>2. full' \in BOOLEAN
    BY <1>0, <1>8 DEF SendBlock, SendPartBlock, SendData
  <2> QED
    BY <1>0, <2>1, <2>2, TypedSame DEF Pcs
<1>9. CASE Again
  <2>1. UNCHANGED <<secure, socket, session, full, req>> /\ pc' \in {"process", "ended", "closing"}
    BY <1>9 DEF Again, link
  <2> QED
    BY <1>0, <2>1, TypedSame DEF Pcs
<1>10. CASE Close
  BY <1>10 DEF Close, Typed, Pcs
<1>11. CASE ClientReads \/ FileChanges \/ Stopped \/ UNCHANGED vars
  BY <1>11 DEF ClientReads, FileChanges, Stopped, vars, link, Typed
<1> QED
  BY <1>1, <1>2, <1>3, <1>4, <1>5, <1>6, <1>7, <1>8, <1>9, <1>10, <1>11 DEF Next, Server

-----------------------------------------------------------------------------
(* Answers                                                                  *)

Files == [size : Nat, now : Nat, parts : Seq(FileParts), left : Nat, at : Nat,
          bad : BOOLEAN, changed : BOOLEAN, cut : BOOLEAN]
Outs  == [status : Nat, promised : Nat, sent : Seq(Nat),
          announced : {"none", "close", "keep-alive"}, max : Nat]

\* Nothing went wrong with the file and its transfer.
Clean(f) == ~f.cut /\ ~f.changed

\* No answer was begun.
Silent == Before \union {"accepted", "params", "answer"}

\* The whole file: what was sent is what stands in front of the read position.
WholeSent(f, answer) ==
  /\ f.now = f.size /\ ~f.bad /\ f.at < f.size /\ Len(answer.sent) = f.at

\* The parts: what was sent and what is left of the current part and of those behind it
\* are together what was asked for.
PartsSent(f, answer, asked) ==
  /\ f.now = f.size /\ ~f.bad /\ f.left > 0 /\ f.at + f.left <= f.size
  /\ \A i \in DOMAIN f.parts : /\ f.parts[i].length > 0
                               /\ f.parts[i].begin + f.parts[i].length <= f.size
  /\ answer.sent \o (Positions(f.at, f.left) \o PositionsOf(Tail(f.parts))) = asked
  /\ answer.promised = Len(asked)

\* What q asks for.
AskedOf(q) == AskedInOrder(q.range.specs, file.size)

Filed == file \in Files /\ out \in Outs

Answered ==
  LET q == script[req.head]
  IN
  /\ pc \in Silent => out.status = 0
  /\ pc = "sending" =>
       /\ out.status = 200 /\ out.promised = file.size
       /\ Clean(file) => WholeSent(file, out)
  /\ pc = "parts" =>
       /\ out.status = 206 /\ ~q.head /\ file.parts # <<>>
       /\ Clean(file) /\ ~Past(q) => PartsSent(file, out, AskedOf(q))
  /\ pc \in {"again", "process"} =>
       /\ out.status = 200 /\ Clean(file) => Len(out.sent) = out.promised
       /\ out.status = 206 /\ Clean(file) /\ ~Past(q) =>
            Len(out.sent) = out.promised /\ (~q.head => out.sent = AskedOf(q))

AnswerInv == Filed /\ Answered

LEMMA AnswerInit == Init => AnswerInv
<1> SUFFICES ASSUME Init PROVE AnswerInv
  OBVIOUS
<1>1. <<>> \in Seq(FileParts) /\ <<>> \in Seq(Nat)
  BY EmptySeq
<1>2. file = NoFile /\ out = NoStatus /\ pc = "accepted"
  BY DEF Init
<1>3. Filed
  BY <1>1, <1>2 DEF NoFile, NoStatus, Filed, Files, Outs
<1>4. Answered
  BY <1>2 DEF Answered, Silent, Before, NoStatus
<1> QED
  BY <1>3, <1>4 DEF AnswerInv

\* A step that leaves the answer and its file alone.
LEMMA AnswerKept ==
  ASSUME AnswerInv, UNCHANGED <<script, file, out>>, req'.head = req.head,
         \/ pc \in Silent /\ pc' \in Silent \union {"process", "again", "ended", "terminated"}
         \/ pc = "again" /\ pc' = "process"
         \/ pc' \in {"closing", "ended", "terminated"}
         \/ pc' = pc
  PROVE  AnswerInv'
<1>1. Filed'
  BY DEF AnswerInv, Filed
<1>2. AskedOf(script[req.head])' = AskedOf(script[req.head])
      /\ Past(script[req.head])' = Past(script[req.head])
  BY DEF AskedOf, Past
<1>3. CASE pc \in Silent /\ pc' \in Silent \union {"process", "again", "ended", "terminated"}
  BY <1>1, <1>3 DEF AnswerInv, Answered, Silent, Before
<1>4. CASE pc = "again" /\ pc' = "process"
  BY <1>1, <1>2, <1>4 DEF AnswerInv, Answered, Silent, Before
<1>5. CASE pc' \in {"closing", "ended", "terminated"}
  BY <1>1, <1>5 DEF AnswerInv, Answered, Silent, Before
<1>6. CASE pc' = pc
  BY <1>1, <1>2, <1>6 DEF AnswerInv, Answered
<1> QED
  BY <1>3, <1>4, <1>5, <1>6

\* A reply without a body.
LEMMA AnswerEmpty ==
  ASSUME AnswerInv, UNCHANGED <<script, file>>, out' \in Outs,
         out'.status \notin {200, 206}, pc' \notin {"sending", "parts"},
         pc' \in Silent => out'.status = 0
  PROVE  AnswerInv'
BY DEF AnswerInv, Filed, Answered

LEMMA StatusTyped ==
  ASSUME NEW status \in Nat
  PROVE  [NoStatus EXCEPT !.status = status] \in Outs
         /\ [NoStatus EXCEPT !.status = status].status = status
BY EmptySeq DEF NoStatus, Outs

\* What an answer begins with.
Heading(status, promised) ==
  Announce([NoStatus EXCEPT !.status = status, !.promised = promised])

LEMMA AnnounceTyped ==
  ASSUME Typed, NEW status \in Nat, NEW promised \in Nat
  PROVE  /\ Heading(status, promised) \in Outs /\ Heading(status, promised).status = status
         /\ Heading(status, promised).promised = promised
         /\ Heading(status, promised).sent = <<>>
<1>1. req.keepAlive \in Nat /\ <<>> \in Seq(Nat)
  BY EmptySeq DEF Typed
<1> QED
  BY <1>1 DEF Heading, Announce, NoStatus, Outs

\* The steps before an answer.
LEMMA AnswerBefore ==
  ASSUME ConnInv, AnswerInv,
         \/ Plain \/ HandshakeFails \/ Negotiate \/ NegotiateH2
         \/ GetRequest \/ GetRequestTimeout \/ GetRequestClosed
         \/ GetApplicationSettings \/ RunApplication \/ GetConnectionParams \/ XSendfileNone
  PROVE  AnswerInv'
<1>1. CASE Plain \/ HandshakeFails \/ Negotiate \/ NegotiateH2
  <2>1. /\ UNCHANGED <<script, file, out>> /\ req'.head = req.head /\ pc = "accepted"
        /\ pc' \in {"process", "ended"}
    BY <1>1 DEF Plain, HandshakeFails, Negotiate, NegotiateH2, client, ConnInv, Shapes
  <2> QED
    BY <2>1, AnswerKept DEF Silent
<1>2. CASE GetRequest \/ GetRequestTimeout \/ GetRequestClosed
  <2>1. UNCHANGED <<script, file>> /\ out' = NoStatus /\ pc' \in {"headers", "again"}
    BY <1>2 DEF GetRequest, GetRequestTimeout, GetRequestClosed, client
  <2>2. NoStatus \in Outs /\ NoStatus.status = 0
    BY EmptySeq DEF NoStatus, Outs
  <2> QED
    BY <2>1, <2>2, AnswerEmpty
<1>3. CASE GetApplicationSettings
  <2>1. CASE pc' = "data" /\ UNCHANGED out
    <3>1. UNCHANGED <<script, file, out, req>> /\ pc = "settings"
      BY <1>3, <2>1 DEF GetApplicationSettings, client
    <3> QED
      BY <2>1, <3>1, AnswerKept DEF Silent, Before
  <2>2. CASE Refuse(404)
    <3>1. UNCHANGED <<script, file>> /\ out' = [NoStatus EXCEPT !.status = 404] /\ pc' = "again"
      BY <1>3, <2>2 DEF GetApplicationSettings, Refuse, client
    <3> QED
      BY <3>1, StatusTyped, AnswerEmpty DEF Silent, Before
  <2> QED
    BY <1>3, <2>1, <2>2 DEF GetApplicationSettings
<1>4. CASE RunApplication
  <2>1. /\ UNCHANGED <<script, file, out>> /\ pc = "application" /\ pc' \in {"params", "again"}
        /\ \E answer : req' = [req EXCEPT !.code = answer.code, !.answer = answer]
    BY <1>4 DEF RunApplication, client
  <2> QED
    BY <2>1, AnswerKept DEF ConnInv, Shapes, Silent, Before
<1>5. CASE GetConnectionParams
  <2>1. /\ UNCHANGED <<script, file, out>> /\ pc = "params" /\ pc' = "answer"
        /\ req'.head = req.head
    BY <1>5 DEF GetConnectionParams, client, ConnInv, Shapes
  <2> QED
    BY <2>1, AnswerKept DEF Silent
<1>6. CASE XSendfileNone
  <2>1. UNCHANGED <<script, file, out, req>> /\ pc = "answer" /\ pc' = "again"
    BY <1>6 DEF XSendfileNone, client
  <2> QED
    BY <2>1, AnswerKept DEF Silent
<1> QED
  BY <1>1, <1>2, <1>3, <1>4, <1>5, <1>6

\* The head and the body of a request.
LEMMA AnswerReceived ==
  ASSUME ConnInv, AnswerInv, GetRequestHeaders \/ GetRequestData \/ ReceiveData \/ ReceiveDataFails
  PROVE  AnswerInv'
<1>1. UNCHANGED <<script, file>> /\ pc \in Before
  <2>1. CASE GetRequestHeaders
    BY <2>1, Zenon DEF GetRequestHeaders, client, Before
  <2>2. CASE GetRequestData
    BY <2>2 DEF GetRequestData, client, Before
  <2>3. CASE ReceiveData
    BY <2>3 DEF ReceiveData, client, Before
  <2>4. CASE ReceiveDataFails
    BY <2>4 DEF ReceiveDataFails, client, Before
  <2> QED
    BY <2>1, <2>2, <2>3, <2>4
<1>2. \/ pc' \in Before \union {"terminated"} /\ UNCHANGED out
      \/ pc' = "again" /\ \E status \in {400, 413} : out' = [NoStatus EXCEPT !.status = status]
  <2>1. CASE GetRequestHeaders
    BY <2>1, Zenon DEF GetRequestHeaders, Refuse, Before
  <2>2. ASSUME NEW got, NEW buf, NEW rest, Proceed(got, buf, rest)
        PROVE  \/ pc' \in Before \union {"terminated"} /\ UNCHANGED out
               \/ pc' = "again" /\ out' = [NoStatus EXCEPT !.status = 400]
    BY <2>2 DEF Proceed, Refuse, Before
  <2>3. CASE GetRequestData
    BY <2>2, <2>3 DEF GetRequestData, Refuse, Before
  <2>4. CASE ReceiveData
    BY <2>2, <2>4 DEF ReceiveData
  <2>5. CASE ReceiveDataFails
    BY <2>2, <2>5 DEF ReceiveDataFails
  <2> QED
    BY <2>1, <2>2, <2>3, <2>4, <2>5
<1>3. CASE pc' \in Before \union {"terminated"} /\ UNCHANGED out
  <2>1. out'.status = 0 /\ out' \in Outs
    BY <1>1, <1>3 DEF AnswerInv, Filed, Answered, Silent
  <2> QED
    BY <1>1, <1>3, <2>1, AnswerEmpty DEF Before
<1>4. ASSUME NEW status \in {400, 413}, pc' = "again", out' = [NoStatus EXCEPT !.status = status]
      PROVE  AnswerInv'
  BY <1>1, <1>4, StatusTyped, AnswerEmpty DEF Silent, Before
<1> QED
  BY <1>2, <1>3, <1>4

LEMMA AnswerEnds ==
  ASSUME AnswerInv, Again \/ Close
  PROVE  AnswerInv'
<1>1. CASE Again
  <2>1. /\ UNCHANGED <<script, file, out, req>> /\ pc = "again"
        /\ pc' \in {"process", "ended", "closing"}
    BY <1>1 DEF Again, client
  <2> QED
    BY <2>1, AnswerKept
<1>2. CASE Close
  BY <1>2, AnswerKept DEF Close, client
<1> QED
  BY <1>1, <1>2

LEMMA AnswerStatus ==
  ASSUME Typed, AnswerInv, XSendfileStatus
  PROVE  AnswerInv'
<1>1. UNCHANGED <<script, file>> /\ pc' = "again"
  BY DEF XSendfileStatus, Reply, client
<1>2. \E status \in {400, 404, 304, 500} :
        out' = Heading(status, 0)
  BY DEF XSendfileStatus, Reply, Heading
<1>3. out' \in Outs /\ out'.status \in {400, 404, 304, 500}
  <2>1. PICK status \in {400, 404, 304, 500} :
          out' = Heading(status, 0)
    BY <1>2
  <2>2. status \in Nat /\ 0 \in Nat
    OBVIOUS
  <2>3. Heading(status, 0) \in Outs /\ Heading(status, 0).status = status
    BY <2>2, AnnounceTyped
  <2> QED
    BY <2>1, <2>3
<1> QED
  BY <1>1, <1>3, AnswerEmpty DEF Silent, Before

\* The first step of a transfer.
LEMMA AnswerFile ==
  ASSUME Typed, AnswerInv, TransferFile
  PROVE  AnswerInv'
<1> DEFINE q == script[req.head]
<1>1. PICK size \in 0 .. MaxSize :
        Begin(200, IF q.head THEN 0 ELSE size, [NoFile EXCEPT !.size = size, !.now = size],
              IF q.head \/ size = 0 THEN "again" ELSE "sending")
  BY DEF TransferFile
<1>2. PICK f : f = [NoFile EXCEPT !.size = size, !.now = size]
  OBVIOUS
<1>3. PICK promised \in Nat : promised = IF q.head THEN 0 ELSE size
  BY <1>1
<1>4. UNCHANGED <<script, req>>
  BY DEF TransferFile, client
<1>5. /\ f \in Files /\ Cut(f) \in Files /\ ~Clean(Cut(f)) /\ f.size = size /\ f.now = size
      /\ ~f.bad /\ f.at = 0
  <2>1. <<>> \in Seq(FileParts) /\ size \in Nat
    BY <1>1, EmptySeq
  <2> QED
    BY <1>2, <2>1 DEF NoFile, Files, Cut, Clean
<1>6. /\ out' \in Outs /\ out'.status = 200 /\ out'.promised = promised /\ out'.sent = <<>>
  <2>1. out' = Heading(200, promised)
    BY <1>1, <1>3 DEF Begin, Heading
  <2> QED
    BY <2>1, 200 \in Nat, AnnounceTyped
<1>7. Len(out'.sent) = 0
  BY <1>6
<1>8. \/ file' = f /\ pc' = IF q.head \/ size = 0 THEN "again" ELSE "sending"
      \/ file' = Cut(f) /\ pc' = "again"
  BY <1>1, <1>2 DEF Begin
<1>9. Filed'
  BY <1>5, <1>6, <1>8 DEF Filed
<1>10. Answered'
  BY <1>1, <1>3, <1>5, <1>6, <1>7, <1>8 DEF Answered, Silent, Before, WholeSent
<1> QED
  BY <1>9, <1>10 DEF AnswerInv

\* The parts of the header are prepared.
LEMMA AnswerParts ==
  ASSUME Typed, RecvInv, AnswerInv, TransferFilePart
  PROVE  AnswerInv'
<1> DEFINE q == script[req.head]
<1>0. pc = "answer" /\ UNCHANGED <<script, req>> /\ q.range \in Ranges
  <2>1. pc = "answer" /\ UNCHANGED <<script, req>>
    BY DEF TransferFilePart, client
  <2>2. q \in Requests
    BY <2>1, MessageTyped DEF RecvInv, Texted, Known
  <2> QED
    BY <2>1, <2>2 DEF Requests
<1>1. PICK size \in 0 .. MaxSize :
        LET parts == getRanges(q.range.unit, q.range.specs, size)
            sum   == ContentLength(parts)
        IN  IF sum = 0 THEN Reply(416, 0) /\ UNCHANGED file
            ELSE \/ Reply(500, 0) /\ UNCHANGED file
                 \/ Begin(206, IF q.head THEN 0 ELSE sum,
                          [NoFile EXCEPT !.size = size, !.now = size, !.parts = parts,
                                         !.at = Head(parts).begin, !.left = Head(parts).length],
                          IF q.head THEN "again" ELSE "parts")
  BY DEF TransferFilePart
<1>2. size \in Nat /\ q.range.specs \in Seq(Specs)
  BY <1>0, <1>1 DEF Ranges
<1>3. PICK parts \in Seq(FileParts), sum \in Nat :
        /\ parts = getRanges(q.range.unit, q.range.specs, size) /\ sum = ContentLength(parts)
        /\ sum # 0 => parts # <<>> /\ q.range.unit = "bytes"
  BY <1>2, RangesTyped
<1>4. CASE \E status \in {416, 500} : Reply(status, 0) /\ UNCHANGED file
  <2>1. PICK status \in {416, 500} : Reply(status, 0) /\ UNCHANGED file
    BY <1>4
  <2>2. out' \in Outs /\ out'.status = status /\ pc' = "again"
    <3>1. out' = Heading(status, 0) /\ pc' = "again"
      BY <2>1 DEF Reply, Heading
    <3>2. status \in Nat /\ 0 \in Nat
      OBVIOUS
    <3> QED
      BY <3>1, <3>2, AnnounceTyped
  <2> QED
    BY <1>0, <2>1, <2>2, AnswerEmpty DEF Silent, Before
<1>5. CASE /\ sum # 0
           /\ Begin(206, IF q.head THEN 0 ELSE sum,
                    [NoFile EXCEPT !.size = size, !.now = size, !.parts = parts,
                                   !.at = Head(parts).begin, !.left = Head(parts).length],
                    IF q.head THEN "again" ELSE "parts")
  <2>1. PICK f : f = [NoFile EXCEPT !.size = size, !.now = size, !.parts = parts,
                                    !.at = Head(parts).begin, !.left = Head(parts).length]
    OBVIOUS
  <2>2. PICK promised \in Nat : promised = IF q.head THEN 0 ELSE sum
    OBVIOUS
  <2>3. parts # <<>> /\ Head(parts) \in FileParts
    BY <1>3, <1>5, PositionsOfTail
  <2>4. Head(parts).begin \in Nat /\ Head(parts).length \in Nat
    BY <2>3 DEF FileParts
  <2>5. /\ f \in Files /\ Cut(f) \in Files /\ ~Clean(Cut(f)) /\ f.size = size /\ f.now = size
        /\ ~f.bad /\ f.at = Head(parts).begin /\ f.left = Head(parts).length
        /\ f.parts = parts
    BY <1>2, <2>1, <2>4 DEF NoFile, Files, Cut, Clean
  <2>6. /\ out' \in Outs /\ out'.status = 206 /\ out'.promised = promised /\ out'.sent = <<>>
    <3>1. out' = Heading(206, promised)
      BY <1>5, <2>2 DEF Begin, Heading
    <3> QED
      BY <3>1, 206 \in Nat, AnnounceTyped
  <2>7. Len(out'.sent) = 0
    BY <2>6
  <2>8. \/ file' = f /\ pc' = IF q.head THEN "again" ELSE "parts"
        \/ file' = Cut(f) /\ pc' = "again"
    BY <1>5, <2>1 DEF Begin
  <2>9. Filed'
    BY <2>5, <2>6, <2>8 DEF Filed
  <2>10. ASSUME file' = f, ~q.head, ~Past(q)' PROVE PartsSent(file, out, AskedOf(q))'
    <3> DEFINE asked == AskedInOrder(q.range.specs, size)
    <3>1. \A k \in DOMAIN q.range.specs : EndsInside(q.range.specs[k], size)
      BY <1>0, <2>5, <2>10 DEF Past
    <3>2. /\ \A i \in DOMAIN parts : /\ parts[i].length > 0
                                     /\ parts[i].begin + parts[i].length <= size
          /\ PositionsOf(parts) = asked /\ sum = Len(asked)
      BY <1>2, <1>3, <1>5, <3>1, RangesAreAsked
    <3>3. Head(parts) = parts[1] /\ 1 \in DOMAIN parts
      BY <2>3, HeadTailProperties, LenProperties, EmptySeq
    <3>4. f.left > 0 /\ f.at + f.left <= f.size
      BY <2>5, <3>2, <3>3
    <3>5. Positions(f.at, f.left) \o PositionsOf(Tail(f.parts)) = asked
      BY <1>3, <2>3, <2>5, <3>2, PositionsOfTail
    <3>6. PICK a \in Seq(Nat) : a = asked
      BY <1>3, <3>2, LengthOfParts
    <3>7. <<>> \o a = a
      BY ConcatEmptySeq
    <3>8. AskedOf(q)' = asked
      BY <1>0, <2>5, <2>10 DEF AskedOf
    <3>9. out'.promised = sum
      BY <2>2, <2>6, <2>10
    <3>10. out'.sent \o (Positions(f.at, f.left) \o PositionsOf(Tail(f.parts))) = asked
      BY <2>6, <3>5, <3>6, <3>7
    <3>11. out'.promised = Len(asked)
      BY <3>2, <3>9
    <3> HIDE DEF asked
    <3> QED
      BY <2>5, <2>10, <3>2, <3>4, <3>8, <3>10, <3>11 DEF PartsSent
  <2>11. q' = q
    BY <1>0
  <2>12. Answered'
    <3>1. CASE pc' = "parts"
      <4>1. file' = f /\ ~q.head
        BY <2>8, <3>1
      <4> HIDE DEF q
      <4>2. ~Past(q)' => PartsSent(file, out, AskedOf(q))'
        BY <2>10, <4>1
      <4> QED
        BY <2>3, <2>5, <2>6, <2>11, <3>1, <4>1, <4>2 DEF Answered, Silent, Before, q
    <3>2. CASE pc' = "again"
      <4>1. file' = Cut(f) \/ (file' = f /\ q.head)
        BY <2>8, <3>2
      <4> QED
        BY <1>0, <2>2, <2>5, <2>6, <2>7, <3>2, <4>1 DEF Answered, Silent, Before
    <3> QED
      BY <2>8, <3>1, <3>2
  <2> QED
    BY <2>9, <2>12 DEF AnswerInv
<1> QED
  BY <1>1, <1>3, <1>4, <1>5

\* A block of the whole file.
LEMMA AnswerBlock ==
  ASSUME AnswerInv, SendBlock
  PROVE  AnswerInv'
<1>1. PICK buffer \in Nat : buffer = Least(file.size, BlockSize)
  BY ConnectionAssumption DEF AnswerInv, Filed, Files, Least
<1>2. /\ file \in Files /\ out \in Outs /\ file.at \in Nat /\ file.size \in Nat
      /\ file.now \in Nat /\ file.bad \in BOOLEAN /\ file.cut \in BOOLEAN
      /\ file.changed \in BOOLEAN /\ out.sent \in Seq(Nat) /\ BlockSize \in Nat \ {0}
  BY ConnectionAssumption DEF AnswerInv, Filed, Files, Outs
<1>3. PICK size \in Nat : size = ReadSize(buffer)
  BY <1>2 DEF ReadSize, Least, AtLeastZero
<1>4. PICK n \in 0 .. size, failed \in BOOLEAN :
        /\ SendData(size, n, failed)
        /\ out' = [out EXCEPT !.sent = @ \o Positions(file.at, n)]
        /\ file' = [file EXCEPT !.at = @ + size, !.bad = size < buffer, !.cut = @ \/ failed]
        /\ pc' = IF size = buffer /\ ~failed /\ n > 0 /\ file.at + size # file.size
                 THEN "sending" ELSE "again"
  BY <1>1, <1>3 DEF SendBlock
<1>5. pc = "sending" /\ UNCHANGED <<script, req>>
  BY DEF SendBlock, client
<1>6. /\ Positions(file.at, n) \in Seq(Nat) /\ Len(Positions(file.at, n)) = n /\ n \in Nat
      /\ Len(out.sent) \in Nat
  <2>1. n \in Nat
    BY <1>3, <1>4
  <2> QED
    BY <1>2, <2>1, PositionsTyped, LenProperties
<1>7. PICK sent \in Seq(Nat) : sent = out.sent \o Positions(file.at, n)
                               /\ Len(sent) = Len(out.sent) + n
  <2>1. PICK a \in Seq(Nat), b \in Seq(Nat) : a = out.sent /\ b = Positions(file.at, n)
    BY <1>2, <1>6
  <2>2. a \o b \in Seq(Nat) /\ Len(a \o b) = Len(a) + Len(b)
    BY ConcatProperties
  <2> QED
    BY <1>6, <2>1, <2>2
<1>8. /\ out' \in Outs /\ out'.sent = sent /\ out'.promised = out.promised
      /\ out'.status = out.status
  BY <1>2, <1>4, <1>7 DEF Outs
<1>9. (size < buffer) \in BOOLEAN /\ (file.cut \/ failed) \in BOOLEAN /\ file.at + size \in Nat
  BY <1>2
<1>10. /\ file' \in Files /\ file'.size = file.size /\ file'.now = file.now
       /\ file'.at = file.at + size /\ file'.bad = (size < buffer)
       /\ file'.changed = file.changed /\ file'.cut = (file.cut \/ failed)
  BY <1>2, <1>4, <1>9 DEF Files
<1>11. out.status = 200 /\ out.promised = file.size
       /\ (Clean(file) => WholeSent(file, out))
  BY <1>5 DEF AnswerInv, Answered
<1>12. ASSUME Clean(file)' PROVE IF pc' = "sending" THEN WholeSent(file, out)'
                                 ELSE Len(sent) = file.size
  <2>1. Clean(file) /\ ~failed /\ n = size
    BY <1>4, <1>10, <1>12 DEF Clean, SendData
  <2>2. file.now = file.size /\ ~file.bad /\ file.at < file.size /\ Len(out.sent) = file.at
    BY <1>11, <2>1 DEF WholeSent
  <2>3. size = IF buffer < file.size - file.at THEN buffer ELSE file.size - file.at
    BY <1>2, <1>3, <2>2 DEF ReadSize, Least, AtLeastZero
  <2>4. buffer > 0
    BY <1>1, <1>2, <2>2 DEF Least
  <2>5. CASE pc' = "sending"
    <3>1. size = buffer /\ file.at + size # file.size
      BY <1>4, <2>5
    <3>2. file.at + size < file.size /\ ~(size < buffer)
      BY <1>2, <2>2, <2>3, <3>1
    <3>3. Len(sent) = file.at + size
      BY <1>7, <2>1, <2>2
    <3> QED
      BY <1>8, <1>10, <2>2, <2>5, <3>2, <3>3 DEF WholeSent
  <2>6. CASE pc' # "sending"
    <3>1. size # buffer \/ file.at + size = file.size
      BY <1>4, <2>1, <2>3, <2>4, <2>6, <2>2, <1>2
    <3>2. file.at + size = file.size
      BY <1>2, <2>2, <2>3, <3>1
    <3> QED
      BY <1>7, <2>1, <2>2, <2>6, <3>2
  <2> QED
    BY <2>5, <2>6
<1>13. Filed'
  BY <1>8, <1>10 DEF Filed
<1>14. Answered'
  <2>1. pc' \in {"sending", "again"} /\ out'.status = 200 /\ out'.promised = file'.size
    BY <1>4, <1>8, <1>10, <1>11
  <2>2. CASE pc' = "sending"
    BY <1>12, <2>1, <2>2 DEF Answered, Silent, Before
  <2>3. CASE pc' = "again"
    <3>1. Clean(file)' => Len(out'.sent) = out'.promised
      BY <1>8, <1>11, <1>12, <2>3
    <3> QED
      BY <2>1, <2>3, <3>1 DEF Answered, Silent, Before
  <2> QED
    BY <2>1, <2>2, <2>3
<1> QED
  BY <1>13, <1>14 DEF AnswerInv

LEMMA PositionsSplit ==
  ASSUME NEW at \in Nat, NEW left \in Nat, NEW n \in 0 .. left
  PROVE  Positions(at, left) = Positions(at, n) \o Positions(at + n, left - n)
<1>0. n \in Nat /\ at + n \in Nat /\ left - n \in Nat
  OBVIOUS
<1>1. PICK a \in Seq(Nat) : a = Positions(at, n) /\ Len(a) = n
                            /\ \A i \in 1 .. n : a[i] = at + i - 1
  BY <1>0, PositionsTyped
<1>2. PICK b \in Seq(Nat) : b = Positions(at + n, left - n) /\ Len(b) = left - n
                            /\ \A i \in 1 .. left - n : b[i] = at + n + i - 1
  BY <1>0, PositionsTyped
<1>3. PICK c \in Seq(Nat) : c = Positions(at, left) /\ Len(c) = left
                            /\ \A i \in 1 .. left : c[i] = at + i - 1
  BY PositionsTyped
<1>4. /\ a \o b \in Seq(Nat) /\ Len(a \o b) = Len(a) + Len(b)
      /\ \A i \in 1 .. Len(a) + Len(b) : (a \o b)[i] = IF i <= Len(a) THEN a[i] ELSE b[i - Len(a)]
  BY ConcatProperties
<1> DEFINE d == a \o b
<1> HIDE DEF d
<1>5. d \in Seq(Nat) /\ Len(d) = left
      /\ \A i \in 1 .. left : d[i] = IF i <= n THEN a[i] ELSE b[i - n]
  <2>1. Len(a) + Len(b) = left
    BY <1>1, <1>2
  <2> QED
    BY <1>1, <1>4, <2>1, Zenon DEF d
<1>6. \A i \in 1 .. left : d[i] = c[i]
  <2> TAKE i \in 1 .. left
  <2>1. CASE i <= n
    BY <1>1, <1>3, <1>5, <2>1
  <2>2. CASE i > n
    <3>1. i - n \in 1 .. left - n /\ at + n + (i - n) - 1 = at + i - 1 /\ ~(i <= n)
      BY <2>2
    <3>2. b[i - n] = at + n + (i - n) - 1
      BY <1>2, <3>1
    <3> QED
      BY <1>3, <1>5, <3>1, <3>2
  <2> QED
    BY <2>1, <2>2
<1>7. d = c
  BY <1>3, <1>5, <1>6, SeqEqual
<1> QED
  BY <1>1, <1>2, <1>3, <1>7 DEF d

LEMMA InAnyGroups ==
  ASSUME NEW s \in Seq(Nat), NEW t \in Seq(Nat), NEW u \in Seq(Nat)
  PROVE  (s \o t) \o u = s \o (t \o u)
BY ConcatAssociative

\* More was sent: a, which b and rest follow.
Moved(sent, a, b, rest) == sent \o ((a \o b) \o rest) = (sent \o a) \o (b \o rest)

LEMMA MovesOn ==
  ASSUME NEW sent \in Seq(Nat), NEW a \in Seq(Nat), NEW b \in Seq(Nat), NEW rest \in Seq(Nat)
  PROVE  Moved(sent, a, b, rest)
<1>1. PICK br \in Seq(Nat) : br = b \o rest
  BY ConcatProperties
<1>2. (a \o b) \o rest = a \o (b \o rest)
  BY InAnyGroups, Zenon
<1>3. (sent \o a) \o br = sent \o (a \o br)
  BY InAnyGroups, Zenon
<1> QED
  BY <1>1, <1>2, <1>3, Zenon DEF Moved

\* What a block of a part is sent as, and what follows it.
PartSent(n, failed, size, bad) ==
  LET others == Tail(file.parts)
  IN  /\ SendData(size, n, failed)
      /\ out' = [out EXCEPT !.sent = @ \o Positions(file.at, n)]
      /\ IF ~bad /\ ~failed /\ n > 0 /\ file.left # n
         THEN /\ file' = [file EXCEPT !.at = @ + n, !.left = @ - n]
              /\ UNCHANGED pc
         ELSE IF others # <<>>
         THEN /\ file' = [file EXCEPT !.parts = others, !.at = Head(others).begin,
                                      !.left = Head(others).length, !.bad = bad,
                                      !.cut = @ \/ failed]
              /\ UNCHANGED pc
         ELSE /\ file' = [file EXCEPT !.parts = <<>>, !.bad = bad, !.cut = @ \/ failed]
              /\ pc' = "again"

\* A block of a part.
LEMMA AnswerPartBlock ==
  ASSUME AnswerInv, SendPartBlock
  PROVE  AnswerInv'
<1> DEFINE q == script[req.head]
           others == Tail(file.parts)
<1>0. /\ file \in Files /\ out \in Outs /\ file.at \in Nat /\ file.size \in Nat
      /\ file.now \in Nat /\ file.bad \in BOOLEAN /\ file.cut \in BOOLEAN
      /\ file.changed \in BOOLEAN /\ out.sent \in Seq(Nat) /\ BlockSize \in Nat \ {0}
      /\ file.left \in Nat /\ file.parts \in Seq(FileParts)
  BY ConnectionAssumption DEF AnswerInv, Filed, Files, Outs
<1>1. PICK buffer \in Nat : buffer = Least(file.left, BlockSize)
  BY <1>0 DEF Least
<1>2. PICK size \in Nat : size = ReadSize(buffer)
  BY <1>0 DEF ReadSize, Least, AtLeastZero
<1>3. PICK bad \in BOOLEAN : bad = (file.bad \/ size < buffer)
  BY <1>0
<1>4. PICK n \in 0 .. size, failed \in BOOLEAN :
        /\ SendData(size, n, failed)
        /\ out' = [out EXCEPT !.sent = @ \o Positions(file.at, n)]
        /\ IF ~bad /\ ~failed /\ n > 0 /\ file.left # n
           THEN /\ file' = [file EXCEPT !.at = @ + n, !.left = @ - n]
                /\ UNCHANGED pc
           ELSE IF others # <<>>
           THEN /\ file' = [file EXCEPT !.parts = others, !.at = Head(others).begin,
                                        !.left = Head(others).length, !.bad = bad,
                                        !.cut = @ \/ failed]
                /\ UNCHANGED pc
           ELSE /\ file' = [file EXCEPT !.parts = <<>>, !.bad = bad, !.cut = @ \/ failed]
                /\ pc' = "again"
  <2>1. \E n \in 0 .. ReadSize(Least(file.left, BlockSize)), failed \in BOOLEAN :
          PartSent(n, failed, ReadSize(Least(file.left, BlockSize)),
                   file.bad \/ ReadSize(Least(file.left, BlockSize)) < Least(file.left, BlockSize))
    BY Zenon DEF SendPartBlock, PartSent
  <2>2. \E n \in 0 .. size, failed \in BOOLEAN :
          PartSent(n, failed, size, file.bad \/ size < buffer)
    BY <1>1, <1>2, <2>1
  <2>3. \E n \in 0 .. size, failed \in BOOLEAN : PartSent(n, failed, size, bad)
    BY <1>3, <2>2, Zenon
  <2> QED
    BY <2>3, Zenon DEF PartSent
<1>5. pc = "parts" /\ UNCHANGED <<script, req>>
  BY DEF SendPartBlock, client
<1>6. /\ out.status = 206 /\ ~q.head /\ file.parts # <<>>
      /\ Clean(file) /\ ~Past(q) => PartsSent(file, out, AskedOf(q))
  BY <1>5 DEF AnswerInv, Answered
<1>7. size <= buffer /\ buffer <= file.left /\ n \in Nat /\ n <= file.left
  BY <1>0, <1>1, <1>2, <1>4 DEF ReadSize, Least, AtLeastZero
<1>8. PICK a \in Seq(Nat) : a = Positions(file.at, n)
  BY <1>0, <1>7, PositionsTyped
<1>9. PICK sent \in Seq(Nat) : sent = out.sent \o a
  BY <1>0, <1>8, ConcatProperties
<1>10. /\ out' \in Outs /\ out'.sent = sent /\ out'.promised = out.promised
       /\ out'.status = out.status
  BY <1>0, <1>4, <1>8, <1>9 DEF Outs
<1>11. others \in Seq(FileParts) /\ PositionsOf(others) \in Seq(Nat)
  BY <1>0, <1>6, PositionsOfTail, LengthOfParts
<1>12. file.left - n \in Nat /\ (file.cut \/ failed) \in BOOLEAN /\ file.at + n \in Nat
  BY <1>0, <1>7
<1> HIDE DEF others
\* What a clean transfer sends: the whole block, and no more than is asked for.
<1>13. ASSUME ~failed, Clean(file), ~Past(q)
       PROVE  /\ n = buffer /\ n > 0 /\ ~bad
              /\ sent \o (Positions(file.at + n, file.left - n) \o PositionsOf(others))
                   = AskedOf(q)
              /\ out.promised = Len(AskedOf(q)) /\ file.now = file.size /\ ~file.bad
              /\ file.at + file.left <= file.size
              /\ \A i \in DOMAIN file.parts :
                   /\ file.parts[i].length > 0
                   /\ file.parts[i].begin + file.parts[i].length <= file.size
  <2>1. PartsSent(file, out, AskedOf(q)) /\ n = size
    BY <1>4, <1>6, <1>13 DEF SendData
  <2>2. /\ file.now = file.size /\ ~file.bad /\ file.left > 0
        /\ file.at + file.left <= file.size
    BY <2>1 DEF PartsSent
  <2>3. size = buffer /\ buffer > 0
    BY <1>0, <1>1, <1>2, <2>2 DEF ReadSize, Least, AtLeastZero
  <2>4. ~bad
    <3>1. ~(size < buffer)
      BY <2>3
    <3> QED
      BY <1>3, <2>2, <3>1, Zenon
  <2>5. PICK rest \in Seq(Nat) : rest = PositionsOf(others)
    BY <1>11
  <2>6. out.sent \o (Positions(file.at, file.left) \o rest) = AskedOf(q)
        /\ out.promised = Len(AskedOf(q))
    BY <2>1, <2>5, Zenon DEF PartsSent, others
  <2>7. out.sent \o (Positions(file.at, file.left) \o rest)
          = (out.sent \o Positions(file.at, n)) \o (Positions(file.at + n, file.left - n) \o rest)
    <3>1. PICK s \in Seq(Nat), at \in Nat, left \in Nat :
            s = out.sent /\ at = file.at /\ left = file.left
      BY <1>0
    <3>2. n \in 0 .. left /\ at + n \in Nat /\ left - n \in Nat
      BY <1>7, <3>1
    <3>3. PICK b \in Seq(Nat) : b = Positions(at + n, left - n)
      BY <3>2, PositionsTyped
    <3>4. a = Positions(at, n)
      BY <1>8, <3>1
    <3>5. Positions(at, left) = a \o b
      BY <3>2, <3>3, <3>4, PositionsSplit
    <3>6. Moved(s, a, b, rest)
      BY MovesOn
    <3> QED
      BY <3>1, <3>3, <3>4, <3>5, <3>6, Zenon DEF Moved
  <2>8. sent \o (Positions(file.at + n, file.left - n) \o rest) = AskedOf(q)
    BY <1>8, <1>9, <2>6, <2>7, Zenon
  <2>9. \A i \in DOMAIN file.parts :
           /\ file.parts[i].length > 0
           /\ file.parts[i].begin + file.parts[i].length <= file.size
    BY <2>1 DEF PartsSent
  <2> QED
    BY <2>1, <2>2, <2>3, <2>4, <2>5, <2>6, <2>8, <2>9
\* A part that is done: its last block was sent.
<1>14. ASSUME ~failed, Clean(file), ~Past(q), file.left = n
       PROVE  sent \o PositionsOf(others) = AskedOf(q)
  <2>1. PICK rest \in Seq(Nat) : rest = PositionsOf(others)
    BY <1>11
  <2>2. sent \o (Positions(file.at + n, file.left - n) \o rest) = AskedOf(q)
    BY <1>13, <1>14, <2>1
  <2>3. file.left - n = 0 /\ Positions(file.at + n, 0) = <<>>
    BY <1>0, <1>14 DEF Positions
  <2>4. <<>> \o rest = rest
    BY ConcatEmptySeq
  <2> QED
    BY <2>1, <2>2, <2>3, <2>4
<1>15. CASE /\ ~bad /\ ~failed /\ n > 0 /\ file.left # n
            /\ file' = [file EXCEPT !.at = @ + n, !.left = @ - n] /\ UNCHANGED pc
  <2>1. /\ file' \in Files /\ file'.size = file.size /\ file'.now = file.now
        /\ file'.bad = file.bad /\ file'.at = file.at + n /\ file'.left = file.left - n
        /\ file'.parts = file.parts /\ file'.cut = file.cut /\ file'.changed = file.changed
    BY <1>0, <1>12, <1>15 DEF Files
  <2>2. ASSUME Clean(file)', ~Past(q)' PROVE PartsSent(file, out, AskedOf(q))'
    <3>1. Clean(file) /\ ~Past(q) /\ AskedOf(q)' = AskedOf(q)
      BY <1>5, <2>1, <2>2 DEF Clean, Past, AskedOf
    <3>2. file.left - n > 0 /\ file.at + n + (file.left - n) <= file.size
      BY <1>0, <1>7, <1>13, <1>15, <3>1
    <3>3. sent \o (Positions(file.at + n, file.left - n) \o PositionsOf(others)) = AskedOf(q)
      BY <1>13, <1>15, <3>1
    <3> QED
      BY <1>10, <1>13, <1>15, <2>1, <3>1, <3>2, <3>3 DEF PartsSent, others
  <2>3. Filed'
    BY <1>10, <2>1 DEF Filed
  <2>4. Answered'
    BY <1>5, <1>6, <1>10, <1>15, <2>1, <2>2 DEF Answered, Silent, Before
  <2> QED
    BY <2>3, <2>4 DEF AnswerInv
<1>16. CASE /\ ~(~bad /\ ~failed /\ n > 0 /\ file.left # n) /\ others # <<>>
            /\ file' = [file EXCEPT !.parts = others, !.at = Head(others).begin,
                                    !.left = Head(others).length, !.bad = bad,
                                    !.cut = @ \/ failed]
            /\ UNCHANGED pc
  <2>0. Head(others) \in FileParts /\ Head(others).begin \in Nat /\ Head(others).length \in Nat
    BY <1>11, <1>16, PositionsOfTail DEF FileParts
  <2>1. /\ file' \in Files /\ file'.size = file.size /\ file'.now = file.now
        /\ file'.bad = bad /\ file'.at = Head(others).begin /\ file'.left = Head(others).length
        /\ file'.parts = others /\ file'.cut = (file.cut \/ failed)
        /\ file'.changed = file.changed
    BY <1>0, <1>11, <1>12, <1>16, <2>0 DEF Files
  <2>2. ASSUME Clean(file)', ~Past(q)' PROVE PartsSent(file, out, AskedOf(q))'
    <3>1. Clean(file) /\ ~failed /\ ~Past(q) /\ AskedOf(q)' = AskedOf(q)
      BY <1>5, <2>1, <2>2 DEF Clean, Past, AskedOf
    <3>2. n = file.left /\ ~bad
      BY <1>13, <1>16, <3>1
    <3>3. sent \o PositionsOf(others) = AskedOf(q)
      BY <1>14, <3>1, <3>2
    <3>4. PositionsOf(others) = Positions(Head(others).begin, Head(others).length)
                                  \o PositionsOf(Tail(others))
      BY <1>11, <1>16, PositionsOfTail
    <3>5. \A i \in DOMAIN others : /\ others[i].length > 0
                                   /\ others[i].begin + others[i].length <= file.size
      <4>1. PICK len \in Nat : len = Len(file.parts)
        BY <1>0, LenProperties
      <4>2. /\ DOMAIN file.parts = 1 .. len /\ DOMAIN others = 1 .. Len(others)
            /\ Len(others) = len - 1 /\ \A i \in 1 .. len - 1 : others[i] = file.parts[i + 1]
        BY <1>0, <1>6, <1>11, <4>1, HeadTailProperties, LenProperties, EmptySeq DEF others
      <4>3. \A i \in 1 .. len - 1 : i + 1 \in 1 .. len
        BY <4>1
      <4> QED
        BY <1>13, <3>1, <4>2, <4>3
    <3>6. Head(others) = others[1] /\ 1 \in DOMAIN others
      BY <1>11, <1>16, HeadTailProperties, LenProperties, EmptySeq
    <3>7. file'.left > 0 /\ file'.at + file'.left <= file'.size
      BY <2>1, <3>5, <3>6
    <3>8. file'.now = file'.size /\ ~file'.bad /\ out'.promised = Len(AskedOf(q))
      BY <1>10, <1>13, <2>1, <3>1, <3>2
    <3> QED
      BY <1>10, <2>1, <3>1, <3>3, <3>4, <3>5, <3>7, <3>8 DEF PartsSent
  <2>3. Filed'
    BY <1>10, <2>1 DEF Filed
  <2>4. Answered'
    BY <1>5, <1>6, <1>10, <1>16, <2>1, <2>2 DEF Answered, Silent, Before
  <2> QED
    BY <2>3, <2>4 DEF AnswerInv
<1>17. CASE /\ ~(~bad /\ ~failed /\ n > 0 /\ file.left # n) /\ others = <<>>
            /\ file' = [file EXCEPT !.parts = <<>>, !.bad = bad, !.cut = @ \/ failed]
            /\ pc' = "again"
  <2>0. <<>> \in Seq(FileParts)
    BY EmptySeq
  <2>1. /\ file' \in Files /\ file'.size = file.size /\ file'.cut = (file.cut \/ failed)
        /\ file'.changed = file.changed
    BY <1>0, <1>12, <1>17, <2>0 DEF Files
  <2>2. ASSUME Clean(file)', ~Past(q)'
        PROVE  out'.sent = AskedOf(q)' /\ Len(out'.sent) = out'.promised
    <3>1. Clean(file) /\ ~failed /\ ~Past(q) /\ AskedOf(q)' = AskedOf(q)
      BY <1>5, <2>1, <2>2 DEF Clean, Past, AskedOf
    <3>2. n = file.left
      BY <1>13, <1>17, <3>1
    <3>3. sent \o PositionsOf(others) = AskedOf(q)
      BY <1>14, <3>1, <3>2
    <3>4. PositionsOf(others) = <<>>
      <4>1. Len(PartLists(<<>>)) = 0 /\ PartLists(<<>>) \in Lists(Nat)
        BY <2>0, PartListsTyped
      <4>2. PositionsOf(<<>>) \in Seq(Nat) /\ ContentLength(<<>>) = Len(PositionsOf(<<>>))
        BY <2>0, LengthOfParts
      <4>3. 0 = Len(<<>>)
        OBVIOUS
      <4>4. PICK g : SumUpTo(<<>>, g, 0) /\ ContentLength(<<>>) = g[0]
        BY <4>3, SumUpToIs
      <4>5. ContentLength(<<>>) = 0
        BY <4>4 DEF SumUpTo
      <4>6. PositionsOf(<<>>) = <<>>
        BY <4>2, <4>5, EmptySeq
      <4> QED
        BY <1>17, <4>6
    <3>5. sent \o <<>> = sent
      BY ConcatEmptySeq
    <3>6. sent = AskedOf(q) /\ out.promised = Len(AskedOf(q))
      BY <1>13, <3>1, <3>3, <3>4, <3>5
    <3> QED
      BY <1>10, <3>1, <3>6
  <2>3. Filed'
    BY <1>10, <2>1 DEF Filed
  <2>4. Answered'
    BY <1>5, <1>6, <1>10, <1>17, <2>1, <2>2 DEF Answered, Silent, Before
  <2> QED
    BY <2>3, <2>4 DEF AnswerInv
<1> QED
  BY <1>4, <1>15, <1>16, <1>17

LEMMA AnswerStep == ConnInv /\ Typed /\ RecvInv /\ AnswerInv /\ [Next]_vars => AnswerInv'
<1> SUFFICES ASSUME ConnInv, Typed, RecvInv, AnswerInv, [Next]_vars PROVE AnswerInv'
  OBVIOUS
<1>1. CASE Server
  BY <1>1, AnswerBefore, AnswerReceived, AnswerStatus, AnswerFile, AnswerParts, AnswerBlock,
     AnswerPartBlock, AnswerEnds DEF Server
<1>2. CASE ClientReads \/ Stopped \/ UNCHANGED vars
  <2>1. UNCHANGED <<script, file, out, req, pc>>
    BY <1>2 DEF ClientReads, Stopped, vars, client
  <2> QED
    BY <2>1, AnswerKept
<1>3. CASE FileChanges
  <2>1. PICK size \in 0 .. MaxSize + 1 : file' = [file EXCEPT !.now = size, !.changed = TRUE]
    BY <1>3 DEF FileChanges
  <2>2. UNCHANGED <<script, out, req, pc>> /\ pc \in {"sending", "parts"}
    BY <1>3 DEF FileChanges, client
  <2>3. size \in Nat
    BY <2>1, ConnectionAssumption
  <2>4. file' \in Files /\ ~Clean(file)' /\ file'.size = file.size /\ file'.parts = file.parts
    BY <2>1, <2>3 DEF AnswerInv, Filed, Files, Clean
  <2> QED
    BY <2>2, <2>4 DEF AnswerInv, Filed, Answered, Silent, Before
<1> QED
  BY <1>1, <1>2, <1>3 DEF Next

\* What is known of every answer and its file.
THEOREM AnswersCorrect == Spec => [](Typed /\ AnswerInv)
  BY ConnCorrect, RecvCorrect, TypedInit, TypedStep, AnswerInit, AnswerStep, PTL DEF Spec

\* The types of a connection: lengths do not go below zero, nor does the keep-alive count.
THEOREM ConnectionTyped == Spec => []TypeOK
<1>1. ConnInv /\ RecvInv /\ Typed /\ AnswerInv => TypeOK
  <2> SUFFICES ASSUME ConnInv, RecvInv, Typed, AnswerInv PROVE TypeOK
    OBVIOUS
  <2>1. dr.left \in Nat /\ dr.recv \in 0 .. dr.full
    BY DEF RecvInv, Received, AnyReceivers
  <2>2. file.left \in Nat /\ file.at \in Nat /\ out.promised \in Nat
    BY DEF AnswerInv, Filed, Files, Outs
  <2>3. script \in Scripts /\ taken \in 0 .. Len(StreamOf[script]) /\ req.turn \in Nat
    BY DEF RecvInv, Texted, ConnInv, Released
  <2> QED
    BY <2>1, <2>2, <2>3 DEF Typed, TypeOK
<1> QED
  BY <1>1, ConnCorrect, RecvCorrect, AnswersCorrect, PTL

\* A connection is used again only behind an answer of the announced length, for every
\* file, block size and header, unless one of the three exceptions is met.
THEOREM FramesAreKept == Spec => []AnswersAreFramed
<1>1. AnswerInv => AnswersAreFramed
  BY DEF AnswerInv, Filed, Outs, Answered, Clean, AnswersAreFramed
<1> QED
  BY <1>1, AnswersCorrect, PTL

\* A partial answer has the positions that were asked for, in their order, for every header
\* whose ranges end inside the file.
THEOREM AskedPartsAreSent == Spec => []PartsAreThoseAsked
<1>1. AnswerInv => PartsAreThoseAsked
  BY DEF AnswerInv, Answered, Clean, AskedOf, PartsAreThoseAsked
<1> QED
  BY <1>1, AnswersCorrect, PTL

-----------------------------------------------------------------------------
(* The requests in the byte stream                                          *)

\* The first sequences of a list, and one more.
Joined(g, k) == FlattenSeq([i \in 1 .. k |-> g[i]])

LEMMA OneMoreList ==
  ASSUME NEW S, NEW n \in Nat, NEW g, \A i \in 1 .. n : g[i] \in Seq(S),
         NEW k \in Nat, k + 1 <= n
  PROVE  Joined(g, k) \in Seq(S) /\ Joined(g, k + 1) = Joined(g, k) \o g[k + 1]
<1> DEFINE shorter == [i \in 1 .. k |-> g[i]]
           longer  == [i \in 1 .. k + 1 |-> g[i]]
<1>1. k + 1 \in Nat /\ k + 1 \in 1 .. n
      /\ (\A i \in 1 .. k : i \in 1 .. n) /\ (\A i \in 1 .. k + 1 : i \in 1 .. n)
  OBVIOUS
<1>2. shorter \in Lists(S) /\ Len(shorter) = k
  <2>1. \A i \in 1 .. k : g[i] \in Seq(S)
    BY <1>1
  <2> QED
    BY <2>1, ListUpTo DEF Lists
<1>3. longer \in Lists(S) /\ Len(longer) = k + 1
  <2>1. \A i \in 1 .. k + 1 : g[i] \in Seq(S)
    BY <1>1
  <2> QED
    BY <1>1, <2>1, ListUpTo DEF Lists
<1>4. (\A i \in 1 .. k : longer[i] = shorter[i]) /\ longer[k + 1] = g[k + 1]
  OBVIOUS
<1>5. PICK e \in Seq(S) : e = g[k + 1]
  BY <1>1
<1> HIDE DEF shorter, longer
<1>6. /\ Append(shorter, e) \in Lists(S) /\ Len(Append(shorter, e)) = k + 1
      /\ \A i \in 1 .. k : Append(shorter, e)[i] = shorter[i]
      /\ Append(shorter, e)[k + 1] = e
  BY <1>2, AppendProperties DEF Lists
<1>7. \A i \in 1 .. k + 1 : longer[i] = Append(shorter, e)[i]
  <2>1. \A i \in 1 .. k + 1 : i = k + 1 \/ i \in 1 .. k
    OBVIOUS
  <2> QED
    BY <1>4, <1>5, <1>6, <2>1
<1>8. longer = Append(shorter, e)
  BY <1>3, <1>6, <1>7, SeqEqual DEF Lists
<1>9. FlattenSeq(longer) = FlattenSeq(shorter) \o e /\ FlattenSeq(shorter) \in Seq(S)
  BY <1>2, <1>8, FlattenAppend, FlattenTyped
<1> QED
  BY <1>5, <1>9 DEF Joined, shorter, longer

LEMMA AllJoined ==
  ASSUME NEW S, NEW n \in Nat, NEW g, g = [i \in 1 .. n |-> g[i]]
  PROVE  Joined(g, 0) = <<>> /\ Joined(g, n) = FlattenSeq(g)
<1>1. [i \in 1 .. 0 |-> g[i]] = <<>>
  OBVIOUS
<1> QED
  BY <1>1 DEF Joined, FlattenSeq

\* The first requests of a script, and how many units they are.
First(s, k) == Joined(Messages(s), k)
Start(s, k) == Len(First(s, k))

LEMMA OneMoreMessage ==
  ASSUME NEW s \in Scripts, NEW k \in Nat, k + 1 <= Len(s)
  PROVE  /\ First(s, k) \in Seq(SentBy(s)) /\ First(s, k + 1) \in Seq(SentBy(s))
         /\ First(s, k + 1) = First(s, k) \o Message(s, k + 1)
<1>1. PICK n \in Nat : n = Len(s) /\ DOMAIN s = 1 .. n
  BY ConnectionAssumption, LenProperties
<1>2. PICK g : g = Messages(s) /\ \A i \in 1 .. n : g[i] = Message(s, i)
  <2>1. \A i \in DOMAIN s : Messages(s)[i] = Message(s, i)
    BY DEF Messages
  <2> QED
    BY <1>1, <2>1, Zenon
<1>3. \A i \in 1 .. n : g[i] \in Seq(SentBy(s))
  BY <1>1, <1>2, MessageTyped
<1>4. Joined(g, k) \in Seq(SentBy(s)) /\ Joined(g, k + 1) = Joined(g, k) \o g[k + 1]
  BY <1>1, <1>3, OneMoreList
<1>5. k + 1 \in 1 .. n
  BY <1>1
<1>6. Joined(g, k) \o g[k + 1] \in Seq(SentBy(s))
  BY <1>3, <1>4, <1>5, ConcatProperties
<1> QED
  BY <1>2, <1>4, <1>5, <1>6 DEF First

LEMMA NoneAndAll ==
  ASSUME NEW s \in Scripts
  PROVE  First(s, 0) = <<>> /\ First(s, Len(s)) = StreamOf[s] /\ Len(s) \in Nat
<1>1. PICK n \in Nat : n = Len(s) /\ DOMAIN s = 1 .. n
  BY ConnectionAssumption, LenProperties
<1>2. PICK g : g = Messages(s) /\ g = [i \in 1 .. n |-> g[i]]
  <2>1. PICK f : f = Messages(s) /\ f \in Lists(SentBy(s)) /\ Len(f) = n
    BY <1>1, StreamTyped
  <2>2. f \in [1 .. n -> Seq(SentBy(s))]
    BY <2>1, LenProperties DEF Lists
  <2>3. f = [i \in 1 .. n |-> f[i]]
    BY <2>2
  <2> QED
    BY <2>1, <2>3
<1>3. Joined(g, 0) = <<>> /\ Joined(g, n) = FlattenSeq(g)
  BY <1>2, AllJoined
<1>4. StreamOf[s] = FlattenSeq(g)
  BY <1>2, StreamTyped
<1> QED
  BY <1>1, <1>2, <1>3, <1>4 DEF First

LEMMA FirstIsPrefix ==
  ASSUME NEW s \in Scripts, NEW k \in Nat, k <= Len(s)
  PROVE  /\ First(s, k) \in Seq(SentBy(s)) /\ Start(s, k) \in Nat
         /\ Start(s, k) <= Len(StreamOf[s])
         /\ \A i \in 1 .. Start(s, k) : StreamOf[s][i] = First(s, k)[i]
<1>1. PICK len \in Nat : len = Len(s) /\ k <= len
  BY NoneAndAll
<1>2. First(s, k) \in Seq(SentBy(s)) /\ Start(s, k) \in Nat
  <2>1. CASE k = 0
    BY <2>1, NoneAndAll, EmptySeq DEF Start
  <2>2. CASE k # 0
    <3>1. PICK j \in Nat : j + 1 = k /\ j + 1 <= Len(s)
      <4>1. k - 1 \in Nat /\ (k - 1) + 1 = k
        BY <2>2
      <4> QED
        BY <4>1
    <3>2. First(s, j + 1) \in Seq(SentBy(s))
      BY <3>1, OneMoreMessage
    <3> QED
      BY <3>1, <3>2, LenProperties DEF Start
  <2> QED
    BY <2>1, <2>2
<1>3. PICK start \in Nat : start = Start(s, k)
  BY <1>2
<1> DEFINE Longer(m) == /\ First(s, m) \in Seq(SentBy(s)) /\ start <= Len(First(s, m))
                        /\ \A i \in 1 .. start : First(s, m)[i] = First(s, k)[i]
           T == { m \in Nat : m <= len /\ k <= m => Longer(m) }
<1>4. Longer(k)
  BY <1>2, <1>3 DEF Start
<1>5. ASSUME NEW m \in Nat, k <= m, m + 1 <= len, Longer(m) PROVE Longer(m + 1)
  <2>1. PICK a \in Seq(SentBy(s)) : a = First(s, m) /\ start <= Len(a)
                                    /\ \A i \in 1 .. start : a[i] = First(s, k)[i]
    BY <1>5
  <2>2. PICK b \in Seq(SentBy(s)) : b = Message(s, m + 1)
    <3>1. m + 1 \in DOMAIN s
      <4>1. DOMAIN s = 1 .. len
        BY <1>1, ConnectionAssumption, LenProperties
      <4> QED
        BY <1>5, <4>1
    <3> QED
      BY <3>1, MessageTyped
  <2>3. First(s, m + 1) = a \o b
    BY <1>1, <1>5, <2>1, <2>2, OneMoreMessage
  <2>4. a \o b \in Seq(SentBy(s)) /\ Len(a \o b) = Len(a) + Len(b)
        /\ \A i \in 1 .. Len(a) + Len(b) : (a \o b)[i] = IF i <= Len(a) THEN a[i] ELSE b[i - Len(a)]
    BY ConcatProperties
  <2>5. Len(a) \in Nat /\ Len(b) \in Nat
    BY LenProperties
  <2>6. \A i \in 1 .. start : i <= Len(a) /\ i \in 1 .. Len(a) + Len(b)
    BY <2>1, <2>5
  <2>7. start <= Len(a \o b) /\ \A i \in 1 .. start : (a \o b)[i] = First(s, k)[i]
    BY <2>1, <2>4, <2>5, <2>6
  <2> QED
    BY <2>3, <2>4, <2>7
<1> HIDE DEF Longer
<1>6. T = Nat
  <2>1. T \subseteq Nat
    OBVIOUS
  <2>2. 0 \in T
    <3>1. k <= 0 => k = 0
      OBVIOUS
    <3> QED
      BY <1>4, <3>1
  <2>3. ASSUME NEW m \in T PROVE m + 1 \in T
    <3>1. m \in Nat /\ m + 1 \in Nat /\ (m + 1 <= len => m <= len) /\ (k <= m + 1 => k <= m \/ k = m + 1)
      OBVIOUS
    <3>2. m <= len /\ k <= m => Longer(m)
      OBVIOUS
    <3>3. m + 1 <= len /\ k <= m + 1 => Longer(m + 1)
      BY <1>4, <1>5, <3>1, <3>2
    <3> QED
      BY <3>1, <3>3
  <2> HIDE DEF T
  <2> QED
    BY <2>1, <2>2, <2>3, NatSetInduction
<1>7. Longer(len)
  <2>1. len \in T
    BY <1>6
  <2> QED
    BY <1>1, <2>1
<1>8. First(s, len) = StreamOf[s]
  BY <1>1, NoneAndAll
<1> QED
  BY <1>2, <1>3, <1>7, <1>8 DEF Longer

\* Where a request begins, and what stands there.
LEMMA StreamAt ==
  ASSUME NEW s \in Scripts, NEW k \in Nat, k + 1 <= Len(s)
  PROVE  LET size == Len(BodyText(s[k + 1])) + 3
         IN  /\ size \in Nat /\ Start(s, k) \in Nat /\ Start(s, k + 1) = Start(s, k) + size
             /\ Start(s, k + 1) <= Len(StreamOf[s])
             /\ \A i \in 1 .. size : StreamOf[s][Start(s, k) + i] = Message(s, k + 1)[i]
<1>1. k + 1 \in Nat /\ k + 1 \in DOMAIN s /\ k <= Len(s)
  <2>1. DOMAIN s = 1 .. Len(s) /\ Len(s) \in Nat
    BY ConnectionAssumption, LenProperties
  <2> QED
    BY <2>1
<1>2. PICK a \in Seq(SentBy(s)) : a = First(s, k)
  BY OneMoreMessage
<1>3. PICK b \in Seq(SentBy(s)) : b = Message(s, k + 1) /\ Len(b) = Len(BodyText(s[k + 1])) + 3
  BY <1>1, MessageTyped
<1>4. Len(a) \in Nat /\ Len(b) \in Nat
  BY LenProperties
<1>5. First(s, k + 1) = a \o b
  BY <1>2, <1>3, OneMoreMessage
<1>6. Len(a \o b) = Len(a) + Len(b)
      /\ \A i \in 1 .. Len(a) + Len(b) : (a \o b)[i] = IF i <= Len(a) THEN a[i] ELSE b[i - Len(a)]
  BY ConcatProperties
<1>7. /\ Start(s, k + 1) \in Nat /\ Start(s, k + 1) <= Len(StreamOf[s])
      /\ \A i \in 1 .. Start(s, k + 1) : StreamOf[s][i] = First(s, k + 1)[i]
  BY <1>1, FirstIsPrefix
<1>8. Start(s, k) = Len(a) /\ Start(s, k + 1) = Len(a) + Len(b)
  BY <1>2, <1>5, <1>6 DEF Start
<1>9. ASSUME NEW i \in 1 .. Len(b) PROVE StreamOf[s][Len(a) + i] = b[i]
  <2>1. Len(a) + i \in 1 .. Len(a) + Len(b) /\ ~(Len(a) + i <= Len(a)) /\ (Len(a) + i) - Len(a) = i
    BY <1>4
  <2>2. StreamOf[s][Len(a) + i] = First(s, k + 1)[Len(a) + i]
    BY <1>7, <1>8, <2>1
  <2>3. (a \o b)[Len(a) + i] = b[i]
    BY <1>6, <2>1
  <2> QED
    BY <1>5, <2>2, <2>3
<1> QED
  BY <1>3, <1>4, <1>7, <1>8, <1>9

\* The head of a request, and its body.
LEMMA RequestAt ==
  ASSUME NEW s \in Scripts, NEW k \in Nat, k + 1 <= Len(s)
  PROVE  LET at == Start(s, k)
             words == BodyText(s[k + 1])
             stream == StreamOf[s]
         IN  /\ at \in Nat /\ Len(words) \in Nat /\ Start(s, k + 1) = at + 3 + Len(words)
             /\ at + 3 + Len(words) <= Len(stream)
             /\ stream[at + 1].t = "head" /\ stream[at + 1].r = k + 1
             /\ stream[at + 2].t = "nl" /\ stream[at + 3].t = "nl"
             /\ \A i \in 1 .. Len(words) : /\ stream[at + 3 + i].t = words[i]
                                           /\ stream[at + 3 + i] = [t |-> words[i], r |-> k + 1]
<1>1. k + 1 \in DOMAIN s
  <2>1. DOMAIN s = 1 .. Len(s) /\ Len(s) \in Nat
    BY ConnectionAssumption, LenProperties
  <2> QED
    BY <2>1
<1>2. PICK words \in Texts : words = BodyText(s[k + 1])
  BY <1>1, MessageTyped
<1>3. PICK size \in Nat : size = Len(words)
  BY <1>2, LenProperties DEF Texts
<1>4. PICK at \in Nat : at = Start(s, k)
  BY StreamAt
<1>5. /\ Start(s, k + 1) = at + (size + 3) /\ Start(s, k + 1) <= Len(StreamOf[s])
      /\ \A i \in 1 .. size + 3 : StreamOf[s][at + i] = Message(s, k + 1)[i]
  BY <1>2, <1>3, <1>4, StreamAt
<1>6. PICK head \in Seq(Words) : head = <<"head", "nl", "nl">> /\ Len(head) = 3
                                /\ head[1] = "head" /\ head[2] = "nl" /\ head[3] = "nl"
  BY SignsTyped DEF Texts
<1>7. /\ head \o words \in Seq(Words) /\ Len(head \o words) = 3 + size
      /\ \A i \in 1 .. 3 + size : (head \o words)[i] = IF i <= 3 THEN head[i] ELSE words[i - 3]
  BY <1>2, <1>3, <1>6, ConcatProperties DEF Texts
<1>8. \A i \in 1 .. size + 3 : Message(s, k + 1)[i] = [t |-> (head \o words)[i], r |-> k + 1]
  <2>1. DOMAIN (head \o words) = 1 .. size + 3
    BY <1>7, LenProperties
  <2>2. Message(s, k + 1) = Tokens(head \o words, k + 1)
    BY <1>2, <1>6 DEF Message
  <2> QED
    BY <2>1, <2>2 DEF Tokens
<1>9. \A i \in 1 .. size + 3 : /\ StreamOf[s][at + i].t = (head \o words)[i]
                               /\ StreamOf[s][at + i].r = k + 1
                               /\ StreamOf[s][at + i] = [t |-> (head \o words)[i], r |-> k + 1]
  <2> TAKE i \in 1 .. size + 3
  <2>1. PICK token : token = (head \o words)[i]
    OBVIOUS
  <2>2. PICK unit : unit = [t |-> token, r |-> k + 1]
    OBVIOUS
  <2>3. unit.t = token /\ unit.r = k + 1
    BY <2>2
  <2>4. StreamOf[s][at + i] = unit
    BY <1>5, <1>8, <2>1, <2>2
  <2> QED
    BY <2>1, <2>2, <2>3, <2>4, Zenon
<1>10. /\ 1 \in 1 .. size + 3 /\ 2 \in 1 .. size + 3 /\ 3 \in 1 .. size + 3
       /\ (head \o words)[1] = "head" /\ (head \o words)[2] = "nl" /\ (head \o words)[3] = "nl"
  <2>1. 1 \in 1 .. 3 + size /\ 2 \in 1 .. 3 + size /\ 3 \in 1 .. 3 + size
    OBVIOUS
  <2> QED
    BY <1>6, <1>7, <2>1
<1>11. ASSUME NEW i \in 1 .. size
       PROVE  /\ StreamOf[s][at + 3 + i].t = words[i]
              /\ StreamOf[s][at + 3 + i] = [t |-> words[i], r |-> k + 1]
  <2>1. 3 + i \in 1 .. size + 3 /\ 3 + i \in 1 .. 3 + size /\ ~(3 + i <= 3) /\ (3 + i) - 3 = i
        /\ at + (3 + i) = at + 3 + i
    OBVIOUS
  <2>2. (head \o words)[3 + i] = words[i]
    BY <1>7, <2>1
  <2>3. /\ StreamOf[s][at + (3 + i)].t = (head \o words)[3 + i]
        /\ StreamOf[s][at + (3 + i)] = [t |-> (head \o words)[3 + i], r |-> k + 1]
    BY <1>9, <2>1
  <2> QED
    BY <2>1, <2>2, <2>3
<1>12. at + (size + 3) = at + 3 + size
  OBVIOUS
<1>13. /\ StreamOf[s][at + 1].t = "head" /\ StreamOf[s][at + 1].r = k + 1
       /\ StreamOf[s][at + 2].t = "nl" /\ StreamOf[s][at + 3].t = "nl"
  BY <1>9, <1>10
<1> QED
  BY <1>2, <1>3, <1>4, <1>5, <1>11, <1>12, <1>13

-----------------------------------------------------------------------------
(* The text of a body                                                       *)

\* A request without Content-Type has no body when it has no items.
LEMMA NoBody ==
  ASSUME NEW q \in Requests, q.variant = "none", WellFramed(q)
  PROVE  Len(BodyText(q)) = 0
<1>1. q.items = <<>> /\ q.variant # "multipart"
  BY DEF WellFramed
<1> DEFINE pieces == [i \in DOMAIN q.items |-> IF i = 1 THEN PairText(q.items[i])
                                               ELSE <<"amp">> \o PairText(q.items[i])]
<1>2. pieces = <<>>
  BY <1>1
<1>3. BodyText(q) = FlattenSeq(pieces)
  BY <1>1 DEF BodyText
<1> HIDE DEF pieces
<1>4. BodyText(q) = <<>>
  BY <1>2, <1>3 DEF FlattenSeq
<1> QED
  BY <1>4

\* A text that ends with a boundary, behind every other of which there is a line end.
Fenced(text) ==
  /\ text \in Seq(Words) /\ Len(text) >= 1 /\ text[Len(text)] = "bnd"
  /\ \A i \in 1 .. Len(text) - 1 : text[i] = "bnd" => text[i + 1] = "nl"

\* A part without a boundary inside.
LEMMA PartFenced ==
  ASSUME NEW item \in Items, item.kind # "bnd", "bnd" \notin ToSet(item.value)
  PROVE  /\ PartText(item) \in Seq(Words) /\ Len(PartText(item)) >= 6
         /\ PartText(item)[1] = "nl" /\ PartText(item)[Len(PartText(item))] = "bnd"
         /\ \A i \in 1 .. Len(PartText(item)) - 1 : PartText(item)[i] # "bnd"
<1>1. item.kind \in Words /\ item.value \in Seq(Words) /\ "nl" \in Words
  BY DEF Items, Words, Signs, Texts
<1>2. PICK a \in Seq(Words) : /\ a = <<"nl", item.kind, "nl", "nl">> /\ Len(a) = 4 /\ a[1] = "nl"
                              /\ a[2] = item.kind /\ a[3] = "nl" /\ a[4] = "nl"
  <2>1. PICK kind \in Words : kind = item.kind
    BY <1>1
  <2>2. <<"nl", kind, "nl", "nl">> \in Seq(Words)
    BY <1>1, <2>1
  <2>3. /\ Len(<<"nl", kind, "nl", "nl">>) = 4
        /\ <<"nl", kind, "nl", "nl">>[1] = "nl" /\ <<"nl", kind, "nl", "nl">>[2] = kind
        /\ <<"nl", kind, "nl", "nl">>[3] = "nl" /\ <<"nl", kind, "nl", "nl">>[4] = "nl"
    OBVIOUS
  <2> QED
    BY <2>1, <2>2, <2>3, Zenon
<1>3. PICK b \in Seq(Words) : b = item.value
  BY <1>1
<1>4. PICK c \in Seq(Words) : c = <<"nl", "bnd">> /\ Len(c) = 2 /\ c[1] = "nl" /\ c[2] = "bnd"
  BY SignsTyped DEF Texts
<1>5. PICK size \in Nat : size = Len(b)
  BY LenProperties
<1>6. \A i \in 1 .. size : b[i] # "bnd"
  <2>1. DOMAIN b = 1 .. size
    BY <1>5, LenProperties
  <2>2. ToSet(b) = { b[i] : i \in 1 .. size }
    BY <2>1 DEF ToSet
  <2> QED
    BY <1>3, <2>2
<1>7. PICK ab \in Seq(Words) : ab = a \o b
  BY ConcatProperties
<1>8. PICK abc \in Seq(Words) : abc = ab \o c
  BY ConcatProperties
<1>9. /\ Len(ab) = 4 + size
      /\ \A i \in 1 .. 4 + size : ab[i] = IF i <= 4 THEN a[i] ELSE b[i - 4]
  BY <1>2, <1>5, <1>7, ConcatProperties
<1>10. /\ Len(abc) = 4 + size + 2
       /\ \A i \in 1 .. 4 + size + 2 : abc[i] = IF i <= 4 + size THEN ab[i] ELSE c[i - (4 + size)]
  BY <1>4, <1>8, <1>9, ConcatProperties
<1>11. PartText(item) = abc
  BY <1>2, <1>3, <1>4, <1>7, <1>8 DEF PartText
<1>12. abc[1] = "nl"
  <2>1. 1 \in 1 .. 4 + size + 2 /\ 1 <= 4 + size /\ 1 \in 1 .. 4 + size /\ 1 <= 4
    OBVIOUS
  <2> QED
    BY <1>2, <1>9, <1>10, <2>1
<1>13. abc[4 + size + 2] = "bnd"
  <2>1. /\ 4 + size + 2 \in 1 .. 4 + size + 2 /\ ~(4 + size + 2 <= 4 + size)
        /\ (4 + size + 2) - (4 + size) = 2
    OBVIOUS
  <2> QED
    BY <1>4, <1>10, <2>1
<1>14. ASSUME NEW i \in 1 .. 4 + size + 2 - 1 PROVE abc[i] # "bnd"
  <2>1. i \in 1 .. 4 + size + 2
    OBVIOUS
  <2>2. abc[i] = IF i <= 4 + size THEN ab[i] ELSE c[i - (4 + size)]
    BY <1>10, <2>1
  <2>3. CASE i <= 4
    <3>1. i \in 1 .. 4 + size /\ i <= 4 + size /\ (i = 1 \/ i = 2 \/ i = 3 \/ i = 4)
      BY <2>3
    <3>2. abc[i] = a[i]
      BY <1>9, <2>2, <2>3, <3>1
    <3>3. a[i] # "bnd"
      BY <1>2, <3>1
    <3> QED
      BY <3>2, <3>3
  <2>4. CASE i > 4 /\ i <= 4 + size
    <3>1. i \in 1 .. 4 + size /\ ~(i <= 4) /\ i - 4 \in 1 .. size
      BY <2>4
    <3>2. abc[i] = b[i - 4]
      BY <1>9, <2>2, <2>4, <3>1
    <3> QED
      BY <1>6, <3>1, <3>2
  <2>5. CASE i > 4 + size
    <3>1. i - (4 + size) = 1 /\ ~(i <= 4 + size)
      BY <2>5
    <3> QED
      BY <1>4, <2>2, <3>1
  <2> QED
    BY <2>3, <2>4, <2>5
<1>15. 4 + size + 2 >= 6
  OBVIOUS
<1> QED
  BY <1>10, <1>11, <1>12, <1>13, <1>14, <1>15

LEMMA FencedLonger ==
  ASSUME NEW text, Fenced(text), NEW part \in Seq(Words), Len(part) >= 6,
         part[1] = "nl", part[Len(part)] = "bnd",
         \A i \in 1 .. Len(part) - 1 : part[i] # "bnd"
  PROVE  Fenced(text \o part)
<1>1. text \in Seq(Words)
  BY DEF Fenced
<1>2. PICK m \in Nat : m = Len(text) /\ m >= 1
  BY <1>1, LenProperties DEF Fenced
<1>3. PICK n \in Nat : n = Len(part) /\ n >= 6
  BY LenProperties
<1>4. PICK all \in Seq(Words) : all = text \o part
  BY <1>1, ConcatProperties
<1>5. /\ Len(all) = m + n
      /\ \A i \in 1 .. m + n : all[i] = IF i <= m THEN text[i] ELSE part[i - m]
  BY <1>1, <1>2, <1>3, <1>4, ConcatProperties
<1>6. text[m] = "bnd" /\ \A i \in 1 .. m - 1 : text[i] = "bnd" => text[i + 1] = "nl"
  BY <1>2 DEF Fenced
<1>7. all[m + n] = "bnd"
  <2>1. m + n \in 1 .. m + n /\ ~(m + n <= m) /\ (m + n) - m = n
    BY <1>3
  <2> QED
    BY <1>3, <1>5, <2>1
<1>8. ASSUME NEW i \in 1 .. m + n - 1, all[i] = "bnd" PROVE all[i + 1] = "nl"
  <2>1. i \in 1 .. m + n /\ i + 1 \in 1 .. m + n /\ i \in Nat
    OBVIOUS
  <2>2. CASE i < m
    <3>1. i <= m /\ i + 1 <= m /\ i \in 1 .. m - 1
      BY <2>2
    <3> QED
      BY <1>5, <1>6, <1>8, <2>1, <3>1
  <2>3. CASE i = m
    <3>1. ~(i + 1 <= m) /\ (i + 1) - m = 1
      BY <2>3
    <3> QED
      BY <1>5, <2>1, <3>1
  <2>4. CASE i > m
    <3>1. ~(i <= m) /\ i - m \in 1 .. n - 1
      BY <2>4
    <3>2. all[i] = part[i - m]
      BY <1>5, <2>1, <3>1
    <3> QED
      BY <1>3, <1>8, <3>1, <3>2
  <2> QED
    BY <2>1, <2>2, <2>3, <2>4
<1>9. m + n >= 1
  BY <1>2
<1>10. Fenced(all)
  BY <1>5, <1>7, <1>8, <1>9 DEF Fenced
<1> QED
  BY <1>4, <1>10

\* The parts of a body that is well framed.
LEMMA PartsFenced ==
  ASSUME NEW q \in Requests, q.variant = "multipart", WellFramed(q)
  PROVE  \E text : Fenced(text) /\ BodyText(q) = text \o <<"fin", "nl">>
<1> DEFINE g == [i \in DOMAIN q.items |-> PartText(q.items[i])]
<1>1. PICK n \in Nat : n = Len(q.items) /\ DOMAIN q.items = 1 .. n
  BY LenProperties DEF Requests
<1>2. \A i \in 1 .. n : q.items[i] \in Items
  BY <1>1, ElementOfSeq DEF Requests
<1>3. \A i \in 1 .. n : q.items[i].kind # "bnd" /\ "bnd" \notin ToSet(q.items[i].value)
  BY <1>1 DEF WellFramed
<1>4. \A i \in 1 .. n : /\ g[i] \in Seq(Words) /\ Len(g[i]) >= 6
                        /\ g[i][1] = "nl" /\ g[i][Len(g[i])] = "bnd"
                        /\ \A j \in 1 .. Len(g[i]) - 1 : g[i][j] # "bnd"
  <2> TAKE i \in 1 .. n
  <2>1. g[i] = PartText(q.items[i])
    BY <1>1
  <2> HIDE DEF g
  <2> QED
    BY <1>2, <1>3, <2>1, PartFenced
<1>5. g = [i \in 1 .. n |-> g[i]] /\ g = [i \in 1 .. n |-> PartText(q.items[i])]
  BY <1>1
<1> HIDE DEF g
<1> DEFINE parts(k) == Joined(g, k)
           Sound(k) == parts(k) \in Seq(Words) /\ Fenced(<<"bnd">> \o parts(k))
<1>6. <<"bnd">> \in Seq(Words) /\ <<"bnd">>[1] = "bnd" /\ Len(<<"bnd">>) = 1
  BY SignsTyped DEF Texts
<1>7. Sound(0)
  <2>1. [i \in 1 .. 0 |-> g[i]] = <<>>
    OBVIOUS
  <2>2. parts(0) = <<>>
    BY <2>1 DEF Joined, FlattenSeq
  <2>3. <<"bnd">> \o <<>> = <<"bnd">> /\ <<>> \in Seq(Words)
    BY <1>6, ConcatEmptySeq, EmptySeq
  <2>4. Fenced(<<"bnd">>)
    BY <1>6 DEF Fenced
  <2> HIDE DEF parts
  <2> QED
    BY <2>2, <2>3, <2>4
<1>8. ASSUME NEW k \in Nat, k + 1 <= n, Sound(k) PROVE Sound(k + 1)
  <2>1. k + 1 \in 1 .. n
    BY <1>8
  <2>2. PICK part \in Seq(Words) :
          /\ part = g[k + 1] /\ Len(part) >= 6 /\ part[1] = "nl" /\ part[Len(part)] = "bnd"
          /\ \A j \in 1 .. Len(part) - 1 : part[j] # "bnd"
    BY <1>4, <2>1
  <2>3. parts(k + 1) = parts(k) \o part
    <3>1. \A i \in 1 .. n : g[i] \in Seq(Words)
      BY <1>4
    <3> QED
      BY <1>8, <2>2, <3>1, OneMoreList
  <2> HIDE DEF parts
  <2>4. PICK before \in Seq(Words) : before = parts(k) /\ Fenced(<<"bnd">> \o before)
    BY <1>8
  <2>5. before \o part \in Seq(Words)
    BY ConcatProperties
  <2>6. Fenced((<<"bnd">> \o before) \o part)
    BY <2>2, <2>4, FencedLonger
  <2>7. <<"bnd">> \o (before \o part) = (<<"bnd">> \o before) \o part
    BY <1>6, ConcatAssociative
  <2>8. parts(k + 1) = before \o part
    BY <2>3, <2>4
  <2> QED
    BY <2>5, <2>6, <2>7, <2>8
<1> HIDE DEF Sound
<1>9. Sound(n)
  <2> DEFINE T == { k \in Nat : k <= n => Sound(k) }
  <2>1. T = Nat
    <3>1. T \subseteq Nat /\ 0 \in T
      BY <1>7
    <3>2. ASSUME NEW k \in T PROVE k + 1 \in T
      <4>1. k \in Nat /\ k + 1 \in Nat /\ (k + 1 <= n => k <= n)
        OBVIOUS
      <4> QED
        BY <1>8, <4>1
    <3> HIDE DEF T
    <3> QED
      BY <3>1, <3>2, NatSetInduction
  <2>2. n \in T
    BY <2>1
  <2> QED
    BY <2>2
<1>10. PICK all : all = parts(n) /\ all \in Seq(Words) /\ Fenced(<<"bnd">> \o all)
  BY <1>9 DEF Sound
<1>11. BodyText(q) = <<"bnd">> \o all \o <<"fin", "nl">> \o <<>>
  <2>1. q.epilogue = <<>>
    BY DEF WellFramed
  <2>2. all = FlattenSeq(g)
    BY <1>5, <1>10 DEF Joined
  <2>3. g = [i \in DOMAIN q.items |-> PartText(q.items[i])]
    BY <1>1, <1>5
  <2> QED
    BY <2>1, <2>2, <2>3 DEF BodyText
<1>12. <<"bnd">> \o all \o <<"fin", "nl">> \o <<>> = (<<"bnd">> \o all) \o <<"fin", "nl">>
  <2>1. PICK a \in Seq(Words) : a = (<<"bnd">> \o all) \o <<"fin", "nl">>
    BY <1>6, <1>10, SignsTyped, ConcatProperties DEF Texts
  <2>2. a \o <<>> = a
    BY ConcatEmptySeq
  <2> QED
    BY <2>1, <2>2
<1> QED
  BY <1>10, <1>11, <1>12

\* Behind a boundary there is a line end, or the end of the body.
Bounded(text) ==
  \A i \in 1 .. Len(text) : text[i] = "bnd" =>
    /\ i < Len(text) /\ text[i + 1] \in {"nl", "fin"}
    /\ text[i + 1] = "fin" => i + 2 = Len(text)

LEMMA BodyBounded ==
  ASSUME NEW q \in Requests, q.variant = "multipart", WellFramed(q)
  PROVE  Bounded(BodyText(q))
<1>1. PICK text : Fenced(text) /\ BodyText(q) = text \o <<"fin", "nl">>
  BY PartsFenced
<1>2. PICK n \in Nat : n = Len(text) /\ n >= 1 /\ text \in Seq(Words)
  BY <1>1, LenProperties DEF Fenced
<1>3. PICK end \in Seq(Words) : /\ end = <<"fin", "nl">> /\ Len(end) = 2
                                /\ end[1] = "fin" /\ end[2] = "nl"
  BY SignsTyped DEF Texts
<1>4. PICK all \in Seq(Words) : all = text \o end
  BY <1>2, ConcatProperties
<1>5. /\ Len(all) = n + 2
      /\ \A i \in 1 .. n + 2 : all[i] = IF i <= n THEN text[i] ELSE end[i - n]
  BY <1>2, <1>3, <1>4, ConcatProperties
<1>6. text[n] = "bnd" /\ \A i \in 1 .. n - 1 : text[i] = "bnd" => text[i + 1] = "nl"
  BY <1>1, <1>2 DEF Fenced
<1>7. all[n + 1] = "fin" /\ all[n + 2] = "nl"
  <2>1. /\ n + 1 \in 1 .. n + 2 /\ n + 2 \in 1 .. n + 2 /\ ~(n + 1 <= n) /\ ~(n + 2 <= n)
        /\ (n + 1) - n = 1 /\ (n + 2) - n = 2
    OBVIOUS
  <2> QED
    BY <1>3, <1>5, <2>1
<1>8. ASSUME NEW i \in 1 .. n + 2, all[i] = "bnd"
      PROVE  /\ i < n + 2 /\ all[i + 1] \in {"nl", "fin"}
             /\ all[i + 1] = "fin" => i + 2 = n + 2
  <2>1. CASE i < n
    <3>1. i <= n /\ i + 1 <= n /\ i + 1 \in 1 .. n + 2 /\ i \in 1 .. n - 1 /\ i < n + 2
      BY <2>1
    <3>2. all[i + 1] = "nl"
      BY <1>5, <1>6, <1>8, <3>1
    <3> QED
      BY <3>1, <3>2
  <2>2. CASE i = n
    BY <1>7, <2>2
  <2>3. i = n + 1 \/ i = n + 2 \/ i <= n
    OBVIOUS
  <2>4. i # n + 1 /\ i # n + 2
    BY <1>7, <1>8
  <2> QED
    BY <2>1, <2>2, <2>3, <2>4
<1>9. Bounded(all)
  BY <1>5, <1>8 DEF Bounded
<1> QED
  BY <1>1, <1>3, <1>4, <1>9

-----------------------------------------------------------------------------
(* Pieces of a stream                                                       *)

\* What a stream has behind one place and up to another.
Piece(buf, stream, from, to) ==
  /\ from <= to /\ Len(buf) = to - from
  /\ \A i \in 1 .. to - from : buf[i] = stream[from + i]

LEMMA PieceJoined ==
  ASSUME NEW S, NEW a \in Seq(S), NEW b \in Seq(S), NEW stream,
         NEW from \in Nat, NEW mid \in Nat, NEW to \in Nat,
         Piece(a, stream, from, mid), Piece(b, stream, mid, to)
  PROVE  Piece(a \o b, stream, from, to)
<1>1. /\ from <= mid /\ Len(a) = mid - from /\ mid <= to /\ Len(b) = to - mid
      /\ \A i \in 1 .. mid - from : a[i] = stream[from + i]
      /\ \A i \in 1 .. to - mid : b[i] = stream[mid + i]
  BY DEF Piece
<1>2. PICK ab \in Seq(S) : ab = a \o b
  BY ConcatProperties
<1>3. /\ Len(ab) = (mid - from) + (to - mid)
      /\ \A i \in 1 .. (mid - from) + (to - mid) :
           ab[i] = IF i <= mid - from THEN a[i] ELSE b[i - (mid - from)]
  <2>1. /\ Len(a \o b) = Len(a) + Len(b)
        /\ \A i \in 1 .. Len(a) + Len(b) : (a \o b)[i] = IF i <= Len(a) THEN a[i] ELSE b[i - Len(a)]
    BY ConcatProperties
  <2> QED
    BY <1>1, <1>2, <2>1
<1>4. (mid - from) + (to - mid) = to - from /\ from <= to
  BY <1>1
<1>5. ASSUME NEW i \in 1 .. to - from PROVE ab[i] = stream[from + i]
  <2>1. ab[i] = IF i <= mid - from THEN a[i] ELSE b[i - (mid - from)]
    BY <1>3, <1>4
  <2>2. CASE i <= mid - from
    <3>1. i \in 1 .. mid - from
      BY <2>2
    <3> QED
      BY <1>1, <2>1, <2>2, <3>1
  <2>3. CASE ~(i <= mid - from)
    <3>1. i - (mid - from) \in 1 .. to - mid /\ mid + (i - (mid - from)) = from + i
      BY <1>1, <2>3
    <3> QED
      BY <1>1, <2>1, <2>3, <3>1
  <2> QED
    BY <2>2, <2>3
<1> QED
  BY <1>2, <1>3, <1>4, <1>5 DEF Piece

LEMMA PieceCut ==
  ASSUME NEW S, NEW buf \in Seq(S), NEW stream, NEW from \in Nat, NEW to \in Nat,
         Piece(buf, stream, from, to), NEW k \in Nat, from + k <= to
  PROVE  /\ Piece(SubSeq(buf, 1, k), stream, from, from + k)
         /\ Piece(From(buf, k + 1), stream, from + k, to)
<1>1. /\ from <= to /\ Len(buf) = to - from
      /\ \A i \in 1 .. to - from : buf[i] = stream[from + i]
  BY DEF Piece
<1>2. k \in 0 .. Len(buf) /\ k + 1 \in Nat \ {0}
  BY <1>1
<1>3. /\ Len(SubSeq(buf, 1, k)) = k
      /\ \A i \in 1 .. k : SubSeq(buf, 1, k)[i] = buf[i]
  BY <1>2, FirstTyped
<1>4. Piece(SubSeq(buf, 1, k), stream, from, from + k)
  <2>1. from <= from + k /\ (from + k) - from = k /\ \A i \in 1 .. k : i \in 1 .. to - from
    BY <1>1
  <2> QED
    BY <1>1, <1>3, <2>1 DEF Piece
<1>5. /\ Len(From(buf, k + 1)) = IF k + 1 <= Len(buf) THEN Len(buf) - (k + 1) + 1 ELSE 0
      /\ \A i \in 1 .. Len(buf) - (k + 1) + 1 : From(buf, k + 1)[i] = buf[(k + 1) + i - 1]
  BY <1>2, FromTyped
<1>6. Piece(From(buf, k + 1), stream, from + k, to)
  <2>1. /\ (IF k + 1 <= Len(buf) THEN Len(buf) - (k + 1) + 1 ELSE 0) = to - (from + k)
        /\ Len(buf) - (k + 1) + 1 = to - (from + k)
    BY <1>1, <1>2
  <2>2. ASSUME NEW i \in 1 .. to - (from + k)
        PROVE  From(buf, k + 1)[i] = stream[(from + k) + i]
    <3>1. /\ (k + 1) + i - 1 = k + i /\ k + i \in 1 .. to - from
          /\ from + (k + i) = (from + k) + i
      BY <1>1
    <3>2. From(buf, k + 1)[i] = buf[k + i]
      BY <1>5, <2>1, <3>1
    <3>3. buf[k + i] = stream[from + (k + i)]
      BY <1>1, <3>1
    <3> QED
      BY <3>1, <3>2, <3>3
  <2> QED
    BY <1>5, <2>1, <2>2 DEF Piece
<1> QED
  BY <1>4, <1>6

\* A text that was received as C strings: nothing is missing but what follows a zero byte.
Follows(text, i, j) == j > i /\ (j = i + 1 \/ text[i + 1] = "zero")
DrawnBy(g, buf, text, top) ==
  /\ \A i \in 1 .. Len(buf) : g[i] \in Nat /\ g[i] >= 1 /\ g[i] <= top /\ buf[i].t = text[g[i]]
  /\ \A i \in 1 .. Len(buf) - 1 : Follows(text, g[i], g[i + 1])
  /\ Len(buf) >= 1 => g[Len(buf)] = top \/ text[g[Len(buf)] + 1] = "zero"
Drawn(buf, text, top) == \E g : DrawnBy(g, buf, text, top)

LEMMA PieceDrawn ==
  ASSUME NEW stream, NEW at \in Nat, NEW text, NEW k \in Nat, NEW size \in Nat, k <= size,
         \A i \in 1 .. size : stream[at + i].t = text[i],
         NEW buf, Piece(buf, stream, at, at + k)
  PROVE  Drawn(buf, text, k)
<1>1. (at + k) - at = k
  OBVIOUS
<1>2. Len(buf) = k /\ \A i \in 1 .. k : buf[i] = stream[at + i]
  BY <1>1 DEF Piece
<1>3. \A i \in 1 .. k : i \in 1 .. size /\ i \in Nat /\ i >= 1 /\ i <= k
  OBVIOUS
<1>4. \A i \in 1 .. k : buf[i].t = text[i]
  BY <1>2, <1>3
<1>5. PICK g : \A i \in 1 .. k : g[i] = i
  <2>1. \A i \in 1 .. k : [j \in 1 .. k |-> j][i] = i
    OBVIOUS
  <2> QED
    BY <2>1
<1>6. \A i \in 1 .. k - 1 : i \in 1 .. k /\ i + 1 \in 1 .. k /\ i + 1 > i
  OBVIOUS
<1>7. k >= 1 => k \in 1 .. k
  OBVIOUS
<1>8. DrawnBy(g, buf, text, k)
  BY <1>2, <1>3, <1>4, <1>5, <1>6, <1>7 DEF DrawnBy, Follows
<1> QED
  BY <1>8 DEF Drawn

EndOf(kept, buf, len, left) ==
  Len(kept) = left /\ \A i \in 1 .. left : kept[i] = buf[len - left + i]

LEMMA DrawnSuffix ==
  ASSUME NEW buf, NEW len \in Nat, len = Len(buf), NEW text, NEW top \in Nat, Drawn(buf, text, top),
         NEW kept, NEW left \in Nat, left <= len, EndOf(kept, buf, len, left)
  PROVE  Drawn(kept, text, top)
<1>0. Len(kept) = left /\ \A i \in 1 .. left : kept[i] = buf[len - left + i]
  BY DEF EndOf
<1>1. PICK g : DrawnBy(g, buf, text, top)
  BY DEF Drawn
<1>2. /\ \A i \in 1 .. len : g[i] \in Nat /\ g[i] >= 1 /\ g[i] <= top /\ buf[i].t = text[g[i]]
      /\ \A i \in 1 .. len - 1 : Follows(text, g[i], g[i + 1])
      /\ len >= 1 => g[len] = top \/ text[g[len] + 1] = "zero"
  BY <1>1 DEF DrawnBy
<1>3. PICK h : \A i \in 1 .. left : h[i] = g[len - left + i]
  <2>1. \A i \in 1 .. left : [j \in 1 .. left |-> g[len - left + j]][i] = g[len - left + i]
    OBVIOUS
  <2> QED
    BY <2>1
<1>4. \A i \in 1 .. left : /\ h[i] \in Nat /\ h[i] >= 1 /\ h[i] <= top
                           /\ kept[i].t = text[h[i]]
  <2> TAKE i \in 1 .. left
  <2>1. len - left + i \in 1 .. len
    OBVIOUS
  <2> QED
    BY <1>0, <1>2, <1>3, <2>1
<1>5. \A i \in 1 .. left - 1 : Follows(text, h[i], h[i + 1])
  <2> TAKE i \in 1 .. left - 1
  <2>1. /\ len - left + i \in 1 .. len - 1 /\ i \in 1 .. left /\ i + 1 \in 1 .. left
        /\ (len - left + i) + 1 = len - left + (i + 1)
    OBVIOUS
  <2>2. Follows(text, g[len - left + i], g[(len - left + i) + 1])
    BY <1>2, <2>1
  <2>3. h[i] = g[len - left + i] /\ h[i + 1] = g[(len - left + i) + 1]
    BY <1>3, <2>1
  <2> QED
    BY <2>2, <2>3
<1>6. left >= 1 => h[left] = top \/ text[h[left] + 1] = "zero"
  <2>1. left >= 1 => left \in 1 .. left /\ len - left + left = len /\ len >= 1
    OBVIOUS
  <2> QED
    BY <1>2, <1>3, <2>1
<1>7. DrawnBy(h, kept, text, top)
  BY <1>0, <1>4, <1>5, <1>6 DEF DrawnBy
<1> QED
  BY <1>7 DEF Drawn

\* One chunk more.
LEMMA DrawnChunk ==
  ASSUME NEW S, NEW a \in Seq(S), NEW b \in Seq(S), NEW text, NEW top \in Nat, Drawn(a, text, top),
         NEW n \in Nat, n >= 1, Len(b) <= n,
         \A i \in 1 .. Len(b) : b[i].t = text[top + i],
         Len(b) < n => text[top + Len(b) + 1] = "zero"
  PROVE  Drawn(a \o b, text, top + n)
<1>1. PICK g : DrawnBy(g, a, text, top)
  BY DEF Drawn
<1>2. PICK p \in Nat : p = Len(a)
  BY LenProperties
<1>3. PICK q \in Nat : q = Len(b) /\ q <= n
  BY LenProperties
<1>4. /\ \A i \in 1 .. p : g[i] \in Nat /\ g[i] >= 1 /\ g[i] <= top /\ a[i].t = text[g[i]]
      /\ \A i \in 1 .. p - 1 : Follows(text, g[i], g[i + 1])
      /\ p >= 1 => g[p] = top \/ text[g[p] + 1] = "zero"
  BY <1>1, <1>2 DEF DrawnBy
<1>5. PICK ab : ab = a \o b
  OBVIOUS
<1>6. /\ Len(ab) = p + q
      /\ \A i \in 1 .. p + q : ab[i] = IF i <= p THEN a[i] ELSE b[i - p]
  <2>1. /\ Len(a \o b) = Len(a) + Len(b)
        /\ \A i \in 1 .. Len(a) + Len(b) : (a \o b)[i] = IF i <= Len(a) THEN a[i] ELSE b[i - Len(a)]
    BY ConcatProperties
  <2> QED
    BY <1>2, <1>3, <1>5, <2>1
<1>7. PICK h : \A i \in 1 .. p + q : h[i] = IF i <= p THEN g[i] ELSE top + (i - p)
  <2>1. \A i \in 1 .. p + q : [j \in 1 .. p + q |-> IF j <= p THEN g[j] ELSE top + (j - p)][i]
                                = IF i <= p THEN g[i] ELSE top + (i - p)
    OBVIOUS
  <2> QED
    BY <2>1
<1>8. /\ \A i \in 1 .. q : b[i].t = text[top + i]
      /\ q < n => text[top + q + 1] = "zero"
  BY <1>3
<1>9. ASSUME NEW i \in 1 .. p + q
      PROVE  h[i] \in Nat /\ h[i] >= 1 /\ h[i] <= top + n /\ ab[i].t = text[h[i]]
  <2>1. CASE i <= p
    <3>1. i \in 1 .. p
      BY <2>1
    <3>2. h[i] = g[i] /\ ab[i] = a[i]
      BY <1>6, <1>7, <2>1
    <3>3. g[i] \in Nat /\ g[i] >= 1 /\ g[i] <= top /\ a[i].t = text[g[i]]
      BY <1>4, <3>1
    <3>4. g[i] <= top + n
      BY <3>3
    <3> QED
      BY <3>2, <3>3, <3>4
  <2>2. CASE ~(i <= p)
    <3>1. i - p \in 1 .. q /\ top + (i - p) \in Nat /\ top + (i - p) >= 1 /\ top + (i - p) <= top + n
      BY <1>3, <2>2
    <3>2. h[i] = top + (i - p) /\ ab[i] = b[i - p]
      BY <1>6, <1>7, <2>2
    <3>3. b[i - p].t = text[top + (i - p)]
      BY <1>8, <3>1
    <3> QED
      BY <3>1, <3>2, <3>3
  <2> QED
    BY <2>1, <2>2
<1>10. ASSUME NEW i \in 1 .. p + q - 1 PROVE Follows(text, h[i], h[i + 1])
  <2>1. i \in 1 .. p + q /\ i + 1 \in 1 .. p + q
    OBVIOUS
  <2>2. CASE i < p
    <3>1. i \in 1 .. p - 1 /\ i <= p /\ i + 1 <= p
      BY <2>2
    <3> QED
      BY <1>4, <1>7, <2>1, <3>1
  <2>3. CASE i = p
    <3>1. i <= p /\ ~(i + 1 <= p) /\ (i + 1) - p = 1 /\ p >= 1 /\ p \in 1 .. p
      BY <2>3
    <3>2. h[i] = g[p] /\ h[i + 1] = top + 1
      BY <1>7, <2>1, <2>3, <3>1
    <3>3. g[p] \in Nat /\ g[p] <= top /\ (g[p] = top \/ text[g[p] + 1] = "zero")
      BY <1>4, <3>1
    <3> QED
      BY <3>2, <3>3 DEF Follows
  <2>4. CASE i > p
    <3>1. /\ ~(i <= p) /\ ~(i + 1 <= p) /\ top + ((i + 1) - p) = (top + (i - p)) + 1
          /\ top + ((i + 1) - p) > top + (i - p)
      BY <2>4
    <3>2. h[i] = top + (i - p) /\ h[i + 1] = top + ((i + 1) - p)
      BY <1>7, <2>1, <3>1
    <3> QED
      BY <3>1, <3>2 DEF Follows
  <2> QED
    BY <2>2, <2>3, <2>4
<1>11. ASSUME p + q >= 1 PROVE h[p + q] = top + n \/ text[h[p + q] + 1] = "zero"
  <2>1. p + q \in 1 .. p + q
    BY <1>11
  <2>2. CASE q = 0
    <3>1. p + q = p /\ p <= p /\ p >= 1 /\ p \in 1 .. p /\ q < n /\ top + q + 1 = top + 1
      BY <1>11, <2>2
    <3>2. h[p] = g[p] /\ text[top + 1] = "zero"
      BY <1>7, <1>8, <2>1, <3>1
    <3>3. g[p] = top \/ text[g[p] + 1] = "zero"
      BY <1>4, <3>1
    <3> QED
      BY <3>1, <3>2, <3>3
  <2>3. CASE q # 0
    <3>1. ~(p + q <= p) /\ top + ((p + q) - p) = top + q
      BY <2>3
    <3>2. h[p + q] = top + q
      BY <1>7, <2>1, <3>1
    <3>3. q = n \/ q < n
      BY <1>3
    <3> QED
      BY <1>8, <3>2, <3>3
  <2> QED
    BY <2>2, <2>3
<1>12. DrawnBy(h, ab, text, top + n)
  BY <1>6, <1>9, <1>10, <1>11 DEF DrawnBy
<1> QED
  BY <1>5, <1>12 DEF Drawn

\* What was received up to the end of a body has no end of a body before its end.
LEMMA DrawnEnd ==
  ASSUME NEW buf, NEW len \in Nat, len = Len(buf), NEW text, NEW top \in Nat, top = Len(text),
         Drawn(buf, text, top), Bounded(text), NEW left, LeftBehindEnd(buf, left)
  PROVE  left = 0
<1> SUFFICES ASSUME NEW i \in 1 .. len - 3, At(buf, DataEnd, i), left = len - i - 3, left # 0
             PROVE  FALSE
  BY DEF LeftBehindEnd
<1>1. PICK g : DrawnBy(g, buf, text, top)
  BY DEF Drawn
<1>2. /\ \A j \in 1 .. len : g[j] \in Nat /\ g[j] >= 1 /\ g[j] <= top /\ buf[j].t = text[g[j]]
      /\ \A j \in 1 .. len - 1 : Follows(text, g[j], g[j + 1])
  BY <1>1 DEF DrawnBy
<1>3. /\ i + 1 \in 1 .. len - 1 /\ i + 2 \in 1 .. len - 1 /\ i + 3 \in 1 .. len - 1
      /\ i + 1 \in 1 .. len /\ i + 2 \in 1 .. len /\ i + 3 \in 1 .. len /\ i + 4 \in 1 .. len
      /\ (i + 1) + 1 = i + 2 /\ (i + 2) + 1 = i + 3 /\ (i + 3) + 1 = i + 4
  OBVIOUS
<1>4. buf[i + 1].t = "bnd" /\ buf[i + 2].t = "fin"
  <2>1. /\ DOMAIN DataEnd = 1 .. 4 /\ DataEnd[2] = "bnd" /\ DataEnd[3] = "fin"
        /\ 2 \in 1 .. 4 /\ 3 \in 1 .. 4 /\ i + 2 - 1 = i + 1 /\ i + 3 - 1 = i + 2
    BY DEF DataEnd
  <2> QED
    BY <2>1 DEF At
<1>5. PICK x \in Nat : x = g[i + 1] /\ x >= 1 /\ x <= top /\ text[x] = "bnd"
  BY <1>2, <1>3, <1>4
<1>6. x \in 1 .. Len(text)
  BY <1>5
<1>7. text[x + 1] \in {"nl", "fin"} /\ (text[x + 1] = "fin" => x + 2 = top)
  BY <1>5, <1>6 DEF Bounded
<1>8. Follows(text, x, g[i + 2]) /\ text[g[i + 2]] = "fin"
  BY <1>2, <1>3, <1>4, <1>5
<1>9. g[i + 2] = x + 1
  BY <1>7, <1>8 DEF Follows
<1>10. x + 2 = top
  BY <1>7, <1>8, <1>9
<1>11. PICK y \in Nat : y = g[i + 3] /\ y > x + 1
  BY <1>2, <1>3, <1>9 DEF Follows
<1>12. PICK z \in Nat : z = g[i + 4] /\ z > y /\ z <= top
  BY <1>2, <1>3, <1>11 DEF Follows
<1> QED
  BY <1>10, <1>11, <1>12

-----------------------------------------------------------------------------
(* The order of the requests                                                *)

\* Between the body of a request and the empty line of the next one, str_buf has all that was
\* received behind the requests that were handled.
Between == {"accepted", "process", "headers", "params", "answer", "sending", "parts"}
AtRest  == pc \in Between \/ (pc = "again" /\ req.params = "reuse")
Rested ==
  LET n == Len(handled)
  IN  AtRest /\ Framed(n) => Piece(strBuf, StreamOf[script], Start(script, n), taken)

\* Behind the empty line the request is the next one.
Headed ==
  LET n == Len(handled)
  IN  pc \in {"settings", "data", "body", "application"} /\ Framed(n) =>
        /\ req.head = n + 1 /\ ~req.garbled
        /\ pc \in {"settings", "data"} =>
             Piece(strBuf, StreamOf[script], Start(script, n) + 3, taken)

\* While a body is received nothing else is, and str_buf goes on behind its end.
Bodied ==
  LET n == Len(handled)
      text == BodyText(script[n + 1])
  IN  pc \in {"body", "application"} /\ Framed(n + 1) =>
        IF pc = "body"
        THEN /\ Len(strBuf) = 0 /\ taken = Start(script, n) + 3 + dr.recv /\ dr.full = Len(text)
             /\ script[n + 1].variant = "multipart" => Drawn(dataBuf, text, dr.recv)
        ELSE Piece(strBuf, StreamOf[script], Start(script, n + 1), taken)

OrderInv == HandledInOrder /\ Rested /\ Headed /\ Bodied

LEMMA FramedBefore ==
  ASSUME NEW n \in Nat, Framed(n + 1), script \in Scripts
  PROVE  Framed(n) /\ WellFramed(script[n + 1]) /\ n + 1 <= Len(script) /\ script[n + 1] \in Requests
<1>1. PICK len \in Nat : len = Len(script) /\ DOMAIN script = 1 .. len
  BY ConnectionAssumption, LenProperties
<1>2. n + 1 <= len /\ \A j \in 1 .. n + 1 : WellFramed(script[j])
  BY <1>1 DEF Framed
<1>3. n <= len /\ n + 1 \in 1 .. n + 1 /\ (\A j \in 1 .. n : j \in 1 .. n + 1) /\ n + 1 \in 1 .. len
  BY <1>2
<1>4. script[n + 1] \in Requests
  BY <1>1, <1>3, MessageTyped
<1> QED
  BY <1>1, <1>2, <1>3, <1>4 DEF Framed

LEMMA FramedInside ==
  ASSUME NEW n \in Nat, Framed(n), script \in Scripts
  PROVE  /\ n <= Len(script) /\ Start(script, n) \in Nat
         /\ Start(script, n) <= Len(StreamOf[script])
         /\ n + 1 <= Len(script) \/ Start(script, n) = Len(StreamOf[script])
<1>1. PICK len \in Nat : len = Len(script)
  BY NoneAndAll
<1>2. n <= len
  BY <1>1 DEF Framed
<1>3. Start(script, n) \in Nat /\ Start(script, n) <= Len(StreamOf[script])
  BY <1>1, <1>2, FirstIsPrefix
<1>4. n + 1 <= len \/ n = len
  BY <1>2
<1>5. n = len => Start(script, n) = Len(StreamOf[script])
  BY <1>1, NoneAndAll DEF Start
<1> QED
  BY <1>1, <1>2, <1>3, <1>4, <1>5

LEMMA CountTyped ==
  ASSUME ConnInv
  PROVE  Len(handled) \in Nat /\ DOMAIN handled = 1 .. Len(handled)
  BY LenProperties DEF ConnInv, Shapes

LEMMA OrderInit == Init => OrderInv
<1> SUFFICES ASSUME Init PROVE OrderInv
  OBVIOUS
<1>1. /\ handled = <<>> /\ Len(handled) = 0 /\ DOMAIN handled = {} /\ strBuf = <<>>
      /\ Len(strBuf) = 0 /\ taken = 0 /\ pc = "accepted" /\ script \in Scripts
  BY DEF Init
<1>2. Start(script, 0) = 0
  BY <1>1, NoneAndAll DEF Start
<1>3. Piece(strBuf, StreamOf[script], 0, 0)
  BY <1>1 DEF Piece
<1> QED
  BY <1>1, <1>2, <1>3 DEF OrderInv, HandledInOrder, Rested, Headed, Bodied

\* Steps that read nothing and run nothing.
LEMMA OrderQuiet ==
  ASSUME OrderInv, UNCHANGED <<script, taken, strBuf, handled>>,
         pc' \notin {"settings", "data", "body", "application"}, AtRest' => AtRest
  PROVE  OrderInv'
<1>1. HandledInOrder'
  BY DEF OrderInv, HandledInOrder, Framed
<1>2. Rested'
  BY DEF OrderInv, Rested, Framed
<1>3. Headed' /\ Bodied'
  BY DEF Headed, Bodied
<1> QED
  BY <1>1, <1>2, <1>3 DEF OrderInv

LEMMA SegmentPiece ==
  ASSUME Texted, NEW k \in Nat, NEW n \in 1 .. Least(Available, k)
  PROVE  Piece(Segment(n), StreamOf[script], taken, taken + n)
<1>1. /\ script \in Scripts /\ taken \in Nat /\ Len(StreamOf[script]) \in Nat
      /\ StreamOf[script] \in Seq(SentBy(script))
  BY StreamTyped DEF Texted
<1>2. /\ Len(Segment(n)) = n /\ n \in Nat /\ n >= 1 /\ taken + n <= Len(StreamOf[script])
  BY <1>1, SegmentTyped
<1> DEFINE from == taken + 1
           to == taken + n
<1>3. from \in Int /\ to \in Int /\ to - from + 1 = n
  BY <1>1, <1>2
<1>4. \A i \in from .. to : StreamOf[script][i] \in SentBy(script)
  <2>1. \A i \in from .. to : i \in 1 .. Len(StreamOf[script])
    BY <1>1, <1>2
  <2> QED
    BY <1>1, <2>1, ElementOfSeq
<1>5. Segment(n) = SubSeq(StreamOf[script], from, to)
  BY DEF Segment
<1> HIDE DEF from, to
<1>6. \A i \in 1 .. to - from + 1 : SubSeq(StreamOf[script], from, to)[i] = StreamOf[script][from + i - 1]
  BY <1>3, <1>4, SubSeqProperties
<1>7. ASSUME NEW i \in 1 .. n PROVE Segment(n)[i] = StreamOf[script][taken + i]
  <2>1. from + i - 1 = taken + i
    BY <1>1 DEF from
  <2> QED
    BY <1>3, <1>5, <1>6, <2>1
<1>8. taken <= taken + n /\ (taken + n) - taken = n
  BY <1>1, <1>2
<1> QED
  BY <1>2, <1>7, <1>8 DEF Piece

LEMMA OrderGetRequest ==
  ASSUME ConnInv, RecvInv, OrderInv, GetRequest \/ GetRequestTimeout \/ GetRequestClosed
  PROVE  OrderInv'
<1>1. CASE GetRequestTimeout \/ GetRequestClosed
  <2>1. /\ UNCHANGED <<script, taken, strBuf, handled>> /\ pc = "process"
        /\ pc' \in {"headers", "again"}
    BY <1>1 DEF GetRequestTimeout, GetRequestClosed, client
  <2>2. AtRest
    BY <2>1 DEF AtRest, Between
  <2> QED
    BY <2>1, <2>2, OrderQuiet
<1>2. CASE GetRequest
  <2>1. PICK n \in 1 .. Least(Available, BufSize) :
          strBuf' = strBuf \o Segment(n) /\ taken' = taken + n
    BY <1>2 DEF GetRequest
  <2>2. /\ UNCHANGED <<script, handled>> /\ pc = "process" /\ pc' = "headers"
    BY <1>2 DEF GetRequest
  <2>3. Texted /\ BufSize \in Nat
    BY ConnectionAssumption DEF RecvInv
  <2>4. /\ Segment(n) \in Seq(SentBy(script)) /\ strBuf \in Seq(SentBy(script))
        /\ taken \in Nat /\ taken + n \in Nat
    <3>1. /\ Segment(n) \in Seq(SentBy(script)) /\ strBuf \in Seq(SentBy(script)) /\ n \in Nat
          /\ taken \in 0 .. Len(StreamOf[script]) /\ script \in Scripts
      BY <2>3, SegmentTyped DEF Texted
    <3>2. Len(StreamOf[script]) \in Nat
      BY <3>1, StreamTyped
    <3> QED
      BY <3>1, <3>2
  <2>5. Piece(Segment(n), StreamOf[script], taken, taken + n)
    BY <2>3, SegmentPiece
  <2>6. PICK k \in Nat : k = Len(handled)
    BY CountTyped
  <2>7. Framed(k) => Piece(strBuf, StreamOf[script], Start(script, k), taken)
    BY <2>2, <2>6 DEF OrderInv, Rested, AtRest, Between
  <2>8. Framed(k) => Piece(strBuf \o Segment(n), StreamOf[script], Start(script, k), taken + n)
    <3> HAVE Framed(k)
    <3>1. Start(script, k) \in Nat
      BY <2>3, FramedInside DEF Texted
    <3> QED
      BY <2>4, <2>5, <2>7, <3>1, PieceJoined
  <2>9. Rested'
    BY <2>1, <2>2, <2>6, <2>8 DEF Rested, Framed
  <2>10. HandledInOrder'
    BY <2>2 DEF OrderInv, HandledInOrder, Framed
  <2>11. Headed' /\ Bodied'
    BY <2>2 DEF Headed, Bodied
  <2> QED
    BY <2>9, <2>10, <2>11 DEF OrderInv
<1> QED
  BY <1>1, <1>2

\* The head of the next request is found in front of everything else.
LEMMA NextHead ==
  ASSUME NEW s \in Scripts, NEW n \in Nat, NEW top \in Nat, top <= Len(StreamOf[s]),
         n + 1 <= Len(s) \/ Start(s, n) = Len(StreamOf[s]), Start(s, n) \in Nat,
         NEW buf \in Seq(SentBy(s)), Piece(buf, StreamOf[s], Start(s, n), top),
         NEW end, end = Find(buf, EmptyLine, 1), end # NotFound
  PROVE  /\ end = 2 /\ buf[1].t = "head" /\ buf[1].r = n + 1
         /\ Piece(From(buf, 4), StreamOf[s], Start(s, n) + 3, top)
<1>1. PICK at \in Nat : at = Start(s, n)
  OBVIOUS
<1>2. PICK stream : stream = StreamOf[s]
  OBVIOUS
<1>3. PICK len \in Nat : len = Len(buf)
  BY LenProperties
<1>4. at <= top /\ len = top - at /\ \A i \in 1 .. top - at : buf[i] = stream[at + i]
  BY <1>1, <1>2, <1>3 DEF Piece
<1>5. /\ end \in 1 .. len - 1 /\ buf[end].t = "nl" /\ buf[end + 1].t = "nl"
      /\ \A i \in 1 .. end - 1 : ~(buf[i].t = "nl" /\ buf[i + 1].t = "nl")
  <2>1. 1 \in Nat \ {0}
    OBVIOUS
  <2> QED
    BY <1>3, <2>1, FindEmptyLine
<1>6. n + 1 <= Len(s)
  <2> SUFFICES ASSUME at = Len(stream) PROVE FALSE
    BY <1>1, <1>2
  <2>1. top = at
    BY <1>2, <1>4
  <2> QED
    BY <1>3, <1>4, <1>5, <2>1
<1>7. /\ stream[at + 1].t = "head" /\ stream[at + 1].r = n + 1
      /\ stream[at + 2].t = "nl" /\ stream[at + 3].t = "nl"
  BY <1>1, <1>2, <1>6, RequestAt
<1>8. buf[1].t = "head" /\ buf[1].r = n + 1
  <2>1. 1 \in 1 .. top - at
    BY <1>4, <1>5
  <2> QED
    BY <1>4, <1>7, <2>1
<1>9. end # 1 /\ end >= 2 /\ len >= 3
  BY <1>3, <1>5, <1>8
<1>10. buf[2].t = "nl" /\ buf[3].t = "nl"
  <2>1. 2 \in 1 .. top - at /\ 3 \in 1 .. top - at
    BY <1>4, <1>9
  <2> QED
    BY <1>4, <1>7, <2>1
<1>11. end = 2
  <2> SUFFICES ASSUME end > 2 PROVE FALSE
    BY <1>5, <1>9
  <2>1. 2 \in 1 .. end - 1 /\ 2 + 1 = 3
    BY <1>5
  <2> QED
    BY <1>5, <1>10, <2>1
<1>12. Piece(From(buf, 4), stream, at + 3, top)
  <2>1. at + 3 <= top /\ 3 + 1 = 4 /\ 3 \in Nat
    BY <1>4, <1>9
  <2>2. Piece(buf, stream, at, top)
    BY <1>1, <1>2
  <2>3. Piece(From(buf, 3 + 1), stream, at + 3, top)
    BY <2>1, <2>2, PieceCut
  <2> QED
    BY <2>1, <2>3
<1> QED
  BY <1>1, <1>2, <1>8, <1>11, <1>12

LEMMA OrderHeaders ==
  ASSUME ConnInv, RecvInv, OrderInv, GetRequestHeaders
  PROVE  OrderInv'
<1> DEFINE end   == Find(strBuf, EmptyLine, 1)
           heads == { i \in 1 .. end - 1 : strBuf[i].t = "head" }
<1>1. UNCHANGED <<script, taken, handled>> /\ pc = "headers" /\ req.params = "close"
  BY DEF GetRequestHeaders, client, ConnInv, Announced, Before
<1>2. CASE end = NotFound
  <2>1. UNCHANGED <<strBuf, req>> /\ pc' = "again"
    BY <1>2, Zenon DEF GetRequestHeaders, Refuse
  <2>2. AtRest
    BY <1>1 DEF AtRest, Between
  <2> QED
    BY <1>1, <2>1, <2>2, OrderQuiet
<1>3. CASE end # NotFound
  <2>1. /\ req' = [req EXCEPT !.head = IF heads = {} THEN 0 ELSE strBuf[Min(heads)].r,
                              !.garbled = heads = {} \/ Min(heads) # 1]
        /\ strBuf' = From(strBuf, end + 2) /\ pc' = "settings"
    BY <1>3, Zenon DEF GetRequestHeaders
  <2>2. /\ strBuf \in Seq(SentBy(script)) /\ script \in Scripts /\ taken \in Nat
        /\ taken <= Len(StreamOf[script])
    BY StreamTyped DEF RecvInv, Texted
  <2>3. PICK n \in Nat : n = Len(handled)
    BY CountTyped
  <2>4. ASSUME Framed(n)
        PROVE  /\ req'.head = n + 1 /\ ~req'.garbled
               /\ Piece(strBuf', StreamOf[script], Start(script, n) + 3, taken)
    <3>1. Piece(strBuf, StreamOf[script], Start(script, n), taken)
      BY <1>1, <2>3, <2>4 DEF OrderInv, Rested, AtRest, Between
    <3>2. /\ end = 2 /\ strBuf[1].t = "head" /\ strBuf[1].r = n + 1
          /\ Piece(From(strBuf, 4), StreamOf[script], Start(script, n) + 3, taken)
      BY <1>3, <2>2, <2>4, <3>1, FramedInside, NextHead
    <3>3. heads = {1}
      BY <3>2
    <3>4. Min(heads) = 1
      <4>1. {1} \in SUBSET Nat /\ {1} # {}
        OBVIOUS
      <4>2. Min({1}) \in {1}
        BY <4>1, MinIs
      <4> QED
        BY <3>3, <4>2
    <3>5. strBuf' = From(strBuf, 4)
      BY <2>1, <3>2
    <3>6. heads # {} /\ ~(heads = {} \/ Min(heads) # 1)
      BY <3>3, <3>4
    <3> HIDE DEF heads, end
    <3>7. req'.head = n + 1 /\ req'.garbled = FALSE
      BY <2>1, <3>2, <3>4, <3>6 DEF ConnInv, Shapes
    <3> QED
      BY <3>2, <3>5, <3>7
  <2> HIDE DEF heads, end
  <2>5. Headed'
    BY <1>1, <2>1, <2>3, <2>4 DEF Headed, Framed
  <2>6. HandledInOrder'
    BY <1>1 DEF OrderInv, HandledInOrder, Framed
  <2>7. Rested' /\ Bodied'
    BY <2>1 DEF Rested, AtRest, Between, Bodied
  <2> QED
    BY <2>5, <2>6, <2>7 DEF OrderInv
<1> QED
  BY <1>2, <1>3

LEMMA OrderSettings ==
  ASSUME ConnInv, RecvInv, OrderInv, GetApplicationSettings
  PROVE  OrderInv'
<1>1. /\ UNCHANGED <<script, taken, strBuf, handled, req>> /\ pc = "settings"
      /\ req.params = "close" /\ (pc' = "again" \/ pc' = "data")
  BY DEF GetApplicationSettings, Refuse, client, ConnInv, Announced, Before
<1>2. CASE pc' = "again"
  BY <1>1, <1>2, OrderQuiet DEF AtRest, Between
<1>3. CASE pc' = "data"
  <2>1. Headed'
    BY <1>1, <1>3 DEF OrderInv, Headed, Framed
  <2>2. HandledInOrder'
    BY <1>1 DEF OrderInv, HandledInOrder, Framed
  <2>3. Rested' /\ Bodied'
    BY <1>3 DEF Rested, AtRest, Between, Bodied
  <2> QED
    BY <2>1, <2>2, <2>3 DEF OrderInv
<1> QED
  BY <1>1, <1>2, <1>3

\* The application is called with the next request.
LEMMA OrderRun ==
  ASSUME ConnInv, RecvInv, OrderInv, RunApplication
  PROVE  OrderInv'
<1>1. /\ UNCHANGED <<script, taken, strBuf>> /\ pc = "application" /\ script \in Scripts
      /\ pc' \in {"params", "again"}
  BY DEF RunApplication, client, RecvInv, Texted
<1>2. PICK call : /\ call = [r |-> req.head, garbled |-> req.garbled,
                             fields |-> rd.fields, files |-> rd.files]
                  /\ handled' = Append(handled, call)
  BY DEF RunApplication
<1>3. call.r = req.head /\ call.garbled = req.garbled
  BY <1>2
<1>4. PICK n \in Nat : n = Len(handled) /\ DOMAIN handled = 1 .. n
  BY CountTyped
<1>5. /\ DOMAIN handled' = 1 .. n + 1 /\ Len(handled') = n + 1
      /\ \A i \in 1 .. n : handled'[i] = handled[i]
      /\ handled'[n + 1] = call
  <2>1. PICK S : handled \in Seq(S)
    BY DEF ConnInv, Shapes
  <2>2. handled \in Seq(S \union {call}) /\ call \in S \union {call}
    BY <2>1, SeqMonotonic, Zenon
  <2>3. /\ Append(handled, call) \in Seq(S \union {call})
        /\ Len(Append(handled, call)) = Len(handled) + 1
        /\ \A i \in 1 .. Len(handled) : Append(handled, call)[i] = handled[i]
        /\ Append(handled, call)[Len(handled) + 1] = call
    BY <2>2, AppendProperties
  <2>4. DOMAIN handled' = 1 .. Len(handled')
    BY <1>2, <2>3, LenProperties
  <2> QED
    BY <1>2, <1>4, <2>3, <2>4
<1>6. Framed(n) => req.head = n + 1 /\ ~req.garbled
  BY <1>1, <1>4 DEF OrderInv, Headed
<1>7. HandledInOrder'
  <2> SUFFICES ASSUME NEW i \in 1 .. n + 1, Framed(i - 1)
               PROVE  handled'[i].r = i /\ ~handled'[i].garbled
    BY <1>1, <1>5 DEF HandledInOrder, Framed
  <2>1. CASE i = n + 1
    <3>1. i - 1 = n
      BY <2>1
    <3> QED
      BY <1>3, <1>5, <1>6, <2>1, <3>1
  <2>2. CASE i # n + 1
    <3>1. i \in 1 .. n
      BY <2>2
    <3> QED
      BY <1>4, <1>5, <3>1 DEF OrderInv, HandledInOrder
  <2> QED
    BY <2>1, <2>2
<1>8. Rested'
  <2>1. Framed(n + 1) => Piece(strBuf, StreamOf[script], Start(script, n + 1), taken)
    BY <1>1, <1>4 DEF OrderInv, Bodied
  <2> QED
    BY <1>1, <1>5, <2>1 DEF Rested, Framed
<1>9. Headed' /\ Bodied'
  BY <1>1 DEF Headed, Bodied
<1> QED
  BY <1>7, <1>8, <1>9 DEF OrderInv

\* The steps of the answer, and the beginning and the end of a connection.
LEMMA OrderAnswers ==
  ASSUME ConnInv, OrderInv,
         Plain \/ HandshakeFails \/ Negotiate \/ NegotiateH2
         \/ GetConnectionParams \/ XSendfileNone \/ XSendfileStatus \/ TransferFile
         \/ TransferFilePart \/ SendBlock \/ SendPartBlock \/ Again \/ Close
  PROVE  OrderInv'
<1>1. UNCHANGED <<script, taken, strBuf, handled>>
  BY DEF Plain, HandshakeFails, Negotiate, NegotiateH2, GetConnectionParams, XSendfileNone,
         XSendfileStatus, TransferFile, TransferFilePart, SendBlock, SendPartBlock, Again, Close,
         client
<1>2. CASE Plain \/ HandshakeFails \/ Negotiate \/ NegotiateH2
  <2>1. pc = "accepted" /\ pc' \in {"process", "ended"}
    BY <1>2 DEF Plain, HandshakeFails, Negotiate, NegotiateH2
  <2> QED
    BY <1>1, <2>1, OrderQuiet DEF AtRest, Between
<1>3. CASE GetConnectionParams \/ XSendfileNone \/ XSendfileStatus \/ TransferFile
           \/ TransferFilePart \/ SendBlock \/ SendPartBlock
  <2>1. pc \in {"params", "answer", "sending", "parts"}
    BY <1>3 DEF GetConnectionParams, XSendfileNone, XSendfileStatus, TransferFile,
                TransferFilePart, SendBlock, SendPartBlock
  <2>2. pc' \in {"answer", "sending", "parts", "again"}
    <3>1. CASE GetConnectionParams \/ XSendfileNone \/ XSendfileStatus
      BY <3>1 DEF GetConnectionParams, XSendfileNone, XSendfileStatus, Reply
    <3>2. CASE TransferFile
      BY <3>2 DEF TransferFile, Begin
    <3>3. CASE TransferFilePart
      BY <3>3 DEF TransferFilePart, Begin, Reply
    <3>4. CASE SendBlock
      BY <3>4 DEF SendBlock
    <3>5. CASE SendPartBlock
      BY <2>1, <3>5 DEF SendPartBlock
    <3> QED
      BY <1>3, <3>1, <3>2, <3>3, <3>4, <3>5
  <2> QED
    BY <1>1, <2>1, <2>2, OrderQuiet DEF AtRest, Between
<1>4. CASE Again
  <2>1. /\ pc = "again"
        /\ \/ req.params = "reuse" /\ pc' = "process"
           \/ pc' \in {"ended", "closing"}
    BY <1>4 DEF Again
  <2> QED
    BY <1>1, <2>1, OrderQuiet DEF AtRest, Between
<1>5. CASE Close
  <2>1. pc' = "ended"
    BY <1>5 DEF Close
  <2> QED
    BY <1>1, <2>1, OrderQuiet DEF AtRest, Between
<1> QED
  BY <1>2, <1>3, <1>4, <1>5

\* What parse does to the receiver, and what it leaves over at the end of the body.
LeftWell(q, buf, receiver, got) ==
  /\ got.dr.full = receiver.full /\ got.dr.recv = receiver.recv
  /\ got.ok /\ receiver.full = receiver.recv =>
       IF q.variant = "multipart" THEN LeftBehindEnd(buf, got.dr.left) ELSE got.dr.left = 0

LEMMA ParseLeaves ==
  ASSUME NEW buf \in Seq(Units), NEW data, NEW receiver \in AnyReceivers, NEW canOpen,
         receiver.left = 0, receiver.recv <= receiver.full,
         script[req.head].variant \in {"form", "text", "multipart"},
         IF script[req.head].variant = "multipart" THEN Parsable(buf, data, receiver)
                                                   ELSE NoFiles(data) /\ receiver.ss = NoState,
         NEW got, got = Parse(buf, data, receiver, canOpen)
  PROVE  LeftWell(script[req.head], buf, receiver, got)
<1> DEFINE q == script[req.head]
<1>1. CASE q.variant = "multipart"
  <2>1. got = ParseMultipart(buf, data, receiver, canOpen)
    BY <1>1 DEF Parse
  <2>2. ParsedWell(buf, data, receiver, got)
    BY <1>1, <2>1, MultipartIsParsed
  <2>3. Complete(receiver) <=> receiver.full = receiver.recv
    BY DEF Complete
  <2>4. /\ got.dr.full = receiver.full /\ got.dr.recv = receiver.recv
        /\ got.ok /\ receiver.full = receiver.recv => LeftBehindEnd(buf, got.dr.left)
    BY <2>2, <2>3, Zenon DEF ParsedWell
  <2> QED
    BY <1>1, <2>4 DEF LeftWell
<1>2. CASE q.variant # "multipart"
  <2>1. NoFiles(data) /\ receiver.ss = NoState
    BY <1>2
  <2>2. /\ receiver = [receiver EXCEPT !.left = receiver.left] /\ "left" \in DOMAIN receiver
        /\ receiver.left \in Nat
    BY DEF AnyReceivers
  <2>3. FieldsParsed(receiver, data, got)
    <3>1. got = ParseFormUrlencoded(buf, data, receiver) \/ got = ParseTextPlain(buf, data, receiver)
      BY <1>2 DEF Parse
    <3> QED
      BY <2>1, <2>2, <3>1, FormIsParsed DEF NoFiles
  <2>4. /\ got.dr.recv = receiver.recv /\ got.dr.full = receiver.full
        /\ receiver.full = receiver.recv => got.dr.left = 0
    BY <2>3 DEF FieldsParsed, Complete, AnyReceivers
  <2> QED
    BY <1>2, <2>4 DEF LeftWell
<1> QED
  BY <1>1, <1>2

\* Nothing is left over of a body that is well framed.
LEMMA NothingLeft ==
  ASSUME NEW buf \in Seq(Units), NEW data, NEW receiver \in AnyReceivers, NEW canOpen,
         receiver.left = 0, receiver.recv <= receiver.full,
         script[req.head].variant \in {"form", "text", "multipart"},
         IF script[req.head].variant = "multipart" THEN Parsable(buf, data, receiver)
                                                   ELSE NoFiles(data) /\ receiver.ss = NoState,
         script[req.head] \in Requests, WellFramed(script[req.head]),
         NEW text, text = BodyText(script[req.head]), receiver.full = Len(text),
         script[req.head].variant = "multipart" => Drawn(buf, text, receiver.recv),
         NEW got, got = Parse(buf, data, receiver, canOpen)
  PROVE  got.ok /\ got.dr.full = got.dr.recv => got.dr.left = 0
<1>1. LeftWell(script[req.head], buf, receiver, got)
  BY ParseLeaves
<1>2. ASSUME got.ok, got.dr.full = got.dr.recv, script[req.head].variant = "multipart"
      PROVE  got.dr.left = 0
  <2>1. LeftBehindEnd(buf, got.dr.left) /\ Drawn(buf, text, receiver.recv) /\ receiver.recv = Len(text)
    BY <1>1, <1>2 DEF LeftWell
  <2>2. Bounded(text)
    BY <1>2, BodyBounded
  <2>3. Len(buf) \in Nat /\ receiver.recv \in Nat
    BY LenProperties DEF AnyReceivers
  <2>4. PICK left : left = got.dr.left
    OBVIOUS
  <2>5. PICK top \in Nat : top = receiver.recv
    BY <2>3
  <2>6. LeftBehindEnd(buf, left) /\ Drawn(buf, text, top) /\ top = Len(text)
    BY <2>1, <2>4, <2>5
  <2>7. left = 0
    BY <2>2, <2>3, <2>6, DrawnEnd
  <2> QED
    BY <2>4, <2>7
<1> QED
  BY <1>1, <1>2 DEF LeftWell

\* What follows a call of parse.
LEMMA OrderProceed ==
  ASSUME ConnInv, RecvInv, OrderInv, pc \in {"data", "body"}, UNCHANGED <<script, req, handled>>,
         NEW n \in Nat, n = Len(handled), NEW got, NEW buf, NEW rest, Proceed(got, buf, rest),
         got.ok \in BOOLEAN, got.dr \in AnyReceivers, got.dr.recv <= got.dr.full, taken' \in Nat,
         Framed(n + 1) =>
           /\ got.dr.full = Len(BodyText(script[n + 1]))
           /\ script[n + 1].variant = "multipart" =>
                Drawn(buf, BodyText(script[n + 1]), got.dr.recv)
           /\ got.ok /\ got.dr.full = got.dr.recv => got.dr.left = 0
           /\ Piece(rest, StreamOf[script], Start(script, n) + 3 + got.dr.recv, taken')
           /\ got.dr.recv < got.dr.full => Len(rest) = 0
  PROVE  OrderInv'
<1>0. req.params = "close" /\ script \in Scripts
  BY DEF ConnInv, Announced, Before, RecvInv, Texted
<1>1. got.dr.recv \in Nat /\ got.dr.full \in Nat
  BY DEF AnyReceivers
<1>2. /\ dataBuf' = buf /\ dr' = got.dr /\ pc' \in {"terminated", "again", "body", "application"}
      /\ pc' = "body" => got.dr.recv < got.dr.full /\ strBuf' = rest
      /\ pc' = "application" => /\ got.ok /\ got.dr.full = got.dr.recv
                                /\ got.dr.left = 0 => strBuf' = rest
  BY <1>1 DEF Proceed, Refuse
<1>3. HandledInOrder'
  BY DEF OrderInv, HandledInOrder, Framed
<1>4. Rested'
  BY <1>0, <1>2 DEF Rested, AtRest, Between
<1>5. Headed'
  BY <1>2 DEF OrderInv, Headed, Framed
<1>6. ASSUME Framed(n + 1), pc' = "body"
      PROVE  /\ Len(strBuf') = 0 /\ taken' = Start(script, n) + 3 + dr'.recv
             /\ dr'.full = Len(BodyText(script[n + 1]))
             /\ script[n + 1].variant = "multipart" => Drawn(dataBuf', BodyText(script[n + 1]), dr'.recv)
  <2>1. /\ strBuf' = rest /\ Len(rest) = 0
        /\ Piece(rest, StreamOf[script], Start(script, n) + 3 + got.dr.recv, taken')
    BY <1>2, <1>6
  <2>2. Start(script, n) \in Nat
    BY <1>0, <1>6, FramedBefore, FramedInside
  <2>3. taken' = Start(script, n) + 3 + got.dr.recv
    BY <1>1, <2>1, <2>2 DEF Piece
  <2> QED
    BY <1>2, <1>6, <2>1, <2>3
<1>7. ASSUME Framed(n + 1), pc' = "application"
      PROVE  Piece(strBuf', StreamOf[script], Start(script, n + 1), taken')
  <2>1. /\ got.dr.left = 0 /\ strBuf' = rest /\ got.dr.recv = Len(BodyText(script[n + 1]))
        /\ Piece(rest, StreamOf[script], Start(script, n) + 3 + got.dr.recv, taken')
    BY <1>2, <1>7
  <2>2. Start(script, n + 1) = Start(script, n) + 3 + Len(BodyText(script[n + 1]))
    BY <1>0, <1>7, FramedBefore, RequestAt
  <2> QED
    BY <2>1, <2>2
<1>8. Bodied'
  <2>1. Len(handled') = n /\ (Framed(n + 1)' <=> Framed(n + 1))
    BY DEF Framed
  <2> QED
    BY <1>6, <1>7, <2>1 DEF Bodied
<1> QED
  BY <1>3, <1>4, <1>5, <1>8 DEF OrderInv

\* What str_buf holds of a body behind the head of its request, and what it holds behind that.
CutAt(s, n, text, buf, top, here) ==
  /\ ContentLengthOf(s[n + 1]) = Len(text) /\ here \in Nat
  /\ Drawn(SubSeq(buf, 1, here), text, here)
  /\ Piece(From(buf, here + 1), StreamOf[s], Start(s, n) + 3 + here, top)
  /\ here < Len(text) => Len(From(buf, here + 1)) = 0

LEMMA FirstPiece ==
  ASSUME NEW s \in Scripts, NEW n \in Nat, n + 1 <= Len(s), WellFramed(s[n + 1]),
         NEW text, text = BodyText(s[n + 1]), NEW buf \in Seq(SentBy(s)), NEW top \in Nat,
         Piece(buf, StreamOf[s], Start(s, n) + 3, top),
         NEW here, here = Least(Len(buf), ContentLengthOf(s[n + 1]))
  PROVE  CutAt(s, n, text, buf, top, here)
<1>1. PICK stream : stream = StreamOf[s]
  OBVIOUS
<1>2. PICK at \in Nat : at = Start(s, n) + 3
  <2>1. Start(s, n) \in Nat
    BY RequestAt
  <2> QED
    BY <2>1
<1>3. PICK size \in Nat : size = Len(text) /\ \A i \in 1 .. size : stream[at + i].t = text[i]
  <2>1. /\ Len(text) \in Nat
        /\ \A i \in 1 .. Len(text) : stream[Start(s, n) + 3 + i].t = text[i]
    BY <1>1, RequestAt
  <2> QED
    BY <1>2, <2>1
<1>4. PICK len \in Nat : len = Len(buf)
  BY LenProperties
<1>5. ContentLengthOf(s[n + 1]) = size
  BY <1>3 DEF ContentLengthOf, WellFramed
<1>6. here \in Nat /\ here <= len /\ here <= size /\ (here < size => here = len)
  BY <1>4, <1>5 DEF Least
<1>7. Piece(buf, stream, at, top)
  BY <1>1, <1>2
<1>8. at <= top /\ len = top - at /\ at + here <= top
  <2>1. at <= top /\ Len(buf) = top - at
    BY <1>7 DEF Piece
  <2> QED
    BY <1>4, <1>6, <2>1
<1>9. /\ Piece(SubSeq(buf, 1, here), stream, at, at + here)
      /\ Piece(From(buf, here + 1), stream, at + here, top)
  BY <1>6, <1>7, <1>8, PieceCut
<1>10. Drawn(SubSeq(buf, 1, here), text, here)
  BY <1>3, <1>6, <1>9, PieceDrawn
<1>11. here < size => Len(From(buf, here + 1)) = 0
  <2>1. Len(From(buf, here + 1)) = top - (at + here)
    BY <1>9 DEF Piece
  <2> QED
    BY <1>6, <1>8, <2>1
<1> QED
  BY <1>1, <1>2, <1>3, <1>5, <1>6, <1>9, <1>10, <1>11 DEF CutAt

LEMMA OrderNoBody ==
  ASSUME ConnInv, RecvInv, OrderInv, pc = "data", script[req.head].variant = "none",
         pc' = "application", UNCHANGED <<script, taken, strBuf, req, handled>>
  PROVE  OrderInv'
<1>1. PICK n \in Nat : n = Len(handled)
  BY CountTyped
<1>2. script \in Scripts
  BY DEF RecvInv, Texted
<1>3. HandledInOrder'
  BY DEF OrderInv, HandledInOrder, Framed
<1>4. Rested'
  BY DEF Rested, AtRest, Between
<1>5. Headed'
  BY DEF OrderInv, Headed, Framed
<1>6. ASSUME Framed(n + 1) PROVE Piece(strBuf, StreamOf[script], Start(script, n + 1), taken)
  <2>1. /\ Framed(n) /\ WellFramed(script[n + 1]) /\ n + 1 <= Len(script)
        /\ script[n + 1] \in Requests
    BY <1>2, <1>6, FramedBefore
  <2>2. req.head = n + 1 /\ Piece(strBuf, StreamOf[script], Start(script, n) + 3, taken)
    BY <1>1, <2>1 DEF OrderInv, Headed
  <2>3. Len(BodyText(script[n + 1])) = 0
    BY <2>1, <2>2, NoBody
  <2>4. Start(script, n) \in Nat /\ Start(script, n + 1) = Start(script, n) + 3
    <3>1. /\ Start(script, n) \in Nat
          /\ Start(script, n + 1) = Start(script, n) + 3 + Len(BodyText(script[n + 1]))
      BY <1>2, <2>1, RequestAt
    <3> QED
      BY <2>3, <3>1
  <2> QED
    BY <2>2, <2>4
<1>7. Bodied'
  BY <1>1, <1>6 DEF Bodied, Framed
<1> QED
  BY <1>3, <1>4, <1>5, <1>7 DEF OrderInv

LEMMA OrderData ==
  ASSUME ConnInv, RecvInv, OrderInv, GetRequestData
  PROVE  OrderInv'
<1> DEFINE q        == script[req.head]
           whole    == ContentLengthOf(q)
           here     == Least(Len(strBuf), whole)
           receiver == DataReceiver(whole, here, IF q.variant = "multipart"
                                                 THEN StateMultipart(q.boundary) ELSE NoState)
           first    == SubSeq(strBuf, 1, here)
<1>0. pc = "data" /\ UNCHANGED <<script, taken, variants, req, handled>> /\ req.params = "close"
  BY DEF GetRequestData, link, client, ConnInv, Announced, Before
<1>1. /\ script \in Scripts /\ req.head \in DOMAIN script
      /\ variants \subseteq {"form", "text", "multipart"} /\ strBuf \in Seq(SentBy(script))
      /\ taken \in Nat
  BY <1>0, StreamTyped DEF RecvInv, Texted, Known
<1>2. CASE pc' = "again" /\ UNCHANGED strBuf
  BY <1>0, <1>2, OrderQuiet DEF AtRest, Between
<1>3. CASE q.variant = "none" /\ pc' = "application" /\ UNCHANGED strBuf
  BY <1>0, <1>3, OrderNoBody
<1>4. ASSUME q.variant \in variants, NEW canOpen \in BOOLEAN,
             Proceed(Parse(first, NoData, receiver, canOpen), first, From(strBuf, here + 1))
      PROVE  OrderInv'
  <2>1. Proceed(Parse(first, NoData, receiver, canOpen), first, From(strBuf, here + 1))
    BY <1>4
  <2>2. q \in Requests /\ whole \in Nat
    <3>1. q \in Requests /\ BodyText(q) \in Texts
      BY <1>1, MessageTyped
    <3>2. Len(BodyText(q)) \in Nat /\ q.claim \in Nat
      BY <3>1, LenProperties DEF Texts, Requests
    <3> QED
      BY <3>1, <3>2 DEF ContentLengthOf
  <2>3. PICK k \in Nat : k = here /\ k \in 0 .. whole /\ k \in 0 .. Len(strBuf)
    <3>1. Len(strBuf) \in Nat
      BY <1>1, LenProperties
    <3> QED
      BY <2>2, <3>1 DEF Least
  <2>4. PICK buf \in Seq(SentBy(script)) : buf = first /\ buf = SubSeq(strBuf, 1, k)
    <3>1. SubSeq(strBuf, 1, k) \in Seq(SentBy(script)) /\ first = SubSeq(strBuf, 1, k)
      BY <1>1, <2>3, FirstTyped
    <3> QED
      BY <3>1
  <2>5. PICK rest : rest = From(strBuf, here + 1) /\ rest = From(strBuf, k + 1)
    BY <2>3
  <2>6. buf \in Seq(Units) /\ q.variant \in {"form", "text", "multipart"}
    BY <1>1, <1>4, UnitsSent
  <2>7. PICK r : r = receiver
    OBVIOUS
  <2>8. r.full = whole /\ r.recv = k
    BY <2>3, <2>7 DEF DataReceiver
  <2> HIDE DEF receiver, first, here, whole
  <2>9. /\ r \in AnyReceivers /\ r.left = 0 /\ r.recv <= r.full
        /\ IF q.variant = "multipart" THEN Parsable(buf, NoData, r)
                                      ELSE NoFiles(NoData) /\ r.ss = NoState
    <3>1. here \in 0 .. whole
      BY <2>3
    <3> QED
      BY <2>2, <2>6, <2>7, <3>1, FirstReceiver DEF receiver
  <2>10. PICK got : got = Parse(buf, NoData, r, canOpen)
    OBVIOUS
  <2>11. GotWell(q, buf, NoData.made, Parse(buf, NoData, r, canOpen))
    BY <2>6, <2>9, ParseIsGood
  <2>12. LeftWell(q, buf, r, got)
    BY <2>6, <2>9, <2>10, ParseLeaves
  <2>13. /\ got.ok \in BOOLEAN /\ got.dr \in AnyReceivers /\ got.dr.recv <= got.dr.full
         /\ got.dr.recv = k /\ got.dr.full = whole
    BY <2>8, <2>10, <2>11, <2>12 DEF GotWell, LeftWell
  <2>14. PICK n \in Nat : n = Len(handled)
    BY CountTyped
  <2>15. ASSUME Framed(n + 1)
         PROVE  /\ got.dr.full = Len(BodyText(script[n + 1]))
                /\ script[n + 1].variant = "multipart" =>
                     Drawn(buf, BodyText(script[n + 1]), got.dr.recv)
                /\ got.ok /\ got.dr.full = got.dr.recv => got.dr.left = 0
                /\ Piece(rest, StreamOf[script], Start(script, n) + 3 + got.dr.recv, taken')
                /\ got.dr.recv < got.dr.full => Len(rest) = 0
    <3>1. Framed(n) /\ WellFramed(script[n + 1]) /\ n + 1 <= Len(script)
      BY <1>1, <2>15, FramedBefore
    <3>2. req.head = n + 1 /\ Piece(strBuf, StreamOf[script], Start(script, n) + 3, taken)
      BY <1>0, <2>14, <3>1 DEF OrderInv, Headed
    <3>3. PICK text : text = BodyText(script[n + 1])
      OBVIOUS
    <3>4. k = Least(Len(strBuf), ContentLengthOf(script[n + 1])) /\ whole = ContentLengthOf(script[n + 1])
      BY <2>3, <3>2 DEF here, whole
    <3>8. CutAt(script, n, text, strBuf, taken, k)
      BY <1>1, <3>1, <3>2, <3>3, <3>4, FirstPiece
    <3>5. /\ ContentLengthOf(script[n + 1]) = Len(text)
          /\ Drawn(SubSeq(strBuf, 1, k), text, k)
          /\ Piece(From(strBuf, k + 1), StreamOf[script], Start(script, n) + 3 + k, taken)
          /\ k < Len(text) => Len(From(strBuf, k + 1)) = 0
      BY <3>8 DEF CutAt
    <3>6. Drawn(buf, text, r.recv) /\ r.full = Len(text)
      BY <2>4, <2>8, <3>4, <3>5
    <3>7. got.ok /\ got.dr.full = got.dr.recv => got.dr.left = 0
      BY <2>2, <2>6, <2>9, <2>10, <3>1, <3>2, <3>3, <3>6, NothingLeft
    <3> QED
      BY <1>0, <2>4, <2>5, <2>13, <3>3, <3>4, <3>5, <3>7
  <2>16. Proceed(got, buf, rest)
    BY <2>1, <2>4, <2>5, <2>7, <2>10
  <2>17. pc \in {"data", "body"} /\ UNCHANGED <<script, req, handled>> /\ taken' \in Nat
    BY <1>0, <1>1
  <2> QED
    BY <2>13, <2>14, <2>15, <2>16, <2>17, OrderProceed
<1> QED
  <2>1. \/ q.variant = "none" /\ pc' = "application" /\ UNCHANGED strBuf
        \/ (Refuse(400) \/ Refuse(413)) /\ UNCHANGED strBuf
        \/ /\ q.variant \in variants
           /\ \E canOpen \in BOOLEAN :
                Proceed(Parse(first, NoData, receiver, canOpen), first, From(strBuf, here + 1))
    BY SMTT(60) DEF GetRequestData
  <2>2. Refuse(400) \/ Refuse(413) => pc' = "again"
    BY DEF Refuse
  <2> HIDE DEF receiver, first, here, whole, q
  <2> QED
    BY <1>2, <1>3, <1>4, <2>1, <2>2, Zenon

\* One chunk of a body more, behind what was kept of the chunk before.
LEMMA NextPiece ==
  ASSUME Texted, dr \in AnyReceivers, dr.recv <= dr.full, NEW n \in Nat, n + 1 <= Len(script),
         NEW text, text = BodyText(script[n + 1]), dr.full = Len(text),
         taken = Start(script, n) + 3 + dr.recv, Drawn(dataBuf, text, dr.recv),
         NEW m \in 1 .. Least(Available, dr.full - dr.recv)
  PROVE  Drawn(Kept \o CString(Segment(m)), text, dr.recv + m)
<1>1. /\ script \in Scripts /\ dataBuf \in Seq(SentBy(script)) /\ dr.left \in Nat
      /\ dr.recv \in Nat /\ dr.full \in Nat
  BY DEF Texted, AnyReceivers
<1>2. PICK top \in Nat : top = dr.recv
  BY <1>1
<1>3. PICK at \in Nat : at = Start(script, n) + 3 /\ taken = at + top
  <2>1. Start(script, n) \in Nat
    BY <1>1, RequestAt
  <2> QED
    BY <1>2, <2>1
<1>4. PICK stream : stream = StreamOf[script]
  OBVIOUS
<1>5. PICK size \in Nat : size = Len(text) /\ \A i \in 1 .. size : stream[at + i].t = text[i]
  <2>1. PICK s \in Scripts : s = script
    BY <1>1
  <2>2. /\ Len(BodyText(s[n + 1])) \in Nat
        /\ \A i \in 1 .. Len(BodyText(s[n + 1])) :
             StreamOf[s][Start(s, n) + 3 + i].t = BodyText(s[n + 1])[i]
    BY <2>1, RequestAt
  <2> QED
    BY <1>3, <1>4, <2>1, <2>2
<1>6. dr.full - dr.recv \in Nat
  BY <1>1
<1>7. /\ Segment(m) \in Seq(SentBy(script)) /\ Len(Segment(m)) = m
      /\ m \in Nat /\ m <= dr.full - dr.recv /\ m >= 1
  BY <1>6, SegmentTyped
<1>8. top + m <= size
  BY <1>1, <1>2, <1>5, <1>7
<1>9. Piece(Segment(m), StreamOf[script], taken, taken + m)
  BY <1>6, SegmentPiece
<1>10. PICK seg \in Seq(SentBy(script)) :
         seg = Segment(m) /\ Len(seg) = m /\ \A i \in 1 .. m : seg[i].t = text[top + i]
  <2>1. \A i \in 1 .. (taken + m) - taken : Segment(m)[i] = stream[taken + i]
    BY <1>4, <1>9 DEF Piece
  <2>2. ASSUME NEW i \in 1 .. m PROVE Segment(m)[i].t = text[top + i]
    <3>1. top + i \in 1 .. size
      BY <1>7, <1>8
    <3>2. i \in 1 .. (taken + m) - taken /\ taken + i = at + (top + i)
      <4>1. PICK k \in Nat, here \in Nat : k = m /\ here = taken /\ here = at + top
        BY <1>3, <1>7
      <4>2. (here + k) - here = k /\ i \in 1 .. k /\ here + i = at + (top + i)
        BY <4>1
      <4> QED
        BY <4>1, <4>2
    <3>3. Segment(m)[i] = stream[at + (top + i)]
      BY <2>1, <3>2
    <3> QED
      BY <1>5, <3>1, <3>3
  <2> QED
    BY <1>7, <2>2
<1>11. PICK chunk \in Seq(SentBy(script)) :
         /\ chunk = CString(seg) /\ Len(chunk) \in 0 .. m
         /\ \A i \in 1 .. Len(chunk) : chunk[i] = seg[i]
         /\ Len(chunk) < m => seg[Len(chunk) + 1].t = "zero"
  <2>1. /\ CString(seg) \in Seq(SentBy(script)) /\ Len(CString(seg)) \in 0 .. Len(seg)
        /\ \A i \in 1 .. Len(CString(seg)) : CString(seg)[i] = seg[i]
        /\ Len(CString(seg)) < Len(seg) => seg[Len(CString(seg)) + 1].t = "zero"
    BY CStringTyped
  <2>2. Len(seg) = m
    BY <1>10
  <2> QED
    BY <2>1, <2>2
<1>12. PICK size2 \in Nat : size2 = Len(chunk) /\ size2 <= m
  BY <1>11
<1>13. /\ \A i \in 1 .. Len(chunk) : chunk[i].t = text[top + i]
       /\ Len(chunk) < m => text[top + Len(chunk) + 1] = "zero"
  <2>1. \A i \in 1 .. size2 : i \in 1 .. m
    BY <1>12
  <2>2. \A i \in 1 .. size2 : chunk[i].t = text[top + i]
    BY <1>10, <1>11, <1>12, <2>1
  <2>3. ASSUME size2 < m PROVE text[top + size2 + 1] = "zero"
    <3>1. size2 + 1 \in 1 .. m /\ top + (size2 + 1) = top + size2 + 1
      BY <1>12, <2>3
    <3>2. seg[size2 + 1].t = "zero"
      BY <1>11, <1>12, <2>3
    <3> QED
      BY <1>10, <3>1, <3>2
  <2> QED
    BY <1>12, <2>2, <2>3
<1>14. PICK kept \in Seq(SentBy(script)) : kept = Kept /\ Drawn(kept, text, top)
  <2>1. PICK len \in Nat : len = Len(dataBuf)
    BY <1>1, LenProperties
  <2>2. Kept \in Seq(SentBy(script))
    BY <1>1, KeptTyped
  <2>3. PICK left, kept : /\ left \in Nat /\ kept = Kept /\ left <= len /\ Len(kept) = left
                          /\ \A i \in 1 .. left : kept[i] = dataBuf[len - left + i]
    <3>1. CASE dr.left > len
      <4>1. Kept = <<>> /\ Len(<<>>) = 0 /\ 0 <= len /\ \A i \in 1 .. 0 : FALSE
        BY <2>1, <3>1 DEF Kept
      <4> QED
        BY <4>1
    <3>2. CASE dr.left <= len
      <4>1. /\ Len(Kept) = dr.left
            /\ \A i \in 1 .. dr.left : Kept[i] = dataBuf[Len(dataBuf) - dr.left + i]
        BY <1>1, <2>1, <3>2, KeptTyped
      <4> QED
        BY <1>1, <2>1, <3>2, <4>1
    <3> QED
      BY <1>1, <2>1, <3>1, <3>2
  <2>4. Drawn(dataBuf, text, top)
    BY <1>2
  <2>5. Drawn(kept, text, top)
    <3>1. /\ len \in Nat /\ len = Len(dataBuf) /\ left \in Nat /\ left <= len
          /\ EndOf(kept, dataBuf, len, left)
      BY <2>1, <2>3 DEF EndOf
    <3> QED
      BY <2>4, <3>1, DrawnSuffix
  <2> QED
    BY <2>2, <2>3, <2>5
<1>15. m \in Nat /\ m >= 1 /\ Len(chunk) <= m
  BY <1>7, <1>12
<1>16. Drawn(kept \o chunk, text, top + m)
  BY <1>13, <1>14, <1>15, DrawnChunk
<1> QED
  BY <1>2, <1>10, <1>11, <1>14, <1>16

LEMMA OrderReceive ==
  ASSUME ConnInv, RecvInv, OrderInv, ReceiveData
  PROVE  OrderInv'
<1>0. pc = "body" /\ UNCHANGED <<script, variants, req, handled>>
  BY DEF ReceiveData, link
<1>1. /\ script \in Scripts /\ dr \in AnyReceivers /\ dr.recv \in Nat /\ dr.full \in Nat
      /\ dr.recv <= dr.full /\ dataBuf \in Seq(SentBy(script)) /\ strBuf \in Seq(SentBy(script))
      /\ req.head \in DOMAIN script
  BY <1>0 DEF RecvInv, Texted, Received, AnyReceivers, Known
<1>2. PICK m \in 1 .. Least(Available, dr.full - dr.recv), canOpen \in BOOLEAN :
        LET chunk    == Kept \o CString(Segment(m))
            receiver == [dr EXCEPT !.recv = @ + m, !.left = 0]
        IN  /\ Proceed(Parse(chunk, rd, receiver, canOpen), chunk, strBuf)
            /\ taken' = taken + m
  BY DEF ReceiveData
<1>3. dr.full - dr.recv \in Nat
  BY <1>1
<1>4. /\ Segment(m) \in Seq(SentBy(script)) /\ m \in Nat /\ m <= dr.full - dr.recv
      /\ taken' \in 0 .. Len(StreamOf[script]) /\ taken' = taken + m
  BY <1>2, <1>3, SegmentTyped DEF RecvInv
<1>5. PICK text \in Seq(SentBy(script)) : text = CString(Segment(m))
  BY <1>4, CStringTyped
<1>6. Kept \in Seq(SentBy(script))
  BY <1>1, KeptTyped DEF AnyReceivers
<1>7. PICK chunk \in Seq(SentBy(script)) : chunk = Kept \o text
  BY <1>5, <1>6, ConcatProperties
<1>8. text \in Seq(Units) /\ chunk \in Seq(Units) /\ dr.recv + m <= dr.full
  BY <1>1, <1>4, UnitsSent
<1>9. PICK r : r = [dr EXCEPT !.recv = @ + m, !.left = 0]
  OBVIOUS
<1>10. /\ r \in AnyReceivers /\ r.left = 0 /\ r.recv <= r.full
       /\ script[req.head].variant \in {"form", "text", "multipart"}
       /\ IF script[req.head].variant = "multipart" THEN Parsable(chunk, rd, r)
                                                    ELSE NoFiles(rd) /\ r.ss = NoState
  BY <1>0, <1>4, <1>7, <1>8, <1>9, NextChunk
<1>11. r.recv = dr.recv + m /\ r.full = dr.full
  BY <1>1, <1>9 DEF AnyReceivers
<1>12. PICK got : got = Parse(chunk, rd, r, canOpen)
  OBVIOUS
<1>13. GotWell(script[req.head], chunk, rd.made, got)
  BY <1>8, <1>10, <1>12, ParseIsGood
<1>14. LeftWell(script[req.head], chunk, r, got)
  BY <1>8, <1>10, <1>12, ParseLeaves
<1>15. /\ got.ok \in BOOLEAN /\ got.dr \in AnyReceivers /\ got.dr.recv <= got.dr.full
       /\ got.dr.recv = dr.recv + m /\ got.dr.full = dr.full
  BY <1>11, <1>13, <1>14 DEF GotWell, LeftWell
<1>16. Proceed(got, chunk, strBuf)
  BY <1>2, <1>5, <1>7, <1>9, <1>12
<1>17. PICK n \in Nat : n = Len(handled)
  BY CountTyped
<1>18. ASSUME Framed(n + 1)
       PROVE  /\ got.dr.full = Len(BodyText(script[n + 1]))
              /\ script[n + 1].variant = "multipart" =>
                   Drawn(chunk, BodyText(script[n + 1]), got.dr.recv)
              /\ got.ok /\ got.dr.full = got.dr.recv => got.dr.left = 0
              /\ Piece(strBuf, StreamOf[script], Start(script, n) + 3 + got.dr.recv, taken')
              /\ got.dr.recv < got.dr.full => Len(strBuf) = 0
  <2>1. /\ Framed(n) /\ WellFramed(script[n + 1]) /\ n + 1 <= Len(script)
        /\ script[n + 1] \in Requests
    BY <1>1, <1>18, FramedBefore
  <2>2. req.head = n + 1
    BY <1>0, <1>17, <2>1 DEF OrderInv, Headed
  <2>3. PICK whole : whole = BodyText(script[n + 1])
    OBVIOUS
  <2>4. /\ Len(strBuf) = 0 /\ taken = Start(script, n) + 3 + dr.recv /\ dr.full = Len(whole)
        /\ script[n + 1].variant = "multipart" => Drawn(dataBuf, whole, dr.recv)
    BY <1>0, <1>17, <1>18, <2>3 DEF OrderInv, Bodied
  <2>5. script[n + 1].variant = "multipart" => Drawn(chunk, whole, dr.recv + m)
    <3> HAVE script[n + 1].variant = "multipart"
    <3>1. Drawn(Kept \o CString(Segment(m)), whole, dr.recv + m)
      BY <1>1, <2>1, <2>3, <2>4, NextPiece DEF RecvInv
    <3> QED
      BY <1>5, <1>7, <3>1
  <2>6. Start(script, n) \in Nat
    BY <1>1, <2>1, FramedInside
  <2>7. Piece(strBuf, StreamOf[script], Start(script, n) + 3 + (dr.recv + m), taken')
    <3>1. PICK at \in Nat : at = Start(script, n) + 3 + (dr.recv + m) /\ at = taken'
      BY <1>1, <1>4, <2>4, <2>6
    <3>2. at - at = 0 /\ 1 .. 0 = {}
      OBVIOUS
    <3>3. Piece(strBuf, StreamOf[script], at, at)
      BY <2>4, <3>2 DEF Piece
    <3> QED
      BY <3>1, <3>3
  <2>8. got.ok /\ got.dr.full = got.dr.recv => got.dr.left = 0
    <3>1. script[req.head] \in Requests /\ WellFramed(script[req.head]) /\ whole = BodyText(script[req.head])
      BY <2>1, <2>2, <2>3
    <3>2. r.full = Len(whole) /\ (script[req.head].variant = "multipart" => Drawn(chunk, whole, r.recv))
      BY <1>11, <2>2, <2>4, <2>5
    <3> QED
      BY <1>8, <1>10, <1>12, <3>1, <3>2, NothingLeft
  <2> QED
    BY <1>15, <2>3, <2>4, <2>5, <2>7, <2>8
<1>19. taken' \in Nat
  BY <1>1, <1>4, StreamTyped
<1> QED
  BY <1>0, <1>15, <1>16, <1>17, <1>18, <1>19, OrderProceed

LEMMA OrderFails ==
  ASSUME ConnInv, RecvInv, OrderInv, ReceiveDataFails
  PROVE  OrderInv'
<1>1. PICK got : got = [ok |-> FALSE, dr |-> dr, rd |-> rd, dies |-> FALSE]
                 /\ Proceed(got, dataBuf, strBuf)
  BY DEF ReceiveDataFails
<1>2. ~got.ok /\ ~got.dies
  BY <1>1
<1>3. pc' = "again" /\ strBuf' = strBuf
  BY <1>1, <1>2 DEF Proceed, Refuse
<1>4. pc = "body" /\ UNCHANGED <<script, taken, handled, req>> /\ req.params = "close"
  BY DEF ReceiveDataFails, client, ConnInv, Announced, Before
<1> QED
  BY <1>3, <1>4, OrderQuiet DEF AtRest, Between

LEMMA OrderStep == ConnInv /\ RecvInv /\ OrderInv /\ [Next]_vars => OrderInv'
<1> SUFFICES ASSUME ConnInv, RecvInv, OrderInv, [Next]_vars PROVE OrderInv'
  OBVIOUS
<1>1. CASE Server
  BY <1>1, OrderGetRequest, OrderHeaders, OrderSettings, OrderData, OrderReceive, OrderFails,
     OrderRun, OrderAnswers DEF Server
<1>2. CASE UNCHANGED <<script, taken, strBuf, handled, pc, req, dr, dataBuf>>
  BY <1>2 DEF OrderInv, HandledInOrder, Rested, Headed, Bodied, AtRest, Framed
<1>3. ClientReads \/ FileChanges \/ Stopped \/ UNCHANGED vars
        => UNCHANGED <<script, taken, strBuf, handled, pc, req, dr, dataBuf>>
  BY DEF ClientReads, FileChanges, Stopped, vars, client, body
<1> QED
  BY <1>1, <1>2, <1>3 DEF Next

\* Where the server stands in what the client sent, for every script and every cut: what
\* str_buf and data_buf hold of it, and whose request it is.
THEOREM OrderCorrect == Spec => []OrderInv
  BY ConnCorrect, RecvCorrect, OrderInit, OrderStep, PTL DEF Spec

\* Requests are handed to their applications in the order in which they were sent, each once
\* and with its own first line, as long as those before were well framed, however the bytes
\* are cut into segments.
THEOREM RequestsInOrder == Spec => []HandledInOrder
<1>1. OrderInv => HandledInOrder
  BY DEF OrderInv
<1> QED
  BY <1>1, OrderCorrect, PTL
=============================================================================
