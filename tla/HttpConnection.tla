--------------------------- MODULE HttpConnection ---------------------------
(***************************************************************************)
(* A connection from its acceptance to its end: Server::threadRequestCycle *)
(* and threadRequestProc around one socket (src/src/server/Server.cpp),    *)
(* ServerHttp1::process (src/src/server/protocol/ServerHttp1.cpp) with the *)
(* body parsers (RequestBody), the call of the application, and Sendfile   *)
(* with its ranges (FileRanges).  It is what ServerCore takes as the one   *)
(* step WorkerServe.                                                       *)
(*                                                                         *)
(* The client sends the requests of a script one behind the other, cut at  *)
(* any place, as fast or as slow as it likes, and may stop at any point.   *)
(* One thread of the server runs: a step is a function up to the next      *)
(* receive, send or call of the application.                               *)
(***************************************************************************)
EXTENDS RequestBody, FileRanges, FiniteSets

CONSTANTS
  Scripts,     \* the sequences of requests a client may send
  Answers,     \* what an application may return
  KeepAlive,   \* keep_alive_count, 100 in the code
  BufSize,     \* the size of buf, 4096 bytes in the code, in units
  BlockSize,   \* the buffer of the file transfers, 512 KiB in the code
  MaxSize,     \* bound: the size of the files
  RequestMax   \* request_max_size; 0 is no limit

(* A request of a script has the fields                                     *)
(*   found       its Host header names an application and one of its ports  *)
(*   variant     the type of its body: "form", "text", "multipart",         *)
(*               "unknown", or "none" for a request without Content-Type    *)
(*   boundary    its multipart type has a boundary                          *)
(*   items       the fields and files of its body: [kind, name, value]      *)
(*   epilogue    what follows the end of its multipart body                 *)
(*   claim       by how much its Content-Length is too large                *)
(*   connection  its Connection header: "keep-alive", "upgrade" or "none"   *)
(*   head        its method is HEAD                                         *)
(*   since       it has an If-Modified-Since header                         *)
(*   range       its Range header: [there, equals, unit, specs]             *)
(* An answer has the fields code, connection, upgrade and sendfile.         *)

Texts    == Seq(Words)
Items    == [kind : Words, name : Texts, value : Texts]
Ranges   == [there : BOOLEAN, equals : BOOLEAN, unit : STRING, specs : Seq(Specs)]
Requests == [found : BOOLEAN, variant : STRING, boundary : BOOLEAN, items : Seq(Items),
             epilogue : Texts, claim : Nat, connection : STRING, head : BOOLEAN,
             since : BOOLEAN, range : Ranges]

ASSUME ConnectionAssumption ==
  /\ KeepAlive \in Nat \ {0} /\ BufSize \in Nat \ {0} /\ BlockSize \in Nat \ {0}
  /\ MaxSize \in Nat /\ RequestMax \in Nat
  /\ Scripts \subseteq Seq(Requests)

VARIABLES
  script, taken,            \* the client's requests, and how many units have been received
  variants,                 \* the body parsers that are registered: none at this commit, where
                            \* addDataVariant is empty, or those that init hands to it
  secure, socket, session,  \* a TLS port; the socket; the TLS session
  full,                     \* the client does not read and the send buffer is full
  pc,
  strBuf, dataBuf,          \* str_buf of process, data_buf of getRequestData
  req, dr, rd,              \* struct Request, DataReceiver, the data of the request
  file, out,                \* the file that is sent; the answer as the client sees it
  disk,                     \* the temporary files that exist, by request and number
  handled                   \* history: what the applications were called with

client   == <<script, taken>>
link     == <<variants, secure, socket, session>>
body     == <<dataBuf, dr, rd>>
vars     == <<client, link, full, pc, strBuf, body, req, file, out, disk, handled>>

-----------------------------------------------------------------------------
(* The client's bytes                                                       *)

Tokens(texts, r) == [i \in DOMAIN texts |-> [t |-> texts[i], r |-> r]]

PartText(item) == <<"nl", item.kind, "nl", "nl">> \o item.value \o <<"nl", "bnd">>
PairText(item) == item.name \o <<"eq">> \o item.value

BodyText(q) ==
  IF q.variant = "multipart"
  THEN <<"bnd">> \o FlattenSeq([i \in DOMAIN q.items |-> PartText(q.items[i])])
         \o <<"fin", "nl">> \o q.epilogue
  ELSE FlattenSeq([i \in DOMAIN q.items |-> IF i = 1 THEN PairText(q.items[i])
                                            ELSE <<"amp">> \o PairText(q.items[i])])

ContentLengthOf(q) == Len(BodyText(q)) + q.claim

\* Each request is its head, an empty line and its body.
StreamOf == [s \in Scripts |->
               FlattenSeq([r \in DOMAIN s |-> Tokens(<<"head", "nl", "nl">> \o BodyText(s[r]), r)])]
Available  == Len(StreamOf[script]) - taken
Segment(n) == SubSeq(StreamOf[script], taken + 1, taken + n)

Least(a, b) == IF a < b THEN a ELSE b

NoStatus == [status |-> 0, promised |-> 0, sent |-> <<>>, announced |-> "none", max |-> 0]
NoFile   == [size |-> 0, now |-> 0, parts |-> <<>>, left |-> 0, at |-> 0, bad |-> FALSE,
             changed |-> FALSE, cut |-> FALSE]
NoState  == [state |-> "none"]
NoReceiver == DataReceiver(0, 0, NoState)

Init ==
  /\ script \in Scripts /\ taken = 0
  /\ variants \in {{}, {"form", "text", "multipart"}}
  /\ secure \in BOOLEAN /\ socket = "open" /\ session = (IF secure THEN "live" ELSE "none")
  /\ full = FALSE /\ pc = "accepted"
  /\ strBuf = <<>> /\ dataBuf = <<>>
  /\ req = [turn |-> 0, keepAlive |-> KeepAlive, params |-> "close", code |-> "failure",
            variant |-> "HTTP_1", head |-> 0, garbled |-> FALSE, answer |-> <<>>]
  /\ dr = NoReceiver /\ rd = NoData
  /\ file = NoFile /\ out = NoStatus /\ disk = {} /\ handled = <<>>

-----------------------------------------------------------------------------
(* Server::threadRequestCycle and getProtocolVariant                        *)

Plain ==
  /\ pc = "accepted" /\ ~secure /\ pc' = "process"
  /\ UNCHANGED <<client, link, full, strBuf, body, req, file, out, disk, handled>>

FaultHandshakeLeaks ==
  /\ pc = "accepted" /\ secure /\ pc' = "ended"
  /\ UNCHANGED <<client, link, full, strBuf, body, req, file, out, disk, handled>>

\* AdapterTls::handshake closes the socket and frees the session when it fails.
HandshakeFails ==
  /\ pc = "accepted" /\ secure /\ pc' = "ended"
  /\ socket' = "closed" /\ session' = "freed"
  /\ UNCHANGED <<client, variants, secure, full, strBuf, body, req, file, out, disk, handled>>

\* ALPN chose "http/1.1" or nothing.
Negotiate ==
  /\ pc = "accepted" /\ secure /\ pc' = "process"
  /\ UNCHANGED <<client, link, full, strBuf, body, req, file, out, disk, handled>>

\* ALPN chose "h2", which the adapter offers and nothing serves.
NegotiateH2 ==
  /\ pc = "accepted" /\ secure /\ pc' = "ended"
  /\ req' = [req EXCEPT !.variant = "HTTP_2"]
  /\ UNCHANGED <<client, link, full, strBuf, body, file, out, disk, handled>>

-----------------------------------------------------------------------------
(* getRequest: the receive that begins every turn of the loop of process     *)

\* What process and clear reset in struct Request.
FaultParamsStay == [req EXCEPT !.code = "failure", !.head = 0, !.garbled = FALSE]
Turned == [req EXCEPT !.turn = @ + 1, !.params = "close", !.code = "failure",
                      !.head = 0, !.garbled = FALSE]

FaultRestDropped ==
  /\ pc = "process"
  /\ \E n \in 1 .. Least(Available, BufSize) : strBuf' = Segment(n) /\ taken' = taken + n
  /\ req' = Turned /\ out' = NoStatus /\ pc' = "headers"
  /\ UNCHANGED <<script, link, full, body, file, disk, handled>>

GetRequest ==
  /\ pc = "process"
  /\ \E n \in 1 .. Least(Available, BufSize) :
       /\ strBuf' = strBuf \o Segment(n) /\ taken' = taken + n
  /\ req' = Turned /\ out' = NoStatus /\ pc' = "headers"
  /\ UNCHANGED <<script, link, full, body, file, disk, handled>>

\* Five seconds without a byte, or an error: what the last turn left over is looked at.
GetRequestTimeout ==
  /\ pc = "process"
  /\ req' = Turned /\ out' = NoStatus
  /\ pc' = IF strBuf = <<>> THEN "again" ELSE "headers"
  /\ UNCHANGED <<client, link, full, strBuf, body, file, disk, handled>>

\* The client has closed its side: nonblock_recv returns 0.
GetRequestClosed ==
  /\ pc = "process"
  /\ req' = Turned /\ out' = NoStatus /\ pc' = "headers"
  /\ UNCHANGED <<client, link, full, strBuf, body, file, disk, handled>>

\* sendStatus, and the end of useHttp1Protocol; connection_params is CONNECTION_CLOSE.
Refuse(status) == out' = [NoStatus EXCEPT !.status = status] /\ pc' = "again"

\* The request line is the first line, whatever it holds; head is the request whose
\* Host header stands in front of the empty line, 0 when there is none.
GetRequestHeaders ==
  LET end   == Find(strBuf, EmptyLine, 1)
      heads == { i \in 1 .. end - 1 : strBuf[i].t = "head" }
  IN
  /\ pc = "headers"
  /\ IF end = NotFound
     THEN Refuse(400) /\ UNCHANGED <<strBuf, req>>
     ELSE /\ req' = [req EXCEPT !.head = IF heads = {} THEN 0 ELSE strBuf[Min(heads)].r,
                                !.garbled = heads = {} \/ Min(heads) # 1]
          /\ strBuf' = From(strBuf, end + 2)
          /\ pc' = "settings" /\ UNCHANGED out
  /\ UNCHANGED <<client, link, full, body, file, disk, handled>>

\* getApplicationSettings
GetApplicationSettings ==
  /\ pc = "settings"
  /\ IF req.head # 0 /\ script[req.head].found THEN pc' = "data" /\ UNCHANGED out
                                               ELSE Refuse(404)
  /\ UNCHANGED <<client, link, full, strBuf, body, req, file, disk, handled>>

-----------------------------------------------------------------------------
(* getRequestData                                                           *)

Parse(buf, data, receiver, canOpen) ==
  LET variant == script[req.head].variant
  IN  CASE variant = "form"      -> ParseFormUrlencoded(buf, data, receiver)
        [] variant = "text"      -> ParseTextPlain(buf, data, receiver)
        [] variant = "multipart" -> ParseMultipart(buf, data, receiver, canOpen)

TmpFiles(data) == { <<req.turn, n>> : n \in 1 .. data.made }
FaultLastFileStays(data) == { <<req.turn, data.files[i].tmp>> : i \in 1 .. Len(data.files) - 1 }
Incoming(data) == { <<req.turn, data.files[i].tmp>> : i \in DOMAIN data.files }

\* What follows a call of parse: the loop is left, or another chunk is received.  A failure
\* removes the files of the blocks that were saved; what the body left over replaces
\* str_buf, which may hold the beginning of the next request.
Proceed(got, buf, rest) ==
  /\ dataBuf' = buf /\ rd' = got.rd
  /\ dr' = got.dr
  /\ \/ /\ got.dies
        /\ pc' = "terminated" /\ strBuf' = rest
        /\ disk' = disk \union TmpFiles(got.rd) /\ UNCHANGED out
     \/ /\ ~got.dies /\ ~got.ok
        /\ Refuse(400) /\ strBuf' = rest
        /\ disk' = (disk \union TmpFiles(got.rd)) \ Incoming(got.rd)
     \/ /\ got.ok /\ got.dr.full > got.dr.recv
        /\ pc' = "body" /\ strBuf' = rest
        /\ disk' = disk \union TmpFiles(got.rd) /\ UNCHANGED out
     \/ /\ got.ok /\ got.dr.full <= got.dr.recv
        /\ pc' = "application"
        /\ strBuf' = IF got.dr.left # 0 THEN From(buf, Len(buf) - got.dr.left + 1) ELSE rest
        /\ disk' = disk \union TmpFiles(got.rd) /\ UNCHANGED out

\* A request without Content-Type is taken to have no body.
GetRequestData ==
  LET q         == script[req.head]
      whole     == ContentLengthOf(q)
      here      == Least(Len(strBuf), whole)
      receiver  == DataReceiver(whole, here, IF q.variant = "multipart"
                                             THEN StateMultipart(q.boundary) ELSE NoState)
      first     == SubSeq(strBuf, 1, here)
  IN
  /\ pc = "data"
  /\ \/ /\ q.variant = "none"
        /\ pc' = "application" /\ rd' = NoData
        /\ UNCHANGED <<strBuf, dataBuf, dr, out, disk>>
     \/ /\ q.variant \notin variants \union {"none"}
        /\ Refuse(400) /\ UNCHANGED <<strBuf, body, disk>>
     \/ /\ q.variant \in variants
        /\ RequestMax # 0 /\ whole > RequestMax
        /\ Refuse(413) /\ UNCHANGED <<strBuf, body, disk>>
     \/ /\ q.variant \in variants
        /\ RequestMax = 0 \/ whole <= RequestMax
        /\ \E got \in { Parse(text, NoData, r, canOpen) :
                       text \in {first}, r \in {receiver}, canOpen \in BOOLEAN } :
             Proceed(got, first, From(strBuf, here + 1))
  /\ UNCHANGED <<client, link, full, req, file, handled>>

\* The chunk is appended as a C string: up to its first zero byte.
CString(text) ==
  LET zero == Find(text, <<"zero">>, 1)
  IN  IF zero = NotFound THEN text ELSE SubSeq(text, 1, zero - 1)

\* data_buf.erase(0, data_buf.length() - left); the difference wraps when left is larger.
FaultLeftIsDropped == <<>>
Kept == IF dr.left > Len(dataBuf) THEN <<>> ELSE From(dataBuf, Len(dataBuf) - dr.left + 1)

ReceiveData ==
  /\ pc = "body"
  /\ \E n \in 1 .. Least(Available, dr.full - dr.recv) :
       LET chunk    == Kept \o CString(Segment(n))
           receiver == [dr EXCEPT !.recv = @ + n, !.left = 0]
       IN  /\ \E got \in { Parse(chunk, rd, receiver, canOpen) : canOpen \in BOOLEAN } :
                Proceed(got, chunk, strBuf)
           /\ taken' = taken + n
  /\ UNCHANGED <<script, link, full, req, file, handled>>

\* A time-out, an error or the end of the client's data.
ReceiveDataFails ==
  /\ pc = "body"
  /\ Proceed([ok |-> FALSE, dr |-> dr, rd |-> rd, dies |-> FALSE], dataBuf, strBuf)
  /\ UNCHANGED <<client, link, full, req, file, handled>>

-----------------------------------------------------------------------------
(* runApplication, and the removal of the request's files behind it          *)

RunApplication ==
  /\ pc = "application"
  /\ \E answer \in Answers :
       /\ req' = [req EXCEPT !.code = answer.code, !.answer = answer]
       /\ pc' = IF answer.code = "success" THEN "params" ELSE "again"
  /\ handled' = Append(handled, [r |-> req.head, garbled |-> req.garbled,
                                 fields |-> rd.fields, files |-> rd.files])
  /\ disk' = disk \ Incoming(rd)
  /\ UNCHANGED <<client, link, full, strBuf, body, file, out>>

FaultCountStays ==
  /\ pc = "params" /\ pc' = "answer"
  /\ req' = IF script[req.head].connection = req.answer.connection
            THEN [req EXCEPT !.params = "reuse"] ELSE req
  /\ UNCHANGED <<client, link, full, strBuf, body, file, out, disk, handled>>

FaultCountWraps ==
  /\ pc = "params" /\ pc' = "answer"
  /\ req' = IF script[req.head].connection = req.answer.connection
            THEN [req EXCEPT !.params = "reuse", !.keepAlive = @ - 1] ELSE req
  /\ UNCHANGED <<client, link, full, strBuf, body, file, out, disk, handled>>

\* Both sides have to name the same parameter of the connection.
GetConnectionParams ==
  LET answer == req.answer
      agreed == script[req.head].connection = answer.connection
      h2     == answer.upgrade = (IF secure THEN "h2" ELSE "h2c")
  IN
  /\ pc = "params" /\ pc' = "answer"
  /\ req' = IF agreed /\ answer.connection = "keep-alive"
            THEN [req EXCEPT !.keepAlive = @ - 1,
                             !.params = IF req.keepAlive - 1 > 0 THEN "reuse" ELSE @]
            ELSE IF agreed /\ answer.connection = "upgrade" /\ h2
            THEN [req EXCEPT !.variant = "HTTP_2", !.params = "reuse"]
            ELSE IF agreed /\ answer.connection = "upgrade" /\ answer.upgrade = "websocket"
            THEN [req EXCEPT !.params = "leave_open"]
            ELSE req
  /\ UNCHANGED <<client, link, full, strBuf, body, file, out, disk, handled>>

-----------------------------------------------------------------------------
(* Sendfile::xSendfile, transferFile, transferFilePart                       *)

\* The headers of the connection that xSendfile puts in front.
Announce(answer) ==
  IF req.variant # "HTTP_1" THEN answer
  ELSE IF req.params = "reuse"
  THEN [answer EXCEPT !.announced = "keep-alive", !.max = req.keepAlive]
  ELSE [answer EXCEPT !.announced = "close"]

\* A reply of headers only; whether they could be sent makes no difference to what follows.
Reply(status, promised) ==
  /\ out' = Announce([NoStatus EXCEPT !.status = status, !.promised = promised])
  /\ pc' = "again"

\* The application has sent its answer itself.
XSendfileNone ==
  /\ pc = "answer" /\ ~req.answer.sendfile /\ pc' = "again"
  /\ UNCHANGED <<client, link, full, strBuf, body, req, file, out, disk, handled>>

\* The file is not there, was not modified, or cannot be opened.
XSendfileStatus ==
  LET q == script[req.head]
  IN
  /\ pc = "answer" /\ req.answer.sendfile
  /\ \/ Reply(404, 0)
     \/ q.since /\ Reply(304, 0)
     \/ ~q.range.there /\ Reply(500, 0)
     \/ q.range.there /\ ~q.range.equals /\ Reply(400, 0)
  /\ UNCHANGED <<client, link, full, strBuf, body, req, file, disk, handled>>

\* The answer is cut short: the client has gone or reads so slowly that the send buffer is
\* full.  cut is history.
Cut(f) == [f EXCEPT !.cut = TRUE]

Begin(status, promised, f, next) ==
  \/ /\ out' = Announce([NoStatus EXCEPT !.status = status, !.promised = promised])
     /\ file' = f /\ pc' = next
  \/ /\ out' = Announce([NoStatus EXCEPT !.status = status, !.promised = promised])
     /\ file' = Cut(f) /\ pc' = "again"

\* 200: the whole file.
TransferFile ==
  LET q == script[req.head]
  IN
  /\ pc = "answer" /\ req.answer.sendfile /\ ~q.range.there
  /\ \E size \in 0 .. MaxSize :
       Begin(200, IF q.head THEN 0 ELSE size, [NoFile EXCEPT !.size = size, !.now = size],
             IF q.head \/ size = 0 THEN "again" ELSE "sending")
  /\ UNCHANGED <<client, link, full, strBuf, body, req, disk, handled>>

\* 206: the parts that the Range header names; 416 when they are empty; 500.
TransferFilePart ==
  LET q == script[req.head]
  IN
  /\ pc = "answer" /\ req.answer.sendfile /\ q.range.there /\ q.range.equals
  /\ \E size \in 0 .. MaxSize :
       LET parts == getRanges(q.range.unit, q.range.specs, size)
           sum   == ContentLength(parts)
       IN  IF sum = 0 THEN Reply(416, 0) /\ UNCHANGED file
           ELSE \/ Reply(500, 0) /\ UNCHANGED file
                \/ Begin(206, IF q.head THEN 0 ELSE sum,
                         [NoFile EXCEPT !.size = size, !.now = size, !.parts = parts,
                                        !.at = Head(parts).begin, !.left = Head(parts).length],
                         IF q.head THEN "again" ELSE "parts")
  /\ UNCHANGED <<client, link, full, strBuf, body, req, disk, handled>>

AtLeastZero(n) == IF n < 0 THEN 0 ELSE n

\* What file.read of so many bytes gets; at the end of the file it sets eofbit and failbit,
\* and a stream that has failed reads nothing more.
FaultBufferStays(buffer) ==
  IF file.bad THEN 0 ELSE Least(BlockSize, AtLeastZero(file.now - file.at))
ReadSize(buffer) == IF file.bad THEN 0 ELSE Least(buffer, AtLeastZero(file.now - file.at))

\* sendData of so many bytes: all of them are taken, or n and then there is an error, which
\* a send buffer without room is to a plain socket.  A TLS adapter waits for room, and
\* refuses to send nothing.
SendData(size, n, failed) ==
  /\ IF failed THEN n < size \/ (size = 0 /\ secure)
               ELSE n = size /\ (size = 0 => ~secure) /\ (size # 0 => ~full)
  /\ IF full THEN n = 0 /\ UNCHANGED full ELSE full' \in {FALSE, size # 0}
CanSend(size) == size = 0 \/ ~(secure /\ full)

\* A block of the whole file.  The buffer keeps its size, and the loop ends only where the
\* total is exactly the size that was announced, or at the end of the file.
SendBlock ==
  LET buffer == Least(file.size, BlockSize)
      size   == ReadSize(buffer)
  IN
  /\ pc = "sending" /\ CanSend(size)
  /\ \E n \in 0 .. size, failed \in BOOLEAN :
       /\ SendData(size, n, failed)
       /\ out' = [out EXCEPT !.sent = @ \o Positions(file.at, n)]
       /\ file' = [file EXCEPT !.at = @ + size, !.bad = size < buffer, !.cut = @ \/ failed]
       /\ pc' = IF size = buffer /\ ~failed /\ n > 0 /\ file.at + size # file.size
                THEN "sending" ELSE "again"
  /\ UNCHANGED <<client, link, strBuf, body, req, disk, handled>>

\* A block of a part; whatever ends a part, the next one is tried.
SendPartBlock ==
  LET buffer == Least(file.left, BlockSize)
      size   == ReadSize(buffer)
      bad    == file.bad \/ size < buffer
      others == Tail(file.parts)
  IN
  /\ pc = "parts" /\ CanSend(size)
  /\ \E n \in 0 .. size, failed \in BOOLEAN :
       /\ SendData(size, n, failed)
       /\ out' = [out EXCEPT !.sent = @ \o Positions(file.at, n)]
       /\ IF ~bad /\ ~failed /\ n > 0 /\ file.left # n
          THEN /\ file' = [file EXCEPT !.at = @ + n, !.left = @ - n]
               /\ UNCHANGED pc
          ELSE IF others # <<>>
          THEN /\ file' = [file EXCEPT !.parts = others, !.at = Head(others).begin,
                                       !.left = Head(others).length, !.bad = bad,
                                       !.cut = @ \/ failed]
               /\ UNCHANGED pc
          ELSE /\ file' = [file EXCEPT !.parts = <<>>, !.bad = bad, !.cut = @ \/ failed]
               /\ pc' = "again"
  /\ UNCHANGED <<client, link, strBuf, body, req, disk, handled>>

-----------------------------------------------------------------------------
(* The end of a turn of process, and of the connection                       *)

\* Request::clear, isConnectionReuse, isConnectionLeaveOpen.  A connection that is left
\* open belongs to ServerWebSocket, whose process and close do nothing.
Again ==
  /\ pc = "again"
  /\ pc' = CASE req.params = "reuse"      -> "process"
             [] req.params = "leave_open" -> "ended"
             [] OTHER                     -> "closing"
  /\ dataBuf' = <<>> /\ dr' = NoReceiver /\ rd' = NoData
  /\ UNCHANGED <<client, link, full, strBuf, req, file, out, disk, handled>>

\* close of the adapter waits without a time-out until the send buffer has room.
Close ==
  /\ pc = "closing" /\ ~full
  /\ socket' = "closed" /\ session' = (IF secure THEN "freed" ELSE "none")
  /\ pc' = "ended"
  /\ UNCHANGED <<client, variants, secure, full, strBuf, body, req, file, out, disk, handled>>

-----------------------------------------------------------------------------
(* The world outside                                                        *)

\* A client that had stopped reading goes on.
ClientReads ==
  /\ full /\ full' = FALSE
  /\ UNCHANGED <<client, link, pc, strBuf, body, req, file, out, disk, handled>>

\* The file is written to while it is sent (bound: once).
FileChanges ==
  /\ pc \in {"sending", "parts"} /\ ~file.changed
  /\ \E size \in (0 .. MaxSize + 1) \ {file.now} :
       file' = [file EXCEPT !.now = size, !.changed = TRUE]
  /\ UNCHANGED <<client, link, full, pc, strBuf, body, req, out, disk, handled>>

-----------------------------------------------------------------------------
Server ==
  \/ Plain \/ HandshakeFails \/ Negotiate \/ NegotiateH2
  \/ GetRequest \/ GetRequestTimeout \/ GetRequestClosed
  \/ GetRequestHeaders \/ GetApplicationSettings
  \/ GetRequestData \/ ReceiveDataFails \/ ReceiveData
  \/ RunApplication \/ GetConnectionParams
  \/ XSendfileNone \/ XSendfileStatus \/ TransferFile \/ TransferFilePart
  \/ SendBlock \/ SendPartBlock
  \/ Again \/ Close

\* The worker is done with the connection, or the process has ended under it.
Stopped == pc \in {"ended", "terminated"} /\ UNCHANGED vars

Next == Server \/ ClientReads \/ FileChanges \/ Stopped

\* The thread is scheduled, a receive ends after five seconds and an application returns.
\* Nothing is assumed of the client.
Spec == Init /\ [][Next]_vars /\ WF_vars(Server)

-----------------------------------------------------------------------------
(* Properties                                                               *)

Pcs == {"accepted", "process", "headers", "settings", "data", "body", "application", "params",
        "answer", "sending", "parts", "again", "closing", "ended", "terminated"}

\* The type invariant: the arithmetic of lengths never goes below zero, and the keep-alive
\* count, an unsigned number in the code, does not wrap.
TypeOK ==
  /\ pc \in Pcs /\ script \in Scripts /\ taken \in 0 .. Len(StreamOf[script])
  /\ secure \in BOOLEAN /\ socket \in {"open", "closed"} /\ session \in {"none", "live", "freed"}
  /\ full \in BOOLEAN
  /\ req.turn \in Nat /\ req.keepAlive \in 0 .. KeepAlive
  /\ req.params \in {"close", "reuse", "leave_open"} /\ req.variant \in {"HTTP_1", "HTTP_2"}
  /\ dr.left \in Nat /\ dr.recv \in 0 .. dr.full
  /\ file.left \in Nat /\ file.at \in Nat /\ out.promised \in Nat

\* A request whose end in the byte stream the server finds: its body, if it has one, is
\* announced by a Content-Type and by the right length, its boundary stands in none of its
\* parts, and nothing follows its multipart end.
WellFramed(q) ==
  /\ q.variant = "none" => q.items = <<>>
  /\ q.claim = 0 /\ q.epilogue = <<>>
  /\ q.variant = "multipart" =>
       \A i \in DOMAIN q.items : q.items[i].kind # "bnd" /\ "bnd" \notin ToSet(q.items[i].value)

Framed(n) == n <= Len(script) /\ \A j \in 1 .. n : WellFramed(script[j])

\* Requests in a keep-alive connection are handed to their applications in the order in
\* which they were sent, none left out, none twice and with their own first line, as long
\* as the requests before were well framed, however the bytes are cut into segments.
HandledInOrder ==
  \A i \in DOMAIN handled :
    Framed(i - 1) => handled[i].r = i /\ ~handled[i].garbled

\* What an item of a request has to arrive as.
Expected(q, r) ==
  [i \in DOMAIN q.items |->
     LET item == q.items[i]
         text == Tokens(item.value, r)
     IN  IF q.variant = "multipart" THEN Field(Tokens(<<item.kind>>, r), text)
         ELSE IF q.variant = "form"
         THEN Field(UrlDecode(Tokens(item.name, r)), UrlDecode(text))
         ELSE Field(Tokens(item.name, r), text)]

\* A body without a zero byte, behind which a chunk would be lost.
ZeroFree(q) == "zero" \notin ToSet(BodyText(q))

\* What the client escapes in a form: the signs between the fields and behind a name.
Escaped(q) ==
  q.variant # "multipart" =>
    \A i \in DOMAIN q.items : /\ ToSet(q.items[i].name) \intersect {"amp", "eq"} = {}
                             /\ "amp" \notin ToSet(q.items[i].value)

\* The place of a part among those of its kind.
Nth(q, kind, i) == Cardinality({ j \in 1 .. i : q.items[j].kind = kind })

\* The first parts of a body have arrived: its fields as they were sent, its files with their
\* content unless FileIncoming says that the file went bad, and nothing was passed over.
PartsArrived(q, r, k, fields, files) ==
  /\ Len(fields) = Nth(q, "part", k) /\ Len(files) = Nth(q, "file", k)
  /\ \A i \in 1 .. k :
       LET x     == Expected(q, r)[i]
           saved == files[Nth(q, "file", i)]
       IN  \/ q.items[i].kind = "part" /\ fields[Nth(q, "part", i)] = x
           \/ /\ q.items[i].kind = "file" /\ saved.name = x.name
              /\ saved.good => saved.value = x.value

BodyArrived(q, r, fields, files) ==
  IF q.variant = "multipart" THEN PartsArrived(q, r, Len(q.items), fields, files)
                             ELSE fields = Expected(q, r) /\ files = <<>>

\* What the application gets of a body is what the client sent, however the bytes are cut.
\* A body with a zero byte may lose what follows it in its chunk.
BodiesArriveWhole ==
  \A i \in DOMAIN handled :
    Framed(i) /\ ZeroFree(script[i]) /\ Escaped(script[i]) =>
      BodyArrived(script[i], i, handled[i].fields, handled[i].files)

\* A body that was received to its end is not refused because of where it was cut, and a
\* body ends the process only where a chunk stops less than a delimiter behind the header
\* of a field's block.
WholeBodiesAreTaken ==
  LET r == Len(handled) + 1
      q == script[r]
  IN
  /\ (/\ pc = "again" /\ out.status = 400 /\ req.code = "failure"
      /\ dr # NoReceiver /\ Complete(dr) /\ Framed(r) /\ ZeroFree(q))
     => q.variant = "multipart" /\ (~q.boundary \/ \E k \in DOMAIN q.items : q.items[k].kind # "part")
  /\ pc = "terminated" =>
       \E i \in DOMAIN dataBuf :
         LET end == Find(dataBuf, EmptyLine, i)
         IN  /\ dataBuf[i].t = "part" /\ end # NotFound
             /\ Len(dataBuf) < end + Len(EmptyLine) + Len(Delimiter) - 1

\* The temporary files of a request are gone when its application has returned or it was
\* refused, but for one: the file of a block that was being received at the refusal.
FilesAreRemoved ==
  pc \notin {"body", "application", "terminated"} =>
    Cardinality(disk) <= (IF out.status = 400 /\ req.code = "failure" THEN 1 ELSE 0)

\* The client can rely on what an answer says of the connection: after "close" nothing more
\* is read, after "keep-alive" the connection goes on, and with max=n for n requests at
\* most.  A switch to HTTP/2 does not count and is not announced.
KeepAliveIsKept ==
  /\ pc \in {"closing", "ended"} => out.announced # "keep-alive"
  /\ pc = "process" => out.announced # "close"
  /\ req.variant = "HTTP_1" =>
       Len(handled) + (IF out.announced = "keep-alive" THEN out.max ELSE 0) <= KeepAlive

Past(q) == \E k \in DOMAIN q.range.specs : ~EndsInside(q.range.specs[k], file.size)

\* A connection is used again behind an answer with a body of exactly the announced length,
\* so that the client finds the next answer -- unless the answer was cut short, the file
\* was written to meanwhile, or a range reached its end: none of these is looked at.
AnswersAreFramed ==
  (pc = "process" /\ out.status \in {200, 206} /\ Len(out.sent) # out.promised)
  => file.cut \/ file.changed \/ (out.status = 206 /\ Past(script[req.head]))

\* A partial answer is made of the positions the client asked for, in its order, when all
\* ranges end inside the file.
PartsAreThoseAsked ==
  LET q == script[req.head]
  IN  (pc = "again" /\ out.status = 206 /\ ~q.head /\ ~file.cut /\ ~file.changed /\ ~Past(q))
      => out.sent = AskedInOrder(q.range.specs, file.size)

\* When the worker is done with a connection, its socket is closed and its TLS session
\* freed, or an application has it as a WebSocket, or ALPN chose the protocol "h2".
SocketIsReleased ==
  pc = "ended" => \/ socket = "closed" /\ session # "live"
                  \/ req.params = "leave_open"
                  \/ req.turn = 0 /\ req.variant = "HTTP_2"

\* The worker comes back from every connection, unless the client reads no more and keeps
\* the connection: close and a TLS send wait for it without a time-out.
ConnectionEnds == <>(pc \in {"ended", "terminated"}) \/ <>[]full
=============================================================================
