---------------------------- MODULE RequestBody ----------------------------
(***************************************************************************)
(* The parsers of request bodies, src/src/server/data-variant/: each call  *)
(* of parse gets what the last one left over and what was received since.  *)
(*                                                                         *)
(* Text is a sequence of units, each a token t that belongs to the client's*)
(* request r.  The tokens are the strings the parsers look for: "nl" is    *)
(* CR LF, "bnd" is "--" and the boundary, "fin" is "--", "amp", "eq" and   *)
(* "plus" are the signs of forms, "part", "file" and "anon" are the headers*)
(* of a part (with a name, with a name and a filename, without a name),    *)
(* "zero" is the byte 0, and every other token is data.  The data can be   *)
(* cut between any two units, so inside every delimiter.                   *)
(***************************************************************************)
EXTENDS Integers, Sequences, FiniteSets, SequencesExt

NotFound == 0

\* std::string::find of a text from a position on; positions begin at 1.
Find(buf, text, cur) ==
  LET places == { i \in cur .. Len(buf) - Len(text) + 1 :
                    \A k \in DOMAIN text : buf[i + k - 1].t = text[k] }
  IN  IF places = {} THEN NotFound ELSE Min(places)

From(buf, cur) == SubSeq(buf, cur, Len(buf))

\* What is stored of a body: fields, files, and the count of temporary files made.
NoData == [fields |-> <<>>, files |-> <<>>, made |-> 0]
Field(name, value) == [name |-> name, value |-> value]

\* FileIncoming: the part's name, what was written, which temporary file, and whether
\* the stream was still good when its size was asked.
FileIncoming(name, value, tmp, good) ==
  [name |-> name, value |-> value, tmp |-> tmp, good |-> good]

\* DataReceiver, and what parse returns with it.  dies: an exception that nothing catches.
DataReceiver(fullSize, received, ss) ==
  [full |-> fullSize, recv |-> received, left |-> 0, ss |-> ss]
Parsed(ok, dr, rd) == [ok |-> ok, dr |-> dr, rd |-> rd, dies |-> FALSE]
Complete(dr) == dr.full = dr.recv

-----------------------------------------------------------------------------
(* application/x-www-form-urlencoded and text/plain                         *)

\* What stands between the "amp" signs.
Pieces(buf) ==
  LET stops   == { i \in DOMAIN buf : buf[i].t = "amp" } \union { Len(buf) + 1 }
      stop(k) == IF k = 0 THEN 0
                 ELSE CHOOSE i \in stops : Cardinality({ j \in stops : j < i }) = k - 1
  IN  [k \in 1 .. Cardinality(stops) |-> SubSeq(buf, stop(k - 1) + 1, stop(k) - 1)]

PieceField(piece, Decode(_)) ==
  LET delimiter == Find(piece, <<"eq">>, 1)
  IN  IF delimiter = NotFound THEN Field(Decode(piece), <<>>)
      ELSE Field(Decode(SubSeq(piece, 1, delimiter - 1)), Decode(From(piece, delimiter + 1)))

\* The last piece may go on in the next chunk: it is left over until all is received.
ParsePieces(buf, rd, dr, Decode(_)) ==
  LET pieces == Pieces(buf)
      whole  == IF Complete(dr) THEN pieces ELSE Front(pieces)
      fields == [i \in DOMAIN whole |-> PieceField(whole[i], Decode)]
  IN  IF buf = <<>> THEN Parsed(dr.full = 0 \/ ~Complete(dr), dr, rd)
      ELSE Parsed(TRUE,
                  IF Complete(dr) THEN dr ELSE [dr EXCEPT !.left = Len(Last(pieces))],
                  [rd EXCEPT !.fields = @ \o fields])

\* Utils::urlDecode, of which "+" stands for all it changes.
UrlDecode(text) ==
  [i \in DOMAIN text |-> IF text[i].t = "plus" THEN [text[i] EXCEPT !.t = "space"] ELSE text[i]]

ParseFormUrlencoded(buf, rd, dr) == ParsePieces(buf, rd, dr, UrlDecode)
ParseTextPlain(buf, rd, dr) == ParsePieces(buf, rd, dr, LAMBDA text : text)

-----------------------------------------------------------------------------
(* multipart/form-data.  A chunk is parsed from its beginning; m is what the *)
(* loop of parse keeps: its place, the state between chunks, what it has     *)
(* stored, and the value it returns once it is done.                        *)

FirstEnd  == <<"bnd", "fin", "nl">>          \* data_end of INITIALIZATION
DataEnd   == <<"nl", "bnd", "fin", "nl">>    \* data_end of FIND_DATA_BLOCK
Delimiter == <<"nl", "bnd">>                 \* block_delimiter
EmptyLine == <<"nl", "nl">>

\* createStateStruct
StateMultipart(boundary) ==
  [state |-> "INITIALIZATION", boundary |-> boundary, type |-> "UNKNOWN", name |-> <<>>,
   value |-> <<>>, tmp |-> 0, good |-> TRUE]

\* A case without a break: the next one follows, whether or not the chunk is at its end.
Falls(m)              == [m EXCEPT !.falls = TRUE]
Return(m, ok)         == [m EXCEPT !.done = TRUE, !.ok = ok]
ReturnLeft(m, ok, n)  == [m EXCEPT !.done = TRUE, !.ok = ok, !.left = n]
Dies(m)               == [m EXCEPT !.done = TRUE, !.ok = FALSE, !.dies = TRUE]

\* The headers of a part: parseHeader, parseMainHeaderParams.
PartHeader(buf, cur, end) ==
  LET headers == { i \in cur .. end - 1 : buf[i].t \in {"part", "file", "anon"} }
  IN  IF headers = {} THEN [t |-> "anon", r |-> 0] ELSE buf[Min(headers)]

FaultShortIsRefused(buf, dr, m) ==
  IF ~m.ss.boundary \/ Find(buf, <<"bnd">>, 1) # 1 THEN Return(m, FALSE)
  ELSE IF Find(buf, FirstEnd, 1) = 1 THEN Return(m, dr.full = Len(FirstEnd) /\ Complete(dr))
  ELSE [m EXCEPT !.cur = 3, !.ss.state = "GET_DATA_BLOCK_TYPE"]
Initialization(buf, dr, m) ==
  IF ~m.ss.boundary THEN Return(m, FALSE)
  ELSE IF Len(buf) < Len(FirstEnd) THEN ReturnLeft(m, ~Complete(dr), Len(buf))
  ELSE IF Find(buf, FirstEnd, 1) = 1 THEN Return(m, dr.full = Len(FirstEnd) /\ Complete(dr))
  ELSE IF Find(buf, <<"bnd">>, 1) # 1 THEN Return(m, FALSE)
  ELSE [m EXCEPT !.cur = 3, !.ss.state = "GET_DATA_BLOCK_TYPE"]

SaveDataBlock(m) ==
  LET ss == m.ss
  IN  [m EXCEPT !.ss.state = "FIND_DATA_BLOCK", !.ss.value = <<>>,
                !.rd.fields = IF ss.type = "DATA" THEN Append(@, Field(ss.name, ss.value)) ELSE @,
                !.rd.files  = IF ss.type = "FILE"
                              THEN Append(@, FileIncoming(ss.name, ss.value, ss.tmp, ss.good))
                              ELSE @]

\* Without a delimiter all but the last bytes are copied, as many as a delimiter has,
\* for it may have begun in them (line 355).  When the block has fewer bytes the range is
\* reversed: std::string::append throws, ofstream::write makes the file bad.
CopyDataBlock(buf, dr, m) ==
  LET blockEnd == Find(buf, Delimiter, m.cur)
      end      == IF blockEnd = NotFound THEN Len(buf) - Len(Delimiter) + 1 ELSE blockEnd
      good     == m.ss.type = "DATA" \/ (m.ss.good /\ end >= m.cur)
      copied   == [m EXCEPT !.cur = end, !.ss.good = good,
                            !.ss.value = IF good THEN @ \o SubSeq(buf, m.cur, end - 1) ELSE @]
  IN  IF m.ss.type = "DATA" /\ end < m.cur THEN Dies(m)
      ELSE IF blockEnd = NotFound THEN ReturnLeft(copied, ~Complete(dr), Len(Delimiter))
      ELSE Falls([copied EXCEPT !.ss.state = "SAVE_DATA_BLOCK"])

GetDataBlockType(buf, dr, m, canOpen) ==
  LET end    == Find(buf, EmptyLine, m.cur)
      header == PartHeader(buf, m.cur, end)
      found  == [m EXCEPT !.cur = end + 2, !.ss.state = "COPY_DATA_BLOCK", !.ss.name = <<header>>,
                          !.ss.value = <<>>]
  IN  IF end = NotFound THEN ReturnLeft(m, ~Complete(dr), Len(buf) - m.cur + 1)
      ELSE IF header.t = "anon" THEN Return(m, FALSE)
      ELSE IF header.t = "part" THEN Falls([found EXCEPT !.ss.type = "DATA"])
      ELSE IF ~canOpen THEN Return(m, FALSE)
      ELSE Falls([found EXCEPT !.ss.type = "FILE", !.ss.good = TRUE,
                               !.ss.tmp = m.rd.made + 1, !.rd.made = @ + 1])

FindDataBlock(buf, dr, m) ==
  LET left == Len(buf) - m.cur + 1
      next == Find(buf, Delimiter, m.cur)
  IN  IF Len(DataEnd) > left THEN ReturnLeft(m, ~Complete(dr), left)
      ELSE IF Find(buf, DataEnd, m.cur) = m.cur
           THEN ReturnLeft(m, Complete(dr), left - Len(DataEnd))
      ELSE IF next = NotFound THEN ReturnLeft(m, ~Complete(dr), left)
      ELSE Falls([m EXCEPT !.cur = next + Len(Delimiter) + 1, !.ss.state = "GET_DATA_BLOCK_TYPE"])

\* A case of the switch of parse.
Turn(buf, dr, m, canOpen) ==
  CASE m.ss.state = "INITIALIZATION"      -> Initialization(buf, dr, m)
    [] m.ss.state = "FIND_DATA_BLOCK"     -> FindDataBlock(buf, dr, m)
    [] m.ss.state = "GET_DATA_BLOCK_TYPE" -> GetDataBlockType(buf, dr, m, canOpen)
    [] m.ss.state = "COPY_DATA_BLOCK"     -> CopyDataBlock(buf, dr, m)
    [] m.ss.state = "SAVE_DATA_BLOCK"     -> SaveDataBlock(m)

\* What the parsers work on, and what they store.
Signs == {"head", "nl", "bnd", "fin", "amp", "eq", "plus", "space", "part", "file", "anon", "zero"}
Words == Signs \union STRING
Units == [t : Words, r : Nat]
Data  == [fields : Seq([name : Seq(Units), value : Seq(Units)]),
          files  : Seq([name : Seq(Units), value : Seq(Units), tmp : Nat, good : BOOLEAN]),
          made   : Nat]
MultipartStates ==
  [state : {"INITIALIZATION", "FIND_DATA_BLOCK", "GET_DATA_BLOCK_TYPE", "COPY_DATA_BLOCK",
            "SAVE_DATA_BLOCK"},
   boundary : BOOLEAN, type : {"UNKNOWN", "DATA", "FILE"}, name : Seq(Units),
   value : Seq(Units), tmp : Nat, good : BOOLEAN]
Loops == [cur : Nat, ss : MultipartStates, left : Int, rd : Data, falls : BOOLEAN,
          done : BOOLEAN, ok : BOOLEAN, dies : BOOLEAN]

\* The loop is over at a return, or at the end of the chunk unless a case falls through.
Over(buf, m) == m.done \/ (m.cur > Len(buf) /\ ~m.falls)

\* Four cases pass over each block, and none of them moves back: the loop has fewer turns.
Turns(buf) == 4 * Len(buf) + 4

ParseMultipart(buf, rd, dr, canOpen) ==
  LET turn[m \in Loops] ==
        IF Over(buf, m) THEN m ELSE Turn(buf, dr, [m EXCEPT !.falls = FALSE], canOpen)
      loop[n \in 0 .. Turns(buf)] ==
        IF n # 0 THEN turn[loop[n - 1]]
        ELSE [cur |-> 1, ss |-> dr.ss, left |-> dr.left, rd |-> rd, falls |-> FALSE,
              done |-> FALSE, ok |-> ~Complete(dr), dies |-> FALSE]
      m == loop[Turns(buf)]
  IN  [ok |-> m.ok, dr |-> [dr EXCEPT !.left = m.left, !.ss = m.ss], rd |-> m.rd, dies |-> m.dies]
=============================================================================
