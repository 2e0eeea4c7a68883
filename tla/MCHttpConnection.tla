-------------------------- MODULE MCHttpConnection --------------------------
(* The scripts and answers of the run, one script for each case of the code. *)
EXTENDS HttpConnection

NoRange     == [there |-> FALSE, equals |-> FALSE, unit |-> "none", specs |-> <<>>]
Bytes(list) == [there |-> TRUE, equals |-> TRUE, unit |-> "bytes", specs |-> list]
Spec2(a, b) == [first |-> a, last |-> b]

Get == [found |-> TRUE, variant |-> "none", boundary |-> FALSE, items |-> <<>>,
        epilogue |-> <<>>, claim |-> 0, connection |-> "keep-alive", head |-> FALSE,
        since |-> FALSE, range |-> NoRange]

Item(kind, name, value) == [kind |-> kind, name |-> name, value |-> value]
Post(variant, items) == [Get EXCEPT !.variant = variant, !.boundary = TRUE, !.items = items]
Small == Post("form", <<Item("field", <<"a">>, <<"b">>)>>)
Upload(list) == Post("multipart", list)
PartA == Item("part", <<>>, <<"a", "b", "c">>)
FileA == Item("file", <<>>, <<"a", "b", "c">>)
Tiny  == Item("file", <<>>, <<"a">>)

MCScripts ==
  { \* keep-alive, pipelined
    <<Small, Small, Small>>, <<Get, Get, Get>>,
    \* bodies
    <<Post("form", <<Item("field", <<"a", "plus">>, <<"plus">>), Item("field", <<"b">>, <<>>)>>), Small>>,
    <<Post("text", <<Item("field", <<"a">>, <<"plus">>), Item("field", <<"b">>, <<"c">>)>>)>>,
    <<Post("text", <<Item("field", <<"a">>, <<"zero", "b">>)>>)>>,
    <<Upload(<<PartA>>)>>, <<Upload(<<FileA>>)>>, <<Upload(<<Item("part", <<>>, <<"a">>), Tiny>>)>>,
    <<Upload(<<Tiny, Tiny>>)>>,
    <<Upload(<<Item("anon", <<>>, <<"a">>)>>)>>, <<Upload(<<>>)>>,
    \* requests whose end the server does not find
    <<[Upload(<<Item("part", <<>>, <<"a">>)>>) EXCEPT !.epilogue = <<"x">>], Small>>,
    <<[Small EXCEPT !.claim = 1], Small>>, <<[Small EXCEPT !.variant = "none"], Small>>,
    \* requests that are refused
    <<[Small EXCEPT !.variant = "unknown"]>>, <<[Upload(<<PartA>>) EXCEPT !.boundary = FALSE]>>,
    <<[Get EXCEPT !.found = FALSE]>>, <<[Small EXCEPT !.claim = 24]>>,
    <<Upload(<<Tiny, Tiny, PartA>>)>>,
    \* connections
    <<[Get EXCEPT !.connection = "upgrade"]>>, <<[Get EXCEPT !.connection = "none"]>>,
    \* files and ranges
    <<[Get EXCEPT !.head = TRUE]>>, <<[Get EXCEPT !.since = TRUE]>>,
    <<[Get EXCEPT !.range = Bytes(<<Spec2(0, 0), Spec2(1, 2)>>)]>>,
    <<[Get EXCEPT !.range = Bytes(<<Spec2(1, Absent)>>)]>>,
    <<[Get EXCEPT !.range = Bytes(<<Spec2(0, 9), Spec2(0, 0)>>)]>>,
    <<[Get EXCEPT !.range = Bytes(<<Spec2(Absent, 1)>>)]>>,
    <<[Get EXCEPT !.range = Bytes(<<Spec2(2, 1), Spec2(Absent, Absent)>>)]>>,
    <<[Get EXCEPT !.range = [Bytes(<<Spec2(0, 1)>>) EXCEPT !.unit = "lines"]]>>,
    <<[Get EXCEPT !.range = [Bytes(<<>>) EXCEPT !.equals = FALSE]]>>,
    <<[Get EXCEPT !.head = TRUE, !.range = Bytes(<<Spec2(0, 1)>>)]>> }

Answer(code, connection, upgrade, sendfile) ==
  [code |-> code, connection |-> connection, upgrade |-> upgrade, sendfile |-> sendfile]

MCAnswers == { Answer("success", "keep-alive", "none", FALSE),
               Answer("success", "keep-alive", "none", TRUE),
               Answer("success", "none", "none", TRUE),
               Answer("failure", "keep-alive", "none", FALSE),
               Answer("success", "upgrade", "h2", FALSE),
               Answer("success", "upgrade", "h2c", TRUE),
               Answer("success", "upgrade", "websocket", FALSE) }
=============================================================================
