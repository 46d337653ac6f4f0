---------------------------- MODULE MCHttpServer ----------------------------
(***************************************************************************)
(* Constants for model-checking the HTTP server with TLC.                  *)
(***************************************************************************)
EXTENDS HttpServer

CONSTANTS c1, c2

Get == [uri |-> "getJournal", method |-> "GET", keepAlive |-> TRUE,
        info |-> TRUE, supported |-> TRUE, until |-> None, length |-> 0]

GetOnce   == [Get EXCEPT !.keepAlive = FALSE]
HeadOnly  == [Get EXCEPT !.method = "HEAD"]
Foreign   == [Get EXCEPT !.info = FALSE, !.length = 1]
Ranged    == [Get EXCEPT !.until = 1]
Unknown   == [Get EXCEPT !.uri = "other"]
OldHttp   == [Get EXCEPT !.supported = FALSE]

AllRequests == {Get, GetOnce, HeadOnly, Foreign, Ranged, Unknown, OldHttp}
Line(r) == [part |-> "line", of |-> r]

\* For two clients at a time: a request for a log, one from another namespace
\* and a header that grows too long.
TwoClientStreams == {Wire(Get), Wire(Foreign), Wire(Unknown),
                     <<Line(Get), Line(Get), Line(Get)>>}

\* For the end of every response: one per kind of request.
OneClientStreams == {Wire(r) : r \in {GetOnce, HeadOnly, Ranged, OldHttp}}

OneBlock == <<0>>
=============================================================================
