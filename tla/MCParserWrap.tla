---------------------------- MODULE MCParserWrap ----------------------------
(* Requests of an instance of ParserWrap for TLC. *)
EXTENDS ParserWrap

Request(kind, headers, body, trailers) ==
  [url |-> <<"u", "q">>, headers |-> headers, kind |-> kind, body |-> body,
   trailers |-> trailers]
Header(field, value) == [field |-> field, value |-> value]

\* An empty value; a value folded over two lines; a body in one piece; a body
\* in chunks with a trailer; an upgrade; the last request of its connection.
SomeRequests ==
  {Request("none", <<Header(<<"f", "g">>, << <<>> >>)>>, <<>>, <<>>),
   Request("length", <<Header(<<"f">>, << <<>>, <<"v">>, <<"w", "v">> >>)>>,
           <<"b", "c">>, <<>>),
   Request("chunked", <<>>, <<"b", "c">>,
           <<Header(<<"f">>, << <<"v">> >>), Header(<<"g">>, << <<"w">> >>)>>),
   Request("upgrade", <<Header(<<"g">>, << <<"v", "w">> >>)>>, <<>>, <<>>),
   Request("close", <<>>, <<>>, <<>>)}
=============================================================================
