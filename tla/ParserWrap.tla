----------------------------- MODULE ParserWrap -----------------------------
(***************************************************************************)
(* The HTTP parser of a server connection: http_parser (C, one byte at a   *)
(* time), ParserWrap, which turns its callbacks into calls of the page,    *)
(* the handlers http2.js sets on a parser, and the ondata that feeds it.   *)
(* The bytes arrive in chunks cut anywhere. http_parser keeps no bytes     *)
(* between two calls of execute, so a field, a value or a url that is cut  *)
(* reaches the handlers in pieces, some of them empty.                     *)
(*                                                                         *)
(* A byte here is a lexical element: "M" is a method and its space, "V"    *)
(* the version that ends a request line, "N" an end of line, a digit a     *)
(* length. A header's first value byte says which header it is: a digit    *)
(* is a Content-Length, "T" Transfer-Encoding: chunked, "W" Upgrade, "C"   *)
(* Connection: close. Everything runs on the main thread; a parser goes    *)
(* from connection to connection through the FreeList.                     *)
(***************************************************************************)
EXTENDS Integers, SequencesExt

CONSTANTS
  Requests,        \* requests a peer may send, records as in RequestType
  MaxRequests,     \* bound: requests of a connection
  MaxConnections,  \* bound: connections that use the parser
  Null             \* null in the handlers; no mark in http_parser

UrlBytes == {"u", "q"}
FieldBytes == {"f", "g", "k"}
TextBytes == {"v", "w"}
Digit(n) == <<"0", "1", "2", "3">>[n + 1]
Digits == {Digit(n) : n \in 0 .. 3}
ValueBytes == TextBytes \cup {"T", "W", "C"} \cup Digits
BodyBytes == {"b", "c"}
Bytes == UrlBytes \cup FieldBytes \cup ValueBytes \cup BodyBytes
         \cup {"M", "V", "N", ":", " ", "p", "X"}

\* A header with the pieces its value is folded into.
HeaderLines ==
  [field : Seq(FieldBytes) \ {<<>>}, value : Seq(Seq(TextBytes)) \ {<<>>}]

RequestType(r) ==
  /\ r \in [url : Seq(UrlBytes) \ {<<>>}, headers : Seq(HeaderLines),
             kind : {"none", "length", "chunked", "upgrade", "close"},
             body : Seq(BodyBytes), trailers : Seq(HeaderLines)]
  /\ r.kind \in {"none", "upgrade", "close"} => r.body = <<>>
  /\ r.kind = "length" => Len(r.body) <= 3
  /\ r.kind # "chunked" => r.trailers = <<>>

\* What a parser keeps of a message.
Messages ==
  [url : Seq(Bytes), headers : Seq(Seq(Bytes) \X Seq(Bytes)),
   body : Seq(Bytes), upgrade : BOOLEAN]

ASSUME ParserAssumption ==
  /\ \A r \in Requests : RequestType(r)
  /\ MaxRequests \in Nat /\ MaxConnections \in Nat \ {0}
  /\ Null \notin Seq(Bytes) \cup Messages

VARIABLES
  left,        \* bytes on the way to socket.ondata
  chunk,       \* bytes of the chunk being parsed that are left
  running,     \* inside parser.execute
  ondata,      \* socket.ondata still feeds the parser
  state,       \* http_parser.state; "error" stands for http_errno # HPE_OK
  flags,       \* http_parser.flags and upgrade
  toRead,      \* http_parser.content_length: bytes of body to come
  pending,     \* the bytes behind the mark of a url, field or value
  js,          \* the parser object's incoming, field and value, and what the
               \* handlers have told the server: announced and finished
  handed,      \* bytes the listener of 'upgrade' has got
  sent,        \* history: the requests of this connection
  broken,      \* history: the peer has sent a byte that is not HTTP
  protocol,    \* history: bytes sent after an upgrade request
  connections  \* bound

httpVars == <<state, flags, toRead, pending>>
peerVars == <<sent, broken, protocol, connections>>
vars == <<left, chunk, running, ondata, httpVars, js, handed, peerVars>>

States == {"start", "url_start", "url", "field_start", "field", "value_start",
           "value", "value_lws", "body", "chunk_size", "chunk_data_end", "dead",
           "error"}
Marked == {"url", "field", "value"}
NoIncoming == [url |-> <<>>, headers |-> <<>>, body |-> <<>>, upgrade |-> FALSE]

TypeOK ==
  /\ chunk \in 0 .. Len(left)
  /\ running \in BOOLEAN /\ ondata \in BOOLEAN /\ broken \in BOOLEAN
  /\ state \in States
  /\ flags \subseteq {"chunked", "upgrade", "close", "trailing"}
  /\ toRead \in 0 .. 9
  /\ pending # Null => running /\ state \in Marked
  /\ js.incoming = Null => state \in {"start", "error"}
  /\ state = "value" => js.field # Null
  /\ ~running => chunk = 0
  /\ Len(sent) <= MaxRequests /\ connections \in 1 .. MaxConnections

-----------------------------------------------------------------------------
(* What the peer sends.                                                    *)

Line(h) == FlattenSeq([i \in DOMAIN h.value |->
  <<IF i = 1 THEN ":" ELSE " ">> \o h.value[i] \o <<"N">>])
Lines(hs) == FlattenSeq([i \in DOMAIN hs |-> hs[i].field \o Line(hs[i])])

Number(d) == CHOOSE n \in 0 .. 3 : Digit(n) = d

\* The header that says how the message goes on after its headers.
Framing(r) ==
  LET header(v) == <<[field |-> <<"k">>, value |-> << <<v>> >>]>>
  IN CASE r.kind = "length"  -> header(Digit(Len(r.body)))
       [] r.kind = "chunked" -> header("T")
       [] r.kind = "upgrade" -> header("W")
       [] r.kind = "close"   -> header("C")
       [] OTHER              -> <<>>

RequestHead(r) == <<"M">> \o r.url \o <<"V">> \o Lines(r.headers \o Framing(r)) \o <<"N">>
Rest(r) ==
  IF r.kind = "chunked"
  THEN FlattenSeq([i \in DOMAIN r.body |-> <<Digit(1), r.body[i], "N">>])
       \o <<Digit(0)>> \o Lines(r.trailers) \o <<"N">>
  ELSE r.body
Encoded(r) == RequestHead(r) \o Rest(r)
WireLength(k) == Len(FlattenSeq([i \in 1 .. k |-> Encoded(sent[i])]))

IsLast == sent # <<>> /\ Last(sent).kind \in {"upgrade", "close"}

PeerSends(r) ==
  /\ Len(sent) < MaxRequests
  /\ ~IsLast /\ ~broken
  /\ left' = left \o Encoded(r)
  /\ sent' = Append(sent, r)
  /\ UNCHANGED <<chunk, running, ondata, httpVars, js, handed, broken, protocol,
                 connections>>

\* After an upgrade request the peer may speak the new protocol at once.
PeerSpeaks ==
  /\ sent # <<>> /\ Last(sent).kind = "upgrade"
  /\ Len(protocol) < 2
  /\ left' = Append(left, "p")
  /\ protocol' = Append(protocol, "p")
  /\ UNCHANGED <<chunk, running, ondata, httpVars, js, handed, sent, broken,
                 connections>>

\* A byte no state but a body's accepts, between two requests.
PeerBreaks ==
  /\ ~broken
  /\ sent # <<>> => Last(sent).kind # "upgrade"
  /\ left' = Append(left, "X")
  /\ broken' = TRUE
  /\ UNCHANGED <<chunk, running, ondata, httpVars, js, handed, sent, protocol,
                 connections>>

-----------------------------------------------------------------------------
(* The handlers of http2.js. A string of the page is Null or a sequence;   *)
(* Null and the empty one are false.                                       *)

Truthy(s) == s # Null /\ s # <<>>

AddHeaderLine(j) ==
  [j EXCEPT !.incoming.headers = Append(@, <<j.field, j.value>>)]

onMessageBegin(j) ==
  [j EXCEPT !.incoming = NoIncoming, !.field = Null, !.value = Null]

onURL(j, slice) == [j EXCEPT !.incoming.url = @ \o slice]

\* Mutant: a piece of a value starts a value.
ValueRestarts(j, slice) == [j EXCEPT !.value = slice]

onHeaderField(j, slice) ==
  LET k == IF j.value # Null
           THEN [AddHeaderLine(j) EXCEPT !.field = Null, !.value = Null]
           ELSE j
  IN [k EXCEPT !.field = IF Truthy(@) THEN @ \o slice ELSE slice]

onHeaderValue(j, slice) ==
  [j EXCEPT !.value = IF Truthy(@) THEN @ \o slice ELSE slice]

HasHeaderLine(j) == Truthy(j.field) /\ j.value # Null

Announce(j) ==
  [j EXCEPT !.announced = Append(@, [url |-> j.incoming.url,
                                     headers |-> j.incoming.headers])]

\* onIncoming announces the request to the server, an upgrade excepted.
onHeadersComplete(j, upgrade) ==
  LET k == IF HasHeaderLine(j)
           THEN [AddHeaderLine(j) EXCEPT !.field = Null, !.value = Null]
           ELSE j
      l == [k EXCEPT !.incoming.upgrade = upgrade]
  IN IF upgrade THEN l ELSE Announce(l)

onBody(j, slice) == [j EXCEPT !.incoming.body = @ \o slice]

\* Mutant: the last trailer is lost.
CompleteWithoutTrailer(j) ==
  IF j.incoming.upgrade THEN j
  ELSE [j EXCEPT !.finished = Append(@, j.incoming)]

\* 'end' is emitted, with the last header line of a trailer added before.
onMessageComplete(j) ==
  LET k == IF HasHeaderLine(j) THEN AddHeaderLine(j) ELSE j
  IN IF k.incoming.upgrade THEN k
     ELSE [k EXCEPT !.finished = Append(@, k.incoming)]

-----------------------------------------------------------------------------
(* The parser and its connections.                                         *)

NewHandlers == [incoming |-> Null, field |-> Null, value |-> Null,
                announced |-> <<>>, finished |-> <<>>]

Init ==
  /\ left = <<>> /\ chunk = 0 /\ running = FALSE /\ ondata = TRUE
  /\ state = "start" /\ flags = {} /\ toRead = 0 /\ pending = Null
  /\ js = NewHandlers
  /\ handed = <<>>
  /\ sent = <<>> /\ broken = FALSE /\ protocol = <<>> /\ connections = 1

\* ParserWrap::init, http_parser_init.
Reinitialize ==
  /\ state' = "start"
  /\ flags' = {}
  /\ UNCHANGED <<toRead, pending>>

\* The connection is destroyed with the parser in any state between two chunks;
\* connectionListener takes the same parser from the FreeList for the next one.
NextConnection ==
  /\ ~running
  /\ connections < MaxConnections
  /\ connections' = connections + 1
  /\ Reinitialize
  /\ js' = [js EXCEPT !.incoming = Null, !.announced = <<>>, !.finished = <<>>]
  /\ ondata' = TRUE
  /\ left' = <<>> /\ sent' = <<>> /\ broken' = FALSE /\ protocol' = <<>>
  /\ handed' = <<>>
  /\ UNCHANGED <<chunk, running>>

\* socket.ondata, ParserWrap::execute: a chunk of n bytes. A parser in error
\* returns at once.
Execute(n) ==
  /\ ~running /\ ondata
  /\ running' = TRUE
  /\ pending' = IF state \in Marked THEN <<>> ELSE Null
  /\ IF state = "error"
     THEN /\ left' = SubSeq(left, n + 1, Len(left))
          /\ UNCHANGED chunk
     ELSE /\ chunk' = n
          /\ UNCHANGED left
  /\ UNCHANGED <<ondata, state, flags, toRead, js, handed, peerVars>>

\* After the upgrade the listener reads the socket itself.
Handed(n) ==
  /\ ~ondata
  /\ handed' = handed \o SubSeq(left, 1, n)
  /\ left' = SubSeq(left, n + 1, Len(left))
  /\ UNCHANGED <<chunk, running, ondata, httpVars, js, peerVars>>

\* The end of http_parser_execute: a field, value or url that is cut is handed
\* over as far as it goes.
Flush(j) ==
  CASE pending = Null    -> j
    [] state = "url"     -> onURL(j, pending)
    [] state = "field"   -> onHeaderField(j, pending)
    [] state = "value"   -> onHeaderValue(j, pending)

\* What socket.ondata does with an upgrade request: execute has no result, so
\* upgradeHead is d.slice(NaN, end), which holds no byte.
Upgraded(j) ==
  IF j.incoming # Null /\ j.incoming.upgrade
  THEN /\ js' = Announce(j)
       /\ ondata' = FALSE
  ELSE /\ js' = j
       /\ UNCHANGED ondata

ExecuteReturns ==
  /\ running
  /\ chunk = 0 /\ state # "error"
  /\ running' = FALSE
  /\ pending' = Null
  /\ Upgraded(Flush(js))
  /\ UNCHANGED <<left, chunk, state, flags, toRead, handed, peerVars>>

\* An error or an upgrade ends execute early; the rest of the chunk is nobody's.
\* The error is not reported: execute has no result. The return for an upgrade
\* also skips the saving of state, which nothing reads before the next init.
ExecuteStops ==
  /\ running
  /\ \/ state = "error"
     \/ "upgrade" \in flags /\ state = "start"
  /\ running' = FALSE
  /\ chunk' = 0
  /\ left' = SubSeq(left, chunk + 1, Len(left))
  /\ pending' = Null
  /\ Upgraded(js)
  /\ UNCHANGED <<state, flags, toRead, handed, peerVars>>

-----------------------------------------------------------------------------
(* One byte of http_parser_execute; ParserWrap's callbacks call the page.  *)

Reads(bytes) ==
  /\ running /\ chunk > 0 /\ Head(left) \in bytes
  /\ left' = Tail(left)
  /\ chunk' = chunk - 1
  /\ UNCHANGED <<running, ondata, handed, peerVars>>

OnMessageBegin ==
  /\ state = "start" /\ "upgrade" \notin flags
  /\ Reads({"M"})
  /\ state' = "url_start"
  /\ flags' = {}
  /\ toRead' = 0
  /\ js' = onMessageBegin(js)
  /\ UNCHANGED pending

\* MARK: the first byte of a url, a field, a value.
Mark(from, to, bytes) ==
  /\ state \in from
  /\ Reads(bytes)
  /\ state' = to
  /\ pending' = <<Head(left)>>

MarkUrl == Mark({"url_start"}, "url", UrlBytes) /\ UNCHANGED <<flags, toRead, js>>

MarkField ==
  /\ Mark({"field_start", "value_lws"}, "field", FieldBytes)
  /\ UNCHANGED <<flags, toRead, js>>

MarkValue ==
  /\ Mark({"value_start"}, "value", ValueBytes)
  /\ LET byte == Head(left)
         known == [T |-> "chunked", W |-> "upgrade", C |-> "close"]
     IN /\ flags' = IF byte \in DOMAIN known THEN flags \cup {known[byte]} ELSE flags
        /\ toRead' = IF byte \in Digits THEN Number(byte) ELSE toRead
  /\ UNCHANGED js

More ==
  \/ state = "url" /\ Reads(UrlBytes)
  \/ state = "field" /\ Reads(FieldBytes)
  \/ state = "value" /\ Reads(ValueBytes \cup {" "})
MoreBytes ==
  /\ More
  /\ pending' = Append(pending, Head(left))
  /\ UNCHANGED <<state, flags, toRead, js>>

OnUrl ==
  /\ state = "url"
  /\ Reads({"V"})
  /\ js' = onURL(js, pending)
  /\ state' = "field_start"
  /\ pending' = Null
  /\ UNCHANGED <<flags, toRead>>

OnHeaderField ==
  /\ state = "field"
  /\ Reads({":"})
  /\ js' = onHeaderField(js, pending)
  /\ state' = "value_start"
  /\ pending' = Null
  /\ UNCHANGED <<flags, toRead>>

SkipSpace ==
  /\ state \in {"value_start", "value_lws"}
  /\ Reads({" "})
  /\ state' = "value_start"
  /\ UNCHANGED <<flags, toRead, pending, js>>

\* The end of a value, or of an empty one.
OnHeaderValue ==
  /\ state \in {"value", "value_start"}
  /\ Reads({"N"})
  /\ js' = onHeaderValue(js, IF state = "value" THEN pending ELSE <<>>)
  /\ state' = "value_lws"
  /\ pending' = Null
  /\ UNCHANGED <<flags, toRead>>

\* NEW_MESSAGE, in strict mode: nothing may follow Connection: close.
NewMessage == IF "close" \in flags THEN "dead" ELSE "start"

\* An empty line: the headers are complete, and the message with them when no
\* body follows; or the trailer of a chunked message is.
OnHeadersComplete ==
  /\ state \in {"field_start", "value_lws"}
  /\ "trailing" \notin flags
  /\ Reads({"N"})
  /\ LET told == onHeadersComplete(js, "upgrade" \in flags)
         next == CASE "upgrade" \in flags -> "start"
                   [] "chunked" \in flags -> "chunk_size"
                   [] toRead > 0          -> "body"
                   [] OTHER               -> NewMessage
     IN /\ state' = next
        /\ js' = IF next \in {"start", "dead"} THEN onMessageComplete(told) ELSE told
  /\ UNCHANGED <<flags, toRead, pending>>

OnTrailerComplete ==
  /\ state \in {"field_start", "value_lws"}
  /\ "trailing" \in flags
  /\ Reads({"N"})
  /\ js' = onMessageComplete(js)
  /\ state' = NewMessage
  /\ UNCHANGED <<flags, toRead, pending>>

ChunkSize ==
  /\ state = "chunk_size"
  /\ Reads(Digits)
  /\ toRead' = Number(Head(left))
  /\ state' = IF toRead' = 0 THEN "field_start" ELSE "body"
  /\ flags' = IF toRead' = 0 THEN flags \cup {"trailing"} ELSE flags
  /\ UNCHANGED <<pending, js>>

ChunkDataEnd ==
  /\ state = "chunk_data_end"
  /\ Reads({"N"})
  /\ state' = "chunk_size"
  /\ UNCHANGED <<flags, toRead, pending, js>>

\* As much of the body as the chunk has, in one call.
OnBody ==
  /\ state = "body"
  /\ running /\ chunk > 0
  /\ LET n == IF chunk < toRead THEN chunk ELSE toRead
         told == onBody(js, SubSeq(left, 1, n))
     IN /\ left' = SubSeq(left, n + 1, Len(left))
        /\ chunk' = chunk - n
        /\ toRead' = toRead - n
        /\ CASE n < toRead            -> state' = "body" /\ js' = told
             [] n = toRead /\ "chunked" \in flags
                                      -> state' = "chunk_data_end" /\ js' = told
             [] OTHER                 -> /\ state' = NewMessage
                                         /\ js' = onMessageComplete(told)
  /\ UNCHANGED <<running, ondata, flags, pending, handed, peerVars>>

\* SET_ERRNO: a byte the state does not accept.
Error ==
  /\ state \notin {"body", "error"}
  /\ Reads({"X"})
  /\ state' = "error"
  /\ pending' = Null
  /\ UNCHANGED <<flags, toRead, js>>

-----------------------------------------------------------------------------
Peer == PeerSpeaks \/ PeerBreaks \/ \E r \in Requests : PeerSends(r)

Socket ==
  \/ \E n \in 1 .. Len(left) : Execute(n) \/ (~running /\ Handed(n))
  \/ ExecuteReturns \/ ExecuteStops \/ NextConnection

Parser ==
  \/ OnMessageBegin \/ MarkUrl \/ MarkField \/ MarkValue \/ MoreBytes
  \/ OnUrl \/ OnHeaderField \/ SkipSpace \/ OnHeaderValue
  \/ OnHeadersComplete \/ OnTrailerComplete \/ ChunkSize \/ ChunkDataEnd
  \/ OnBody \/ Error

Next == Peer \/ Socket \/ Parser
Spec == Init /\ [][Next]_vars

-----------------------------------------------------------------------------
(* Properties.                                                             *)

Joined(hs) == [i \in DOMAIN hs |-> <<hs[i].field, FlattenSeq(hs[i].value)>>]
HeadOf(r) == [url |-> r.url, headers |-> Joined(r.headers \o Framing(r))]
MessageOf(r) ==
  [url |-> r.url, headers |-> Joined(r.headers \o Framing(r) \o r.trailers),
   body |-> r.body, upgrade |-> FALSE]

\* Bytes of this connection that the parser has been given and is done with.
Consumed == WireLength(Len(sent)) + Len(protocol) + (IF broken THEN 1 ELSE 0)
            - Len(left)

\* Between two chunks the server has been told of exactly the requests whose
\* headers have arrived, each with the url and the headers the peer sent,
\* wherever the chunks were cut and whatever the connection before this one
\* left in the parser (http2.js:38-117, parser_wrap.cpp:154-259).
AnnouncedAsSent ==
  ~running =>
    js.announced = [i \in {k \in DOMAIN sent :
                       WireLength(k - 1) + Len(RequestHead(sent[k])) <= Consumed} |->
                     HeadOf(sent[i])]

\* The same of whole messages: body and trailers reach the request they belong
\* to, and 'end' is emitted once, when the last byte has arrived.
FinishedAsSent ==
  ~running =>
    js.finished = [i \in {k \in DOMAIN sent :
                       /\ sent[k].kind # "upgrade"
                       /\ WireLength(k) <= Consumed} |->
                    MessageOf(sent[i])]

\* http2.js:101-102: the upgrade is announced after execute "so that we can
\* capture the first part of the new protocol": its listener gets every byte of
\* that protocol.
UpgradeHeadCaptured ==
  ~ondata /\ left = <<>> => handed = protocol
=============================================================================
