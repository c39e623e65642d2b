---------------------------- MODULE HttpPipeline ----------------------------
(***************************************************************************)
(* One server connection of http2.js (what require('http') loads): the     *)
(* pipelined requests of connectionListener, the responses that wait for   *)
(* their turn in outgoing, and the buffering of OutgoingMessage.           *)
(*                                                                         *)
(* A response's bytes are reduced to parts: the interim "100", "head",     *)
(* "body" and the final chunk "tail". A response has the socket exactly    *)
(* while it is socket._httpMessage: assignSocket and detachSocket set and  *)
(* clear both together. The application calls write() and end() of each    *)
(* response, in any order among responses, and none after its end().       *)
(***************************************************************************)
EXTENDS Integers, Sequences, Selection

CONSTANTS
  MaxRequests,   \* bound: requests on the connection
  MaxWrites,     \* bound: calls of write()
  Expect         \* TRUE: requests may come with Expect: 100-continue

ASSUME PipelineAssumption ==
  /\ {MaxRequests, MaxWrites} \subseteq Nat
  /\ Expect \in BOOLEAN

Requests == 1 .. MaxRequests
Part == {"100", "head", "body", "tail"}

VARIABLES
  requests,      \* requests parsed so far; request and response share a number
  incoming,      \* incoming, requests not answered
  outgoing,      \* outgoing, responses waiting for the socket
  httpMessage,   \* socket._httpMessage, 0 for none
  finishing,     \* 0, or the response whose 'finish' is being handled
  header,        \* response._header is set
  headerSent,    \* response._headerSent
  chunked,       \* response.chunkedEncoding
  last,          \* response._last
  finished,      \* response.finished
  output,        \* response.output
  sockWritable,  \* socket.writable
  sockClosed,    \* the socket has emitted 'close'
  wire,          \* history: what was written to the socket
  writes         \* bound

listVars == <<requests, incoming, outgoing, httpMessage>>
headVars == <<header, headerSent, chunked, last>>
sockVars == <<sockWritable, sockClosed>>
vars == <<listVars, finishing, headVars, finished, output, sockVars, wire, writes>>

TypeOK ==
  /\ requests \in 0 .. MaxRequests
  /\ incoming \in Seq(Requests)
  /\ outgoing \in Seq(Requests)
  /\ httpMessage \in 0 .. MaxRequests
  /\ finishing \in 0 .. MaxRequests
  /\ header \in [Requests -> BOOLEAN]
  /\ headerSent \in [Requests -> BOOLEAN]
  /\ chunked \in [Requests -> BOOLEAN]
  /\ last \in [Requests -> BOOLEAN]
  /\ finished \in [Requests -> BOOLEAN]
  /\ output \in [Requests -> Seq(Part)]
  /\ sockWritable \in BOOLEAN
  /\ sockClosed \in BOOLEAN
  /\ wire \in Seq([res : Requests, part : Part])
  /\ writes \in Nat

Init ==
  /\ requests = 0
  /\ incoming = <<>>
  /\ outgoing = <<>>
  /\ httpMessage = 0
  /\ finishing = 0
  /\ header = [r \in Requests |-> FALSE]
  /\ headerSent = [r \in Requests |-> FALSE]
  /\ chunked = [r \in Requests |-> FALSE]
  /\ last = [r \in Requests |-> FALSE]
  /\ finished = [r \in Requests |-> FALSE]
  /\ output = [r \in Requests |-> <<>>]
  /\ sockWritable = TRUE
  /\ sockClosed = FALSE
  /\ wire = <<>>
  /\ writes = 0

-----------------------------------------------------------------------------
(* OutgoingMessage.                                                        *)

Of(r, parts) == [i \in 1 .. Len(parts) |-> [res |-> r, part |-> parts[i]]]

\* Mutants of WriteRaw: the response's turn is not looked at; pending output is
\* not written first.
WriteRawAnyTime(r, out, parts) ==
  IF sockWritable
  THEN /\ wire' = wire \o Of(r, out \o parts)
       /\ output' = [output EXCEPT ![r] = <<>>]
  ELSE /\ output' = [output EXCEPT ![r] = out \o parts]
       /\ UNCHANGED wire

WriteRawPastOutput(r, out, parts) ==
  IF httpMessage = r /\ sockWritable
  THEN /\ wire' = wire \o Of(r, parts)
       /\ output' = [output EXCEPT ![r] = out]
  ELSE /\ output' = [output EXCEPT ![r] = out \o parts]
       /\ UNCHANGED wire

\* _writeRaw of parts by response r, whose output is out by then: everything
\* goes to the socket when it is the response's turn and the socket writable,
\* otherwise _buffer keeps it.
WriteRaw(r, out, parts) ==
  IF httpMessage = r /\ sockWritable
  THEN /\ wire' = wire \o Of(r, out \o parts)
       /\ output' = [output EXCEPT ![r] = <<>>]
  ELSE /\ output' = [output EXCEPT ![r] = out \o parts]
       /\ UNCHANGED wire

\* writeHead and _storeHeader, by the application or on the first write: it
\* decides on the encoding and on Connection: close.
StoreHeader(r) ==
  /\ header' = [header EXCEPT ![r] = TRUE]
  /\ \/ /\ header[r]
        /\ UNCHANGED <<chunked, last>>
     \/ /\ ~header[r]
        /\ \E c, l \in BOOLEAN :
             /\ chunked' = [chunked EXCEPT ![r] = c]
             /\ last' = [last EXCEPT ![r] = l]

\* _send of the string or buffer that holds parts. A header not sent yet is
\* put in front of a string, but at the front of output for a buffer. With
\* chunked encoding the chunk length, a string, is always the first.
Send(r, buffer, parts) ==
  LET head == IF headerSent[r] THEN <<>> ELSE <<"head">>
  IN /\ headerSent' = [headerSent EXCEPT ![r] = TRUE]
     /\ IF buffer /\ ~chunked'[r]
        THEN WriteRaw(r, head \o output[r], parts)
        ELSE WriteRaw(r, output[r], head \o parts)

AppCall(r) ==
  /\ finishing = 0
  /\ r <= requests
  /\ ~finished[r]
  /\ StoreHeader(r)
  /\ UNCHANGED <<listVars, sockVars>>

ResponseWrite(r, buffer) ==
  /\ AppCall(r)
  /\ writes < MaxWrites
  /\ writes' = writes + 1
  /\ Send(r, buffer, <<"body">>)
  /\ UNCHANGED <<finished, finishing>>

\* end(), with or without data. Then, if the response has the socket and
\* nothing is left in its output, _finish.
ResponseEnd(r, buffer, body) ==
  /\ AppCall(r)
  /\ Send(r, buffer, body \o (IF chunked'[r] THEN <<"tail">> ELSE <<>>))
  /\ finished' = [finished EXCEPT ![r] = TRUE]
  /\ finishing' = IF httpMessage = r /\ output'[r] = <<>> THEN r ELSE 0
  /\ UNCHANGED writes

-----------------------------------------------------------------------------
(* connectionListener.                                                     *)

\* Mutant of OnIncoming: a response that comes while another has the socket
\* takes it over.
OnIncomingTakesOver(expect) ==
  LET r == requests + 1
  IN /\ finishing = 0
     /\ ~sockClosed
     /\ requests < MaxRequests
     /\ requests' = r
     /\ incoming' = Append(incoming, r)
     /\ httpMessage' = r
     /\ UNCHANGED <<outgoing, wire, output, finishing, headVars, finished,
                    sockVars, writes>>

\* parser.onIncoming, up to the 'request' event: the new response takes the
\* socket or waits, and answers Expect: 100-continue.
OnIncoming(expect) ==
  LET r == requests + 1
  IN /\ finishing = 0
     /\ ~sockClosed
     /\ requests < MaxRequests
     /\ requests' = r
     /\ incoming' = Append(incoming, r)
     /\ IF httpMessage # 0
        THEN outgoing' = Append(outgoing, r) /\ UNCHANGED httpMessage
        ELSE httpMessage' = r /\ UNCHANGED outgoing
     /\ IF ~expect
        THEN UNCHANGED <<wire, output>>
        ELSE IF httpMessage' = r /\ sockWritable
        THEN wire' = wire \o Of(r, <<"100">>) /\ UNCHANGED output
        ELSE output' = [output EXCEPT ![r] = <<"100">>] /\ UNCHANGED wire
     /\ UNCHANGED <<finishing, headVars, finished, sockVars, writes>>

\* Mutants of Finish: a response sent with Connection: close leaves the socket
\* writable; the newest waiting response is next.
FinishKeepsSocket ==
  /\ finishing # 0
  /\ incoming' = IF incoming = <<>> THEN <<>> ELSE Tail(incoming)
  /\ IF outgoing = <<>>
     THEN httpMessage' = 0 /\ finishing' = 0
          /\ UNCHANGED <<outgoing, wire, output>>
     ELSE LET m == Head(outgoing)
              flushed == sockWritable \/ output[m] = <<>>
          IN /\ outgoing' = Tail(outgoing)
             /\ httpMessage' = m
             /\ wire' = IF flushed THEN wire \o Of(m, output[m]) ELSE wire
             /\ output' = IF flushed THEN [output EXCEPT ![m] = <<>>] ELSE output
             /\ finishing' = IF flushed /\ finished[m] THEN m ELSE 0
  /\ UNCHANGED <<requests, headVars, finished, sockVars, writes>>
FinishTakesNewest ==
  /\ finishing # 0
  /\ incoming' = IF incoming = <<>> THEN <<>> ELSE Tail(incoming)
  /\ IF last[finishing] \/ outgoing = <<>>
     THEN /\ httpMessage' = 0
          /\ finishing' = 0
          /\ sockWritable' = (sockWritable /\ ~last[finishing])
          /\ UNCHANGED <<outgoing, wire, output>>
     ELSE LET m == outgoing[Len(outgoing)]
              flushed == sockWritable \/ output[m] = <<>>
          IN /\ outgoing' = SubSeq(outgoing, 1, Len(outgoing) - 1)
             /\ httpMessage' = m
             /\ wire' = IF flushed THEN wire \o Of(m, output[m]) ELSE wire
             /\ output' = IF flushed THEN [output EXCEPT ![m] = <<>>] ELSE output
             /\ finishing' = IF flushed /\ finished[m] THEN m ELSE 0
             /\ UNCHANGED sockWritable
  /\ UNCHANGED <<requests, headVars, finished, sockClosed, writes>>

\* The 'finish' listener. The response gives the socket back; after the last
\* one destroySoon, otherwise the next one gets it and is flushed
\* (assignSocket, _flush), and may have ended already.
Finish ==
  /\ finishing # 0
  /\ incoming' = IF incoming = <<>> THEN <<>> ELSE Tail(incoming)
  /\ \/ /\ last[finishing]
        /\ sockWritable' = FALSE
        /\ httpMessage' = 0
        /\ finishing' = 0
        /\ UNCHANGED <<outgoing, wire, output>>
     \/ /\ ~last[finishing]
        /\ outgoing = <<>>
        /\ httpMessage' = 0
        /\ finishing' = 0
        /\ UNCHANGED <<outgoing, wire, output, sockWritable>>
     \/ /\ ~last[finishing]
        /\ outgoing # <<>>
        /\ LET m == Head(outgoing)
               flushed == sockWritable \/ output[m] = <<>>
           IN /\ outgoing' = Tail(outgoing)
              /\ httpMessage' = m
              /\ wire' = IF flushed THEN wire \o Of(m, output[m]) ELSE wire
              /\ output' = IF flushed THEN [output EXCEPT ![m] = <<>>] ELSE output
              /\ finishing' = IF flushed /\ finished[m] THEN m ELSE 0
        /\ UNCHANGED sockWritable
  /\ UNCHANGED <<requests, headVars, finished, sockClosed, writes>>

\* The socket's 'close' event, at any time; after destroySoon it is the last
\* acknowledged write that destroys the socket (TcpBridge). abortIncoming.
SocketClose ==
  /\ finishing = 0
  /\ ~sockClosed
  /\ sockClosed' = TRUE
  /\ sockWritable' = FALSE
  /\ incoming' = <<>>
  /\ UNCHANGED <<requests, outgoing, httpMessage, finishing, headVars, finished,
                 output, wire, writes>>

-----------------------------------------------------------------------------
Next ==
  \/ \E expect \in {FALSE, Expect} : OnIncoming(expect)
  \/ \E r \in Requests, buffer \in BOOLEAN :
       \/ ResponseWrite(r, buffer)
       \/ \E body \in {<<>>, <<"body">>} : ResponseEnd(r, buffer, body)
  \/ Finish
  \/ SocketClose

\* A 'finish' listener that has begun runs to its end.
Spec == Init /\ [][Next]_vars
FairSpec == Spec /\ WF_vars(Finish)

-----------------------------------------------------------------------------
(* Properties.                                                             *)

\* http2.js:1419 asserts that the response that finishes answers the oldest
\* request, unless abortIncoming() has emptied the list, in whatever order the
\* application ends its responses.
FinishesOldestRequest ==
  finishing # 0 /\ incoming # <<>> => Head(incoming) = finishing

\* Responses leave in the order of their requests and none begins before the
\* one before it is complete: pipelined responses never mix.
ResponsesInOrder ==
  /\ \A i \in 2 .. Len(wire) : wire[i - 1].res <= wire[i].res
  /\ \A i \in 2 .. Len(wire) : wire[i - 1].res < wire[i].res =>
       /\ finished[wire[i - 1].res]
       /\ output[wire[i - 1].res] = <<>>

\* After a response sent with Connection: close nothing of a later one is
\* written, though later requests may have been parsed and answered already.
LastIsLast ==
  \A i \in 1 .. Len(wire) : \A r \in Requests :
    last[r] => wire[i].res <= r

\* What the application produced reaches the wire head first and final chunk
\* last, whether it was buffered in output or written directly. (An interim
\* 100 that had to wait in output goes out wherever the head put it.)
PartsInOrder ==
  \A r \in Requests :
    LET mine == Select(wire, [res : {r}, part : Part \ {"100"}])
    IN \A i \in 1 .. Len(mine) :
         /\ mine[i].part = "head" <=> i = 1
         /\ mine[i].part = "tail" => i = Len(mine) /\ finished[r]

\* A response that has ended, with all before it, leaves the pipeline, unless
\* the connection is over.
EndedResponseLeaves ==
  \A r \in Requests :
    (r <= requests /\ \A q \in 1 .. r : finished[q]) ~>
      \/ ~sockWritable
      \/ output[r] = <<>> /\ httpMessage # r
=============================================================================
