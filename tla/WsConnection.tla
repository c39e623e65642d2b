---------------------------- MODULE WsConnection ----------------------------
(***************************************************************************)
(* One accepted WebSocketConnection on its net.js socket, on the main      *)
(* thread: the outgoing frame queue and its pause, the assembly of         *)
(* fragmented messages, the close handshake, drop() and the keepalive,     *)
(* grace period and close timers.                                          *)
(*                                                                         *)
(* Code runs to completion, one callback at a time. The loop of            *)
(* handleSocketData is the exception that needs steps of its own: the      *)
(* 'message' events it emits run the application in the middle of it.      *)
(* What a chunk of data contains is chosen frame by frame as the loop      *)
(* parses it.                                                              *)
(*                                                                         *)
(* The socket is the one of module TcpBridge, reduced to what it promises  *)
(* in WriteChannel: writes are acknowledged in order, 'drain' comes when   *)
(* none is left, and write() always returns false, because a TCPWrap has   *)
(* no writeQueueSize (net.js:384). The end of the stream never reaches it. *)
(* config is WebSocketServer's default except where a constant says so.    *)
(***************************************************************************)
EXTENDS Integers, Sequences

CONSTANTS
  MaxCalls,       \* bound: calls made by the application
  MaxChunks,      \* bound: chunks of data received
  MaxFrames,      \* bound: frames parsed
  MaxPings,       \* bound: keepalive pings, when nothing else bounds them
  MaxMessage,     \* config.maxReceivedMessageSize; a fragment counts 1
  DropOptions     \* the values dropConnectionOnKeepaliveTimeout may have

ASSUME WsAssumption ==
  /\ {MaxCalls, MaxChunks, MaxFrames, MaxPings, MaxMessage} \subseteq Nat
  /\ DropOptions \subseteq BOOLEAN

VARIABLES
  dropOnTimeout,   \* config.dropConnectionOnKeepaliveTimeout, fixed
  connected,       \* this.connected
  state,           \* this.state
  closeCode,       \* this.closeReasonCode, what set it
  closeEvents,     \* 'close' events emitted; closeEventEmitted is "> 0"
  keepaliveTimer,  \* a timeout for handleKeepaliveTimer is pending
  graceTimer,      \* ... for handleGracePeriodTimer
  closeTimer,      \* ... for handleCloseTimer; waitingForCloseResponse
  lateDrop,        \* ... for the drop() that accept() schedules
  outgoing,        \* outgoingFrameQueue, oldest first
  outputPaused,    \* this.outputPaused
  frameQueue,      \* frameQueue, as indices into parsed
  loop,            \* handleSocketData: not running, parsing, in a handler
  sockWritable,    \* socket.writable
  sockDestroyed,   \* socket.destroyed
  unacked,         \* Len(socket._writeRequests)
  wire,            \* history: frames written to the socket
  parsed,          \* history: frames parsed
  messages,        \* history: 'message' events, as indices into parsed
  sent,            \* history: frames given to sendFrame
  calls, chunks, pings  \* bounds

connVars  == <<connected, state, closeCode, closeEvents>>
timerVars == <<keepaliveTimer, graceTimer, closeTimer>>
outVars   == <<outgoing, outputPaused, unacked, wire, sent>>
inVars    == <<frameQueue, parsed, messages>>
sockVars  == <<sockWritable, sockDestroyed>>
boundVars == <<dropOnTimeout, calls, chunks, pings>>
vars == <<connVars, timerVars, lateDrop, outVars, inVars, loop,
          sockVars, boundVars>>

OutOps == {"data", "ping", "pong", "close"}
OutFrame == [op : OutOps, id : Nat]

\* What the parser tells apart in a received frame: text and binary frames are
\* "data"; "malformed" is protocolError or frameTooLarge; control frames are
\* always final.
InFrame ==
  [op : {"data", "cont"}, fin : BOOLEAN, rsv : BOOLEAN] \cup
  [op : {"ping", "pong", "close", "unknown"}, fin : {TRUE}, rsv : BOOLEAN] \cup
  [op : {"malformed"}, fin : {TRUE}, rsv : {FALSE}]

TypeOK ==
  /\ dropOnTimeout \in DropOptions
  /\ connected \in BOOLEAN
  /\ state \in {"open", "closing", "closed"}
  /\ closeCode \in {"none", "normal", "abnormal", "protocol", "dropped", "peer"}
  /\ closeEvents \in Nat
  /\ keepaliveTimer \in BOOLEAN
  /\ graceTimer \in BOOLEAN
  /\ closeTimer \in BOOLEAN
  /\ lateDrop \in BOOLEAN
  /\ outgoing \in Seq(OutFrame)
  /\ outputPaused \in BOOLEAN
  /\ frameQueue \in Seq(Nat)
  /\ loop \in {"idle", "parsing", "handler"}
  /\ sockWritable \in BOOLEAN
  /\ sockDestroyed \in BOOLEAN
  /\ unacked \in Nat
  /\ wire \in Seq(OutFrame)
  /\ parsed \in Seq(InFrame)
  /\ messages \in Seq(Seq(Nat))
  /\ sent \in Nat
  /\ calls \in Nat
  /\ chunks \in Nat
  /\ pings \in Nat

\* The constructor, called by accept(), which then writes the handshake
\* response; on a socket already destroyed that write throws, and accept
\* schedules a drop instead.
Init ==
  /\ dropOnTimeout \in DropOptions
  /\ connected = TRUE
  /\ state = "open"
  /\ closeCode = "none"
  /\ closeEvents = 0
  /\ keepaliveTimer = TRUE
  /\ graceTimer = FALSE
  /\ closeTimer = FALSE
  /\ outgoing = <<>>
  /\ outputPaused = FALSE
  /\ frameQueue = <<>>
  /\ loop = "idle"
  /\ sockDestroyed \in BOOLEAN
  /\ sockWritable = ~sockDestroyed
  /\ lateDrop = sockDestroyed
  /\ unacked = IF sockDestroyed THEN 0 ELSE 1
  /\ wire = <<>>
  /\ parsed = <<>>
  /\ messages = <<>>
  /\ sent = 0
  /\ calls = 0
  /\ chunks = 0
  /\ pings = 0

-----------------------------------------------------------------------------
(* Outgoing frames.                                                        *)

\* n frames of kind op, numbered in the order of the calls of sendFrame.
Numbered(op, n) == [i \in 1 .. n |-> [op |-> op, id |-> sent + i]]

\* Mutant: push() instead of unshift(), the newest frame is written first.
SendFramesNewestFirst(queue, frames) ==
  LET all == frames \o queue
  IN /\ sent' = sent + Len(frames)
     /\ IF outputPaused \/ ~connected \/ sockDestroyed \/ frames = <<>>
        THEN /\ outgoing' = all
             /\ UNCHANGED <<outputPaused, unacked, wire>>
        ELSE /\ outgoing' = Tail(all)
             /\ wire' = Append(wire, Head(all))
             /\ unacked' = unacked + 1
             /\ outputPaused' = TRUE

\* sendFrame on each of frames, with queue what outgoingFrameQueue holds by
\* then: unshift, then processOutgoingFrameQueue, which writes one frame and
\* pauses, or, on a destroyed socket, loses one frame in its catch.
SendFrames(queue, frames) ==
  LET all == queue \o frames
  IN /\ sent' = sent + Len(frames)
     /\ \/ /\ outputPaused \/ ~connected \/ frames = <<>>
           /\ outgoing' = all
           /\ UNCHANGED <<outputPaused, unacked, wire>>
        \/ /\ ~outputPaused /\ connected /\ ~sockDestroyed
           /\ frames # <<>>
           /\ outgoing' = Tail(all)
           /\ wire' = Append(wire, Head(all))
           /\ unacked' = unacked + 1
           /\ outputPaused' = TRUE
        \/ /\ ~outputPaused /\ connected /\ sockDestroyed
           /\ frames # <<>>
           /\ outgoing' = SubSeq(all, Len(frames) + 1, Len(all))
           /\ UNCHANGED <<outputPaused, unacked, wire>>

\* Mutants of WriteAcknowledged: a write is acknowledged twice; 'drain' clears
\* the pause and does not process the queue.
WriteAcknowledgedTwice ==
  /\ loop = "idle"
  /\ unacked > 0
  /\ ~sockDestroyed
  /\ unacked' = unacked - 2
  /\ UNCHANGED <<connVars, timerVars, lateDrop, inVars, loop,
                 sockVars, boundVars, sent, outgoing, wire, outputPaused>>
WriteAcknowledgedNoResume ==
  /\ loop = "idle"
  /\ unacked > 0
  /\ ~sockDestroyed
  /\ unacked' = unacked - 1
  /\ outputPaused' = (outputPaused /\ unacked > 1)
  /\ UNCHANGED <<connVars, timerVars, lateDrop, inVars, loop,
                 sockVars, boundVars, sent, outgoing, wire>>

\* afterWrite for the oldest write of a live socket. When it was the last one,
\* 'drain' runs handleSocketDrain.
WriteAcknowledged ==
  /\ loop = "idle"
  /\ unacked > 0
  /\ ~sockDestroyed
  /\ \/ /\ unacked > 1
        /\ unacked' = unacked - 1
        /\ UNCHANGED <<outgoing, outputPaused, wire>>
     \/ /\ unacked = 1
        /\ connected /\ outgoing # <<>>
        /\ outgoing' = Tail(outgoing)
        /\ wire' = Append(wire, Head(outgoing))
        /\ outputPaused' = TRUE
        /\ UNCHANGED unacked
     \/ /\ unacked = 1
        /\ ~connected \/ outgoing = <<>>
        /\ unacked' = 0
        /\ outputPaused' = FALSE
        /\ UNCHANGED <<outgoing, wire>>
  /\ UNCHANGED <<connVars, timerVars, lateDrop, inVars, loop,
                 sockVars, boundVars, sent>>

-----------------------------------------------------------------------------
(* The end of a connection.                                                *)

\* handleSocketClose, run by every 'close' event of the socket. It leaves the
\* grace period timer alone.
HandleSocketClose ==
  /\ connected' = FALSE
  /\ state' = "closed"
  /\ keepaliveTimer' = FALSE
  /\ closeTimer' = FALSE

\* The end of drop(), times times: emit 'close', then socket.destroy(), whose
\* 'close' event finds closeEventEmitted set.
HangUp(times) ==
  /\ closeEvents' = closeEvents + times
  /\ sockWritable' = FALSE
  /\ sockDestroyed' = TRUE
  /\ connected' = FALSE
  /\ keepaliveTimer' = FALSE
  /\ closeTimer' = FALSE

\* drop(). The queues are emptied before the close frame is sent; force does
\* not get past outputPaused.
Drop(code, closeFrames) ==
  /\ closeCode' = code
  /\ state' = "closed"
  /\ frameQueue' = <<>>
  /\ SendFrames(<<>>, closeFrames)
  /\ HangUp(1)

\* socket.destroy() called by somebody else, a script that kept the socket.
SocketClosed ==
  /\ loop = "idle"
  /\ ~sockDestroyed
  /\ sockDestroyed' = TRUE
  /\ sockWritable' = FALSE
  /\ HandleSocketClose
  /\ closeCode' = IF closeCode = "none" THEN "abnormal" ELSE closeCode
  /\ closeEvents' = IF closeEvents > 0 THEN closeEvents ELSE 1
  /\ UNCHANGED <<graceTimer, lateDrop, outVars, inVars, loop,
                 boundVars>>

\* The timeout of accept()'s catch.
LateDrop ==
  /\ loop = "idle"
  /\ lateDrop
  /\ lateDrop' = FALSE
  /\ Drop("abnormal", <<>>)
  /\ UNCHANGED <<graceTimer, parsed, messages, loop, boundVars>>

-----------------------------------------------------------------------------
(* Calls of the application, from a callback of its own or from its        *)
(* 'message' handler.                                                      *)

AppCall ==
  /\ loop # "parsing"
  /\ calls < MaxCalls
  /\ calls' = calls + 1
  /\ UNCHANGED <<graceTimer, lateDrop, parsed, messages, loop,
                 dropOnTimeout, chunks, pings>>

\* send(): one frame, or a message longer than fragmentationThreshold in two.
Send(n) ==
  /\ AppCall
  /\ SendFrames(outgoing, Numbered("data", n))
  /\ UNCHANGED <<connVars, keepaliveTimer, closeTimer, frameQueue, sockVars>>

\* Mutants of Close: connected stays TRUE; the keepalive timer is cleared.
CloseStaysConnected ==
  /\ AppCall
  /\ connected
  /\ closeCode' = "normal"
  /\ closeTimer' = TRUE
  /\ SendFrames(outgoing, Numbered("close", 1))
  /\ state' = "closing"
  /\ UNCHANGED <<connected, closeEvents, keepaliveTimer, frameQueue, sockVars>>
CloseStopsKeepalive ==
  /\ AppCall
  /\ connected
  /\ closeCode' = "normal"
  /\ closeTimer' = TRUE
  /\ SendFrames(outgoing, Numbered("close", 1))
  /\ state' = "closing"
  /\ connected' = FALSE
  /\ keepaliveTimer' = FALSE
  /\ UNCHANGED <<closeEvents, frameQueue, sockVars>>

\* close(). The timer is set before the frame is sent.
Close ==
  /\ AppCall
  /\ connected
  /\ closeCode' = "normal"
  /\ closeTimer' = TRUE
  /\ SendFrames(outgoing, Numbered("close", 1))
  /\ state' = "closing"
  /\ connected' = FALSE
  /\ UNCHANGED <<closeEvents, keepaliveTimer, frameQueue, sockVars>>

AppDrop ==
  /\ AppCall
  /\ Drop("dropped", Numbered("close", 1))

-----------------------------------------------------------------------------
(* Timers.                                                                 *)

\* setKeepaliveTimer.
SetKeepaliveTimer ==
  /\ keepaliveTimer' = TRUE
  /\ graceTimer' = FALSE

\* Mutant: without a grace period the keepalive timer is not set again.
HandleKeepaliveTimerOnce ==
  /\ loop = "idle"
  /\ keepaliveTimer
  /\ pings' = pings + 1
  /\ SendFrames(outgoing, Numbered("ping", 1))
  /\ keepaliveTimer' = FALSE
  /\ graceTimer' = dropOnTimeout
  /\ UNCHANGED <<connVars, closeTimer, lateDrop, inVars, loop,
                 sockVars, dropOnTimeout, calls, chunks>>

\* handleKeepaliveTimer.
HandleKeepaliveTimer ==
  /\ loop = "idle"
  /\ keepaliveTimer
  /\ dropOnTimeout \/ pings < MaxPings
  /\ pings' = pings + 1
  /\ SendFrames(outgoing, Numbered("ping", 1))
  /\ \/ /\ dropOnTimeout
        /\ keepaliveTimer' = FALSE
        /\ graceTimer' = TRUE
     \/ /\ ~dropOnTimeout
        /\ SetKeepaliveTimer
  /\ UNCHANGED <<connVars, closeTimer, lateDrop, inVars, loop,
                 sockVars, dropOnTimeout, calls, chunks>>

HandleGracePeriodTimer ==
  /\ loop = "idle"
  /\ graceTimer
  /\ graceTimer' = FALSE
  /\ Drop("abnormal", <<>>)
  /\ UNCHANGED <<lateDrop, parsed, messages, loop, boundVars>>

\* handleCloseTimer: no close response, socket.end().
HandleCloseTimer ==
  /\ loop = "idle"
  /\ closeTimer
  /\ closeTimer' = FALSE
  /\ sockWritable' = FALSE
  /\ UNCHANGED <<connVars, keepaliveTimer, graceTimer, lateDrop, outVars,
                 inVars, loop, sockDestroyed, boundVars>>

-----------------------------------------------------------------------------
(* Received data.                                                          *)

\* handleSocketData up to its loop. A connection that is no longer connected
\* buffers the chunk and parses nothing, whatever is in it.
HandleSocketData ==
  /\ loop = "idle"
  /\ ~sockDestroyed
  /\ chunks < MaxChunks
  /\ chunks' = chunks + 1
  /\ SetKeepaliveTimer
  /\ \/ /\ connected
        /\ loop' = "parsing"
     \/ /\ ~connected
        /\ UNCHANGED loop
  /\ UNCHANGED <<connVars, closeTimer, lateDrop, outVars, inVars, sockVars,
                 dropOnTimeout, calls, pings>>

\* The loop ends: no complete frame is left, or the connection is over.
LoopEnds ==
  /\ loop # "idle"
  /\ loop' = "idle"
  /\ UNCHANGED <<connVars, timerVars, lateDrop, outVars, inVars,
                 sockVars, boundVars>>

\* One turn of the loop on frame f.
Parse(f) ==
  /\ loop # "idle"
  /\ connected
  /\ Len(parsed) < MaxFrames
  /\ parsed' = Append(parsed, f)
  /\ UNCHANGED <<graceTimer, lateDrop, boundVars>>

NoMessage == UNCHANGED messages /\ loop' = "parsing"
Message(fragments) ==
  /\ messages' = Append(messages, fragments)
  /\ loop' = "handler"
Here == Len(parsed) + 1

\* The frame changes nothing but the assembly of messages.
OnlyAssembly == UNCHANGED <<connVars, keepaliveTimer, closeTimer, outVars, sockVars>>

\* Mutant: a data frame inside a fragmented message is taken as part of it.
ProcessDataNested(f) ==
  /\ Parse(f)
  /\ ~f.rsv
  /\ f.op \in {"data", "cont"}
  /\ \/ /\ f.fin
        /\ Message(Append(frameQueue, Here))
        /\ frameQueue' = <<>>
     \/ /\ ~f.fin
        /\ NoMessage
        /\ frameQueue' = Append(frameQueue, Here)
  /\ OnlyAssembly

\* processFrame, frames that assemble a message. MaxMessage is looked at when
\* a continuation arrives.
ProcessData(f) ==
  /\ Parse(f)
  /\ ~f.rsv
  /\ \/ f.op = "data" /\ frameQueue = <<>>
     \/ f.op = "cont" /\ frameQueue # <<>> /\ Len(frameQueue) < MaxMessage
  /\ \/ /\ f.fin
        /\ Message(Append(frameQueue, Here))
        /\ frameQueue' = <<>>
     \/ /\ ~f.fin
        /\ NoMessage
        /\ frameQueue' = Append(frameQueue, Here)
  /\ OnlyAssembly

\* Frames the connection is dropped for: parse errors, a data frame inside a
\* fragmented message, a continuation outside of one or one too many, an
\* unknown opcode.
ProcessIllegal(f) ==
  /\ Parse(f)
  /\ ~f.rsv
  /\ \/ f.op \in {"malformed", "unknown"}
     \/ f.op = "data" /\ frameQueue # <<>>
     \/ f.op = "cont" /\ (frameQueue = <<>> \/ Len(frameQueue) >= MaxMessage)
  /\ NoMessage
  /\ Drop("protocol", Numbered("close", 1))

ProcessPing(f) ==
  /\ Parse(f)
  /\ ~f.rsv
  /\ f.op = "ping"
  /\ NoMessage
  /\ SendFrames(outgoing, Numbered("pong", 1))
  /\ UNCHANGED <<connVars, keepaliveTimer, closeTimer, frameQueue, sockVars>>

ProcessPong(f) ==
  /\ Parse(f)
  /\ ~f.rsv
  /\ f.op = "pong"
  /\ NoMessage
  /\ OnlyAssembly
  /\ UNCHANGED frameQueue

\* Mutant: the connection stays connected after the peer's close.
ProcessCloseStaysConnected(f) ==
  /\ Parse(f)
  /\ ~f.rsv
  /\ f.op = "close"
  /\ NoMessage
  /\ state' = "closing"
  /\ closeCode' = "peer"
  /\ SendFrames(outgoing, Numbered("close", 1))
  /\ sockWritable' = FALSE
  /\ UNCHANGED <<connected, closeEvents, keepaliveTimer, closeTimer,
                 frameQueue, sockDestroyed>>

\* The peer closes: the response is queued, socket.end(). The branch for a
\* close response is not here: waitingForCloseResponse is set together with
\* connected = FALSE, which ends the loop.
ProcessClose(f) ==
  /\ Parse(f)
  /\ ~f.rsv
  /\ f.op = "close"
  /\ NoMessage
  /\ state' = "closing"
  /\ closeCode' = "peer"
  /\ SendFrames(outgoing, Numbered("close", 1))
  /\ sockWritable' = FALSE
  /\ connected' = FALSE
  /\ UNCHANGED <<closeEvents, keepaliveTimer, closeTimer, frameQueue,
                 sockDestroyed>>

\* A frame with RSV bits: drop(), and then processFrame all the same, which
\* finds an empty frameQueue and a connection that writes nothing any more.
ProcessReserved(f) ==
  /\ Parse(f)
  /\ f.rsv
  /\ IF f.op \in {"cont", "unknown"} THEN HangUp(2) ELSE HangUp(1)
  /\ SendFrames(<<>>, Numbered("close", 1))
  /\ IF f.op = "data" /\ f.fin THEN Message(<<Here>>) ELSE NoMessage
  /\ frameQueue' = IF f.op = "data" /\ ~f.fin THEN <<Here>> ELSE <<>>
  /\ closeCode' = IF f.op = "close" THEN "peer" ELSE "protocol"
  /\ state' = IF f.op = "close" THEN "closing" ELSE "closed"

Process(f) ==
  \/ ProcessData(f)
  \/ ProcessIllegal(f)
  \/ ProcessPing(f)
  \/ ProcessPong(f)
  \/ ProcessClose(f)
  \/ ProcessReserved(f)
-----------------------------------------------------------------------------
Application == (\E n \in 1 .. 2 : Send(n)) \/ Close \/ AppDrop
Timers == HandleKeepaliveTimer \/ HandleGracePeriodTimer \/ HandleCloseTimer
          \/ LateDrop

Next ==
  \/ Application
  \/ Timers
  \/ WriteAcknowledged
  \/ SocketClosed
  \/ HandleSocketData
  \/ LoopEnds
  \/ \E f \in InFrame : Process(f)

\* Timeouts that are pending expire, the socket acknowledges its writes
\* (WriteChannel) and a loop over a finite buffer ends. Nothing obliges the
\* application to call or the peer to send.
Fairness ==
  /\ WF_vars(HandleKeepaliveTimer)
  /\ WF_vars(HandleGracePeriodTimer)
  /\ WF_vars(HandleCloseTimer)
  /\ WF_vars(LateDrop)
  /\ WF_vars(WriteAcknowledged)
  /\ WF_vars(LoopEnds)

Spec == Init /\ [][Next]_vars
FairSpec == Spec /\ Fairness

-----------------------------------------------------------------------------
(* Properties.                                                             *)

\* While the socket is alive exactly one of the keepalive and grace period
\* timers is pending, so a silent peer is always noticed, whatever order data,
\* timeouts and calls come in (setKeepaliveTimer, setGracePeriodTimer).
OneKeepaliveTimer == ~sockDestroyed => (keepaliveTimer # graceTimer)

\* Output is paused only while a write is outstanding whose acknowledgement
\* will resume it, and an open connection that is not paused has nothing to
\* send (sendFrame, handleSocketDrain).
PauseIsLifted ==
  /\ outputPaused /\ ~sockDestroyed => unacked > 0
  /\ ~outputPaused /\ connected => outgoing = <<>>

\* Frames reach the socket in the order sendFrame got them, and none is
\* skipped while the connection is open.
FramesInOrder ==
  LET all == wire \o outgoing
  IN connected /\ ~lateDrop =>
       /\ Len(all) = sent
       /\ \A i \in 1 .. Len(all) : all[i].id = i

\* A close frame is the last frame written: no data, ping or pong follows it
\* and it is not sent twice (close, drop, and both branches of processFrame).
CloseFrameIsLast ==
  \A i \in 1 .. Len(wire) : wire[i].op = "close" => i = Len(wire) /\ ~connected

\* The connection never writes on a socket it has ended or that is destroyed,
\* where libuv would refuse the write and never acknowledge it (module
\* TcpBridge, UvWrite).
NeverWritesAfterEnd == [][wire' # wire => sockWritable]_vars

\* Every message delivered is the fragments of one message, complete, in
\* order and within maxReceivedMessageSize; only control frames come between
\* its fragments.
WholeMessages ==
  \A k \in 1 .. Len(messages) :
    LET m == messages[k]
        last == m[Len(m)]
    IN /\ Len(m) \in 1 .. (IF MaxMessage > 1 THEN MaxMessage ELSE 1)
       /\ parsed[m[1]].op = "data"
       /\ parsed[last].fin
       /\ \A i \in 2 .. Len(m) : m[i - 1] < m[i] /\ ~parsed[m[i - 1]].fin
       /\ \A j \in m[1] + 1 .. last :
            parsed[j].op = "cont" <=> \E i \in 2 .. Len(m) : m[i] = j
       /\ \A j \in m[1] + 1 .. last : parsed[j].op # "data"

\* A connection that is no longer connected ends in a 'close' event, on which
\* WebSocketServer forgets it (handleConnectionClose): the end of the TCP
\* stream is never seen, so this takes the keepalive and grace period timers and
\* holds only where dropConnectionOnKeepaliveTimeout is set.
EveryEndIsReported == ~connected /\ dropOnTimeout ~> closeEvents > 0

\* What is queued on an open connection is written, or the connection ends.
QueueIsFlushed == outgoing # <<>> ~> outgoing = <<>> \/ ~connected
=============================================================================
