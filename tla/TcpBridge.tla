------------------------------ MODULE TcpBridge ------------------------------
(***************************************************************************)
(* The bridge between the page's JavaScript thread and the libuv worker    *)
(* thread, for sockets that are already connected:                         *)
(*                                                                         *)
(*   - net.js runs on the main thread and calls methods of a TCPWrap; each *)
(*     call is pushed on invoke_queue and the worker is woken with         *)
(*     uv_async_send (tcp_wrap.cpp, TCPWrap::Invoke);                      *)
(*   - the worker drains the queue (invoke_worker_thread) and starts uv    *)
(*     operations; libuv completes them on the worker (deps/uv/src/win);   *)
(*   - completions are posted back with NPN_PluginThreadAsyncCall, a FIFO  *)
(*     of callbacks the main thread runs between two pieces of script      *)
(*     (ScriptableObject.cpp, fireCallback and ExecuteCallback).           *)
(*                                                                         *)
(* One atomic step of the main thread is what runs until the next          *)
(* uv_async_send: the worker may run between the push and the wake-up.     *)
(* Pushing and popping invoke_queue are atomic here; module InvokeDeque    *)
(* takes them apart.                                                       *)
(***************************************************************************)
EXTENDS Integers, Sequences, Selection

CONSTANTS
  Handles,       \* the TCPWrap objects of the accepted connections
  MaxCalls,      \* bound: calls the script makes on its sockets
  MaxReads,      \* bound: chunks of data that arrive
  SendMayFail,   \* TRUE: a connection may break, and WSASend fail from then on
  WriteAfterEnd  \* TRUE: the script may write on a socket it has ended

ASSUME BridgeAssumption ==
  /\ MaxCalls \in Nat
  /\ MaxReads \in Nat
  /\ SendMayFail \in BOOLEAN
  /\ WriteAfterEnd \in BOOLEAN

VARIABLES
  \* net.js, class Socket (main thread)
  writable,       \* socket.writable
  destroySoon,    \* FLAG_DESTROY_SOON of socket._flags
  destroyed,      \* socket.destroyed; destroy() has set socket._handle to null
  writeRequests,  \* socket._writeRequests
  bytesRead,      \* socket.bytesRead, in chunks
  \* the two queues and the wake-up between the threads
  invokeQueue,    \* invoke_queue
  waking,         \* the main thread is between the push and uv_async_send
  asyncSent,      \* async_handle.async_sent
  wakeups,        \* completion packets of async_handle posted to the loop
  draining,       \* the worker is inside invoke_worker_thread
  callbacks,      \* calls posted with NPN_PluginThreadAsyncCall
  \* libuv's uv_tcp_t (worker thread)
  flags,          \* handle->flags
  reqsPending,    \* handle->reqs_pending
  writing,        \* overlapped sends the kernel has not completed
  broken,         \* WSASend has failed
  freed,          \* OnClose has deleted the TCPWrap
  \* bounds and the end of the process
  calls,          \* calls made by the script so far; also numbers the writes
  reads,          \* chunks received so far
  crashed         \* a use of freed memory has taken the process down

jsVars     == <<writable, destroySoon, destroyed, writeRequests, bytesRead>>
wakeVars   == <<asyncSent, wakeups, draining>>
uvVars     == <<flags, reqsPending, writing, broken, freed>>
boundVars  == <<calls, reads, crashed>>
vars == <<jsVars, invokeQueue, waking, wakeVars, callbacks, uvVars, boundVars>>

Methods == {"write", "shutdown", "close", "readStart", "readStop"}
Flag == {"READING", "READ_PENDING", "EOF", "SHUTTING", "SHUT", "CLOSING",
         "ENDGAME_QUEUED"}
Invocation == [method : Methods, object : Handles, req : Nat]
Callback   == [name : {"onread", "oncomplete"}, object : Handles, req : Nat]

TypeOK ==
  /\ writable \in [Handles -> BOOLEAN]
  /\ destroySoon \in [Handles -> BOOLEAN]
  /\ destroyed \in [Handles -> BOOLEAN]
  /\ writeRequests \in [Handles -> Seq(Nat)]
  /\ bytesRead \in [Handles -> Nat]
  /\ invokeQueue \in Seq(Invocation)
  /\ waking \in BOOLEAN
  /\ asyncSent \in BOOLEAN
  /\ wakeups \in Nat
  /\ draining \in BOOLEAN
  /\ callbacks \in Seq(Callback)
  /\ flags \in [Handles -> SUBSET Flag]
  /\ reqsPending \in [Handles -> Int]
  /\ writing \in [Handles -> Seq(Nat)]
  /\ broken \in [Handles -> BOOLEAN]
  /\ freed \in [Handles -> BOOLEAN]
  /\ calls \in Nat
  /\ reads \in Nat
  /\ crashed \in BOOLEAN

\* onconnection() has built each Socket and called resume() on it; nothing
\* has reached the worker yet but those readStart calls.
Init ==
  /\ writable = [h \in Handles |-> TRUE]
  /\ destroySoon = [h \in Handles |-> FALSE]
  /\ destroyed = [h \in Handles |-> FALSE]
  /\ writeRequests = [h \in Handles |-> <<>>]
  /\ bytesRead = [h \in Handles |-> 0]
  /\ invokeQueue = <<>>
  /\ waking = FALSE
  /\ asyncSent = FALSE
  /\ wakeups = 0
  /\ draining = FALSE
  /\ callbacks = <<>>
  /\ flags = [h \in Handles |-> {"READING", "READ_PENDING"}]
  /\ reqsPending = [h \in Handles |-> 1]
  /\ writing = [h \in Handles |-> <<>>]
  /\ broken = [h \in Handles |-> FALSE]
  /\ freed = [h \in Handles |-> FALSE]
  /\ calls = 0
  /\ reads = 0
  /\ crashed = FALSE

-----------------------------------------------------------------------------
(* Main thread: script calls.                                              *)

\* TCPWrap::Invoke up to invoke_queue.push.
Invoke(method, h, r) ==
  /\ invokeQueue' = Append(invokeQueue,
                           [method |-> method, object |-> h, req |-> r])
  /\ waking' = TRUE

\* The rest of TCPWrap::Invoke. async_sent makes a wake-up that is already
\* on its way serve this call too.
AsyncSend ==
  /\ waking
  /\ ~crashed
  /\ waking' = FALSE
  /\ asyncSent' = TRUE
  /\ wakeups' = IF asyncSent THEN wakeups ELSE wakeups + 1
  /\ UNCHANGED <<jsVars, invokeQueue, draining, callbacks, uvVars, boundVars>>

JsIdle == ~waking /\ ~crashed

ScriptCall ==
  /\ JsIdle
  /\ calls < MaxCalls
  /\ calls' = calls + 1
  /\ UNCHANGED <<wakeVars, callbacks, uvVars, bytesRead, reads, crashed>>

\* Socket.write. It does not look at socket.writable; on a destroyed socket
\* it throws, because _handle is null.
Write(h) ==
  /\ Invoke("write", h, calls + 1)
  /\ writeRequests' = [writeRequests EXCEPT ![h] = Append(@, calls + 1)]

SocketWrite(h) ==
  /\ ScriptCall
  /\ ~destroyed[h]
  /\ writable[h] \/ WriteAfterEnd
  /\ Write(h)
  /\ UNCHANGED <<writable, destroySoon, destroyed>>

\* Socket.end. FLAG_GOT_EOF is never set (see the README), so the call
\* always takes the shutdown branch. end(data) is SocketWrite, then SocketEnd.
\* TCPWrap::init never sets shutdown_func: whether HasMethod finds "shutdown"
\* depends on what the new object's memory held. When it does not, the call
\* throws with writable already FALSE. end() asks at most once for a socket, so
\* choosing at the call is choosing at the object's creation.
SocketEnd(h) ==
  /\ ScriptCall
  /\ writable[h]
  /\ writable' = [writable EXCEPT ![h] = FALSE]
  /\ \/ Invoke("shutdown", h, 0)
     \/ UNCHANGED <<invokeQueue, waking>>
  /\ UNCHANGED <<destroySoon, destroyed, writeRequests>>

\* Socket.pause and Socket.resume.
SocketPause(h) ==
  /\ ScriptCall
  /\ ~destroyed[h]
  /\ Invoke("readStop", h, 0)
  /\ UNCHANGED <<writable, destroySoon, destroyed, writeRequests>>

SocketResume(h) ==
  /\ ScriptCall
  /\ ~destroyed[h]
  /\ Invoke("readStart", h, 0)
  /\ UNCHANGED <<writable, destroySoon, destroyed, writeRequests>>

\* Mutant: destroy() closes the handle again when it is called twice.
DestroyClosesTwice(h) ==
  /\ writable' = [writable EXCEPT ![h] = FALSE]
  /\ destroyed' = [destroyed EXCEPT ![h] = TRUE]
  /\ Invoke("close", h, 0)

\* Socket.destroy: the handle is closed once, by the call that still finds it.
Destroy(h) ==
  /\ writable' = [writable EXCEPT ![h] = FALSE]
  /\ destroyed' = [destroyed EXCEPT ![h] = TRUE]
  /\ IF destroyed[h] THEN UNCHANGED <<invokeQueue, waking>>
                     ELSE Invoke("close", h, 0)

SocketDestroy(h) ==
  /\ ScriptCall
  /\ Destroy(h)
  /\ UNCHANGED <<destroySoon, writeRequests>>

\* Socket.destroySoon: at once when no write is outstanding, otherwise the
\* last afterWrite destroys the socket.
SocketDestroySoon(h) ==
  /\ ScriptCall
  /\ destroySoon' = [destroySoon EXCEPT ![h] = TRUE]
  /\ \/ /\ writeRequests[h] = <<>>
        /\ Destroy(h)
     \/ /\ writeRequests[h] # <<>>
        /\ writable' = [writable EXCEPT ![h] = FALSE]
        /\ UNCHANGED <<destroyed, invokeQueue, waking>>
  /\ UNCHANGED writeRequests

-----------------------------------------------------------------------------
(* Main thread: callbacks posted by the worker.                            *)

\* ExecuteCallback takes the oldest posted call. It calls the object
\* directly, whether or not OnClose has deleted it in the meantime.
TakeCallback(name) ==
  /\ JsIdle
  /\ callbacks # <<>>
  /\ Head(callbacks).name = name
  /\ callbacks' = Tail(callbacks)
  /\ UNCHANGED <<wakeVars, uvVars, reads, crashed>>

\* net.js onread. After destroy() the assertion on _handle throws before
\* anything is delivered.
OnreadCallback ==
  /\ TakeCallback("onread")
  /\ LET h == Head(callbacks).object
     IN bytesRead' = [bytesRead EXCEPT ![h] = IF destroyed[h] THEN @ ELSE @ + 1]
  /\ UNCHANGED <<writable, destroySoon, destroyed, writeRequests, invokeQueue,
                 waking, calls>>

\* Mutants of Acknowledge: the request is taken with pop() instead of shift();
\* FLAG_DESTROY_SOON is not looked at.
AcknowledgeNewest(h, r) ==
  /\ writeRequests' = [writeRequests EXCEPT ![h] = SubSeq(@, 1, Len(@) - 1)]
  /\ UNCHANGED <<writable, destroyed, invokeQueue, waking, calls>>
AcknowledgeOnly(h, r) ==
  /\ writeRequests' = [writeRequests EXCEPT ![h] = Tail(@)]
  /\ UNCHANGED <<writable, destroyed, invokeQueue, waking, calls>>

\* net.js afterWrite for request r of socket h: the oldest request is shifted
\* and must be r, or the assertion throws and nothing else happens. When it
\* was the last one, 'drain' handlers may write again; if none does and
\* destroySoon was called, the socket is destroyed.
Acknowledge(h, r) ==
  LET last == Len(writeRequests[h]) = 1
  IN \/ /\ \/ Head(writeRequests[h]) # r
           \/ ~last
           \/ ~destroySoon[h]
        /\ writeRequests' = [writeRequests EXCEPT ![h] = Tail(@)]
        /\ UNCHANGED <<writable, destroyed, invokeQueue, waking, calls>>
     \/ /\ Head(writeRequests[h]) = r
        /\ last
        /\ destroySoon[h]
        /\ writeRequests' = [writeRequests EXCEPT ![h] = <<>>]
        /\ Destroy(h)
        /\ UNCHANGED calls
     \/ /\ Head(writeRequests[h]) = r
        /\ last
        /\ writable[h] \/ WriteAfterEnd
        /\ calls < MaxCalls
        /\ calls' = calls + 1
        /\ Invoke("write", h, calls + 1)
        /\ writeRequests' = [writeRequests EXCEPT ![h] = <<calls + 1>>]
        /\ UNCHANGED <<writable, destroyed>>

OncompleteCallback ==
  /\ TakeCallback("oncomplete")
  /\ LET c == Head(callbacks)
     IN \/ /\ destroyed[c.object]
           /\ UNCHANGED <<writable, destroyed, writeRequests, invokeQueue,
                          waking, calls>>
        \/ /\ ~destroyed[c.object]
           /\ writeRequests[c.object] # <<>>
           /\ Acknowledge(c.object, c.req)
  /\ UNCHANGED <<destroySoon, bytesRead>>

\* The callback names a deleted TCPWrap. What the freed memory holds decides
\* whether it works as before (the two actions above) or the process dies.
CallbackOnFreedObject ==
  /\ JsIdle
  /\ callbacks # <<>>
  /\ freed[Head(callbacks).object]
  /\ crashed' = TRUE
  /\ UNCHANGED <<jsVars, invokeQueue, waking, wakeVars, callbacks, uvVars,
                 calls, reads>>

-----------------------------------------------------------------------------
(* Worker thread: the wake-up and the queue of invocations.                *)

Worker == ~crashed /\ UNCHANGED <<jsVars, waking, calls, crashed>>

\* Mutants of AsyncWakeup: it also runs without a packet; async_sent is not
\* cleared.
AsyncWakeupUnasked ==
  /\ Worker
  /\ ~draining
  /\ wakeups' = wakeups - 1
  /\ asyncSent' = FALSE
  /\ draining' = TRUE
  /\ UNCHANGED <<invokeQueue, callbacks, uvVars, reads>>
AsyncWakeupNoReset ==
  /\ Worker
  /\ ~draining
  /\ wakeups > 0
  /\ wakeups' = wakeups - 1
  /\ draining' = TRUE
  /\ UNCHANGED <<asyncSent, invokeQueue, callbacks, uvVars, reads>>

\* uv_process_async_wakeup_req clears async_sent, then calls
\* invoke_worker_thread.
AsyncWakeup ==
  /\ Worker
  /\ ~draining
  /\ wakeups > 0
  /\ wakeups' = wakeups - 1
  /\ asyncSent' = FALSE
  /\ draining' = TRUE
  /\ UNCHANGED <<invokeQueue, callbacks, uvVars, reads>>

\* uv_tcp_read_start.
UvReadStart(h) ==
  /\ \/ /\ flags[h] \cap {"READING", "EOF"} # {}
        /\ UNCHANGED <<flags, reqsPending>>
     \/ /\ flags[h] \cap {"READING", "EOF"} = {}
        /\ flags' = [flags EXCEPT ![h] = @ \cup {"READING", "READ_PENDING"}]
        /\ reqsPending' = [reqsPending EXCEPT
              ![h] = IF "READ_PENDING" \in flags[h] THEN @ ELSE @ + 1]
  /\ UNCHANGED <<writing, broken, freed>>

\* uv_read_stop.
UvReadStop(h) ==
  /\ flags' = [flags EXCEPT ![h] = @ \ {"READING"}]
  /\ UNCHANGED <<reqsPending, writing, broken, freed>>

\* Mutant: the pending request of a write is not counted.
UvWriteUncounted(h, r) ==
  /\ writing' = [writing EXCEPT ![h] = Append(@, r)]
  /\ UNCHANGED <<reqsPending, flags, broken, freed>>

\* TCPWrap::write and uv_tcp_write. TCPWrap::write drops the result, so a
\* write libuv refuses is never completed: one behind a shutdown, and one whose
\* WSASend fails, as every later one on that connection does.
UvWrite(h, r) ==
  /\ \/ /\ "SHUTTING" \in flags[h]
        /\ UNCHANGED <<writing, reqsPending, broken>>
     \/ /\ "SHUTTING" \notin flags[h]
        /\ broken[h] \/ SendMayFail
        /\ broken' = [broken EXCEPT ![h] = TRUE]
        /\ UNCHANGED <<writing, reqsPending>>
     \/ /\ "SHUTTING" \notin flags[h]
        /\ ~broken[h]
        /\ UNCHANGED broken
        /\ writing' = [writing EXCEPT ![h] = Append(@, r)]
        /\ reqsPending' = [reqsPending EXCEPT ![h] = @ + 1]
  /\ UNCHANGED <<flags, freed>>

\* uv_shutdown. Its check for a second shutdown never finds one: end() asks
\* once.
UvShutdown(h) ==
  /\ flags' = [flags EXCEPT ![h] = @ \cup {"SHUTTING", "ENDGAME_QUEUED"}]
  /\ reqsPending' = [reqsPending EXCEPT ![h] = @ + 1]
  /\ UNCHANGED <<writing, broken, freed>>

\* Mutant: a handle without pending requests is not put on the list of endgames.
UvCloseWaits(h) ==
  /\ flags' = [flags EXCEPT ![h] =
                 (@ \ {"READING"}) \cup {"CLOSING", "SHUT"}]
  /\ UNCHANGED <<reqsPending, writing, broken, freed>>

\* uv_close. Its check for a handle already closing never finds one
\* (CloseIsLast).
UvClose(h) ==
  /\ flags' = [flags EXCEPT ![h] =
                 (@ \ {"READING"}) \cup {"CLOSING", "SHUT"} \cup
                 (IF reqsPending[h] = 0 THEN {"ENDGAME_QUEUED"} ELSE {})]
  /\ UNCHANGED <<reqsPending, writing, broken, freed>>

\* Mutant: one invocation per wake-up instead of the whole queue.
WorkerInvokeOne ==
  /\ Worker
  /\ draining
  /\ invokeQueue # <<>>
  /\ invokeQueue' = Tail(invokeQueue)
  /\ LET i == Head(invokeQueue)
     IN \/ i.method = "readStart" /\ UvReadStart(i.object)
        \/ i.method = "readStop" /\ UvReadStop(i.object)
        \/ i.method = "write" /\ UvWrite(i.object, i.req)
        \/ i.method = "shutdown" /\ UvShutdown(i.object)
        \/ i.method = "close" /\ UvClose(i.object)
  /\ draining' = FALSE
  /\ UNCHANGED <<asyncSent, wakeups, callbacks, reads>>

\* One turn of the loop of invoke_worker_thread: the oldest invocation.
WorkerInvoke ==
  /\ Worker
  /\ draining
  /\ invokeQueue # <<>>
  /\ invokeQueue' = Tail(invokeQueue)
  /\ LET i == Head(invokeQueue)
     IN \/ i.method = "readStart" /\ UvReadStart(i.object)
        \/ i.method = "readStop" /\ UvReadStop(i.object)
        \/ i.method = "write" /\ UvWrite(i.object, i.req)
        \/ i.method = "shutdown" /\ UvShutdown(i.object)
        \/ i.method = "close" /\ UvClose(i.object)
  /\ UNCHANGED <<wakeVars, callbacks, reads>>

\* Mutant: async_sent is cleared when invoke_worker_thread returns.
WorkerReturnResets ==
  /\ Worker
  /\ draining
  /\ invokeQueue = <<>>
  /\ draining' = FALSE
  /\ asyncSent' = FALSE
  /\ UNCHANGED <<invokeQueue, wakeups, callbacks, uvVars, reads>>

\* invoke_worker_thread finds the queue empty and returns to the loop.
WorkerReturn ==
  /\ Worker
  /\ draining
  /\ invokeQueue = <<>>
  /\ draining' = FALSE
  /\ UNCHANGED <<invokeQueue, asyncSent, wakeups, callbacks, uvVars, reads>>

-----------------------------------------------------------------------------
(* Worker thread: libuv completes operations while it is not draining.     *)

Loop ==
  /\ Worker
  /\ ~draining
  /\ UNCHANGED <<invokeQueue, wakeVars>>

\* DECREASE_PENDING_REQ_COUNT, with f the flags as they are by then.
DecreasePending(h, f) ==
  /\ reqsPending' = [reqsPending EXCEPT ![h] = @ - 1]
  /\ flags' = [flags EXCEPT ![h] =
                 IF "CLOSING" \in f /\ reqsPending[h] = 1
                 THEN f \cup {"ENDGAME_QUEUED"} ELSE f]

\* fireCallback on the worker.
FireCallback(name, h, r) ==
  callbacks' = Append(callbacks, [name |-> name, object |-> h, req |-> r])

\* Data arrives while reading: OnRead posts it and libuv reads on.
ReadData(h) ==
  /\ Loop
  /\ {"READ_PENDING", "READING"} \subseteq flags[h]
  /\ reads < MaxReads
  /\ reads' = reads + 1
  /\ FireCallback("onread", h, 0)
  /\ UNCHANGED uvVars

\* The peer closes or resets the connection while reading: OnRead ignores a
\* negative nread.
ReadEnd(h, eof) ==
  /\ Loop
  /\ {"READ_PENDING", "READING"} \subseteq flags[h]
  /\ DecreasePending(h, (flags[h] \ {"READ_PENDING", "READING"}) \cup eof)
  /\ UNCHANGED <<callbacks, writing, broken, freed, reads>>

\* The pending zero-byte read completes after readStop or close: no callback.
ReadIgnored(h) ==
  /\ Loop
  /\ "READ_PENDING" \in flags[h]
  /\ "READING" \notin flags[h]
  /\ DecreasePending(h, flags[h] \ {"READ_PENDING"})
  /\ UNCHANGED <<callbacks, writing, broken, freed, reads>>

\* uv_process_tcp_write_req: the oldest send completes (or was aborted by
\* closesocket) and OnWrite posts oncomplete.
WriteDone(h) ==
  /\ Loop
  /\ writing[h] # <<>>
  /\ FireCallback("oncomplete", h, Head(writing[h]))
  /\ writing' = [writing EXCEPT ![h] = Tail(@)]
  /\ DecreasePending(h, IF "SHUTTING" \in flags[h] /\ Len(writing[h]) = 1
                        THEN flags[h] \cup {"ENDGAME_QUEUED"} ELSE flags[h])
  /\ UNCHANGED <<broken, freed, reads>>

\* uv_tcp_endgame: finish a shutdown whose writes are done (the call may fail;
\* OnShutdown does nothing), or close a handle without pending requests
\* (OnClose deletes the TCPWrap), or nothing yet.
Endgame(h) ==
  LET rest == flags[h] \ {"ENDGAME_QUEUED"}
      shutdownDue == /\ "SHUTTING" \in rest
                     /\ "SHUT" \notin rest
                     /\ writing[h] = <<>>
      closeDue == "CLOSING" \in rest /\ reqsPending[h] = 0
  IN /\ Loop
     /\ "ENDGAME_QUEUED" \in flags[h]
     /\ \/ /\ shutdownDue
           /\ \E shut \in {{}, {"SHUT"}} : DecreasePending(h, rest \cup shut)
           /\ UNCHANGED freed
        \/ /\ ~shutdownDue
           /\ closeDue
           /\ freed' = [freed EXCEPT ![h] = TRUE]
           /\ flags' = [flags EXCEPT ![h] = rest]
           /\ UNCHANGED reqsPending
        \/ /\ ~shutdownDue
           /\ ~closeDue
           /\ flags' = [flags EXCEPT ![h] = rest]
           /\ UNCHANGED <<reqsPending, freed>>
     /\ UNCHANGED <<callbacks, writing, broken, reads>>

-----------------------------------------------------------------------------
Script(h) ==
  \/ SocketWrite(h)
  \/ SocketEnd(h)
  \/ SocketPause(h)
  \/ SocketResume(h)
  \/ SocketDestroy(h)
  \/ SocketDestroySoon(h)

Kernel(h) ==
  \/ ReadData(h)
  \/ \E eof \in {{}, {"EOF"}} : ReadEnd(h, eof)
  \/ ReadIgnored(h)
  \/ WriteDone(h)

Next ==
  \/ \E h \in Handles : Script(h) \/ Kernel(h) \/ Endgame(h)
  \/ AsyncSend
  \/ OnreadCallback
  \/ OncompleteCallback
  \/ CallbackOnFreedObject
  \/ AsyncWakeup
  \/ WorkerInvoke
  \/ WorkerReturn

\* What the system does on its own. The main thread returns from Invoke and
\* runs posted calls; uv_run serves completion packets and endgames; the
\* kernel completes every send (the peer reads, or the connection breaks) and
\* aborts the pending read of a closed socket. Nothing obliges the script to
\* call, data to arrive or a peer to hang up.
Fairness ==
  /\ WF_vars(AsyncSend)
  /\ WF_vars(AsyncWakeup)
  /\ WF_vars(WorkerInvoke)
  /\ WF_vars(WorkerReturn)
  /\ WF_vars(OnreadCallback \/ OncompleteCallback)
  /\ \A h \in Handles : /\ WF_vars(WriteDone(h))
                        /\ WF_vars(Endgame(h))
                        /\ WF_vars("CLOSING" \in flags[h] /\ ReadIgnored(h))

Spec == Init /\ [][Next]_vars
FairSpec == Spec /\ Fairness

-----------------------------------------------------------------------------
(* Properties.                                                             *)

\* An invocation waiting in invoke_queue is never forgotten: the main thread
\* is about to wake the worker, a wake-up is on its way, or the worker is
\* draining the queue (tcp_wrap.cpp:218-232, uv_async_send).
NoLostWakeup ==
  invokeQueue # <<>> => waking \/ wakeups > 0 \/ draining

\* async_req, the one request of the async handle, is posted to the completion
\* port at most once at a time, exactly while async_sent is set
\* (deps/uv/src/win/async.c:107).
OneWakeupInFlight == wakeups = IF asyncSent THEN 1 ELSE 0

\* The worker never dispatches an invocation to a TCPWrap that OnClose has
\* deleted (params->object, tcp_wrap.cpp:238): close is the last invocation a
\* socket pushes and a handle is not deleted before its close has run.
InvokeTargetAlive ==
  \A i \in DOMAIN invokeQueue : ~freed[invokeQueue[i].object]

\* Why InvokeTargetAlive holds, as an inductive invariant: destroy() pushes the
\* one close of a socket, nothing is pushed for the socket after it, and only a
\* close that has run lets libuv delete the handle.
CloseIsLast ==
  /\ \A h \in Handles :
       /\ destroyed[h] => ~writable[h]
       /\ freed[h] => "CLOSING" \in flags[h]
       /\ "CLOSING" \in flags[h] =>
            /\ destroyed[h]
            /\ \A i \in 1 .. Len(invokeQueue) : invokeQueue[i].object # h
  /\ \A i \in 1 .. Len(invokeQueue) : invokeQueue[i].method = "close" =>
       /\ destroyed[invokeQueue[i].object]
       /\ \A j \in i + 1 .. Len(invokeQueue) :
            invokeQueue[j].object # invokeQueue[i].object

Reqs(entries) == [i \in DOMAIN entries |-> entries[i].req]
Completions(h) == [name : {"oncomplete"}, object : {h}, req : Nat]
QueuedWrites(h) == [method : {"write"}, object : {h}, req : Nat]
Acked(h) == Reqs(Select(callbacks, Completions(h)))
Queued(h) == Reqs(Select(invokeQueue, QueuedWrites(h)))

\* The completions of a live socket, posted or still in the kernel, are the
\* oldest entries of its _writeRequests in the same order, so the assertion of
\* afterWrite (net.js:399) holds whatever the script and libuv do.
CompletionsMatchRequests ==
  \A h \in Handles : ~destroyed[h] =>
    LET due == Acked(h) \o writing[h]
    IN /\ Len(due) <= Len(writeRequests[h])
       /\ due = SubSeq(writeRequests[h], 1, Len(due))

\* DECREASE_PENDING_REQ_COUNT never finds reqs_pending at zero
\* (deps/uv/src/win/internal.h:82) and a handle is not deleted while the
\* kernel still owns one of its requests.
RequestsCounted ==
  \A h \in Handles :
    /\ reqsPending[h] >= Len(writing[h]) +
                         (IF "READ_PENDING" \in flags[h] THEN 1 ELSE 0)
    /\ freed[h] => reqsPending[h] = 0

\* The bridge keeps the promise of WriteChannel, when sends do not fail and
\* the script does not write on an ended socket. A write is outstanding while
\* it is in one of the three stages of the bridge.
Outstanding(h) ==
  IF destroyed[h] THEN <<>> ELSE Acked(h) \o writing[h] \o Queued(h)

Channel == INSTANCE WriteChannel WITH
  Sockets <- Handles,
  Writes <- 1 .. MaxCalls,
  open <- [h \in Handles |-> ~destroyed[h]],
  outstanding <- [h \in Handles |-> Outstanding(h)],
  down <- crashed

WritesAcknowledgedInOrder == Channel!Spec

\* After destroySoon() the socket is destroyed once its writes are
\* acknowledged (net.js:218-225 and 409).
DestroySoonDestroys ==
  \A h \in Handles : destroySoon[h] ~> destroyed[h] \/ crashed

\* uv_close leads to OnClose, which deletes the TCPWrap (uv.h:360), for a
\* socket on which no shutdown was started: every request still pending then
\* comes back and the last one queues the endgame. (A shutdown that uv_close
\* overtakes never does, and leaks the handle: see the README.)
CloseCallsBack ==
  \A h \in Handles :
    "CLOSING" \in flags[h] /\ "SHUTTING" \notin flags[h]
      ~> freed[h] \/ crashed
=============================================================================
