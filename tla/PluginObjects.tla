--------------------------- MODULE PluginObjects ---------------------------
(***************************************************************************)
(* Who keeps the plugin's objects alive. Sockets (TCPWrap), buffers        *)
(* (BufferWrap), write and shutdown requests (WriteReq, ShutdownReq) and   *)
(* the browser's stand-ins for JavaScript functions are NPObjects with a   *)
(* reference count (npruntime.h). The page, the plugin's main thread and   *)
(* the libuv worker pass bare pointers to them; the worker keeps pointers  *)
(* to a request, and into the bytes it writes, while the kernel owns them. *)
(*                                                                         *)
(* The browser holds one reference for each object the page has a wrapper  *)
(* of, and gives it back when the wrapper is collected. An object returned *)
(* to the page is wrapped and the reference that came with it given back.  *)
(* Posted callbacks run in any order here; TcpBridge has their FIFO.       *)
(* Left out: reads of handle.socket and req.cb, which give the page a      *)
(* reference that GetProperty has not taken (npruntime.h:304-308); their   *)
(* counts end too low, and the socket's is not relied on (OnClose).        *)
(***************************************************************************)
EXTENDS Integers, FiniteSets

CONSTANTS
  Sockets,    \* TCPWrap objects
  Buffers,    \* BufferWrap objects
  Requests,   \* WriteReq and ShutdownReq objects
  Functions,  \* JavaScript functions given to the plugin
  Nothing,    \* no function, no request: the blank NPObject
  String,     \* the payload of a write that is a string
  Shutdown    \* the payload of a shutdown

Objects == Sockets \cup Buffers \cup Requests
Kept == Objects \cup Functions
Payloads == Buffers \cup {String, Shutdown}

ASSUME ObjectsAssumption ==
  /\ IsFiniteSet(Sockets)
  /\ IsFiniteSet(Requests)
  /\ Sockets \cap Buffers = {} /\ Sockets \cap Requests = {}
  /\ Buffers \cap Requests = {} /\ Functions \cap Objects = {}
  /\ {Nothing, String, Shutdown} \cap Kept = {}
  /\ Nothing # String /\ Nothing # Shutdown /\ String # Shutdown

VARIABLES
  refs,       \* NPObject.referenceCount
  born,       \* objects NPN_CreateObject has made
  deleted,    \* objects whose memory has been given back
  page,       \* objects the page holds a wrapper of
  callback,   \* onread_callback of a socket, oncomplete_callback of a request
  payload,    \* what a request writes; Nothing before the request is made
  owner,      \* WriteReq.socket
  copied,     \* requests whose copy of a string has not been freed
  stage,      \* where a request is
  inOnWrite,  \* the request OnWrite has posted and not yet looked at again
  closing,    \* sockets whose close is queued
  destroyed   \* buffers the page has called destroy() on

vars == <<refs, born, deleted, page, callback, payload, owner, copied, stage,
          inOnWrite, closing, destroyed>>
heapVars == <<refs, born, deleted, page>>
requestVars == <<callback, payload, owner, copied, stage>>

Stages == {"none", "queued", "kernel", "posted", "done"}

TypeOK ==
  /\ refs \in [Kept -> Nat]
  /\ born \in SUBSET Objects
  /\ deleted \in SUBSET Objects
  /\ page \in SUBSET Objects
  /\ callback \in [Sockets \cup Requests -> Functions \cup {Nothing}]
  /\ payload \in [Requests -> Payloads \cup {Nothing}]
  /\ owner \in [Requests -> Sockets \cup {Nothing}]
  /\ copied \in SUBSET Requests
  /\ stage \in [Requests -> Stages]
  /\ inOnWrite \in Requests \cup {Nothing}
  /\ closing \in SUBSET Sockets
  /\ destroyed \in SUBSET Buffers

Init ==
  /\ refs = [o \in Kept |-> 0]
  /\ born = {}
  /\ deleted = {}
  /\ page = {}
  /\ callback = [o \in Sockets \cup Requests |-> Nothing]
  /\ payload = [r \in Requests |-> Nothing]
  /\ owner = [r \in Requests |-> Nothing]
  /\ copied = {}
  /\ stage = [r \in Requests |-> "none"]
  /\ inOnWrite = Nothing
  /\ closing = {}
  /\ destroyed = {}

-----------------------------------------------------------------------------
(* The browser's side of reference counting.                               *)

\* NPN_CreateObject, then as many NPN_RetainObject as retains says.
Created(retains) == 1 + retains

\* An object without a wrapper is wrapped: the wrapper is one reference.
Wrapped(o) == IF o \in page THEN 0 ELSE 1

\* The reference that came with a returned object is released again.
Returned == 1

\* NPN_ReleaseObject: at zero the class's deallocate runs, which deletes the
\* object (as a ScriptableObject, whose destructor is not virtual: the data of a
\* BufferWrap is not given back with it).
Release(o) ==
  /\ refs' = [refs EXCEPT ![o] = @ - 1]
  /\ deleted' = IF refs[o] = 1 THEN deleted \cup {o} ELSE deleted

-----------------------------------------------------------------------------
(* Main thread: calls of the page.                                         *)

\* NODE.createSocket and NODE.createBuffer, ScriptablePluginObject::Invoke.
Create(o) ==
  /\ o \notin born
  /\ o \in Sockets \cup Buffers
  /\ born' = born \cup {o}
  /\ page' = page \cup {o}
  /\ refs' = [refs EXCEPT ![o] = Created(1) + Wrapped(o) - Returned]
  /\ UNCHANGED <<deleted, requestVars, inOnWrite, closing, destroyed>>

\* A socket that can be called: the page has its wrapper, and net.js calls
\* nothing after close.
Callable(s) == s \in page /\ s \notin closing \cup deleted

\* handle.onread = f, TCPWrap::SetProperty: the old function is released and
\* the new one retained; the same function again changes nothing, as the call
\* holds it meanwhile. (onconnection and socket go the same way.)
SetOnread(s, f) ==
  /\ Callable(s)
  /\ callback[s] # f
  /\ callback' = [callback EXCEPT ![s] = f]
  /\ refs' = [o \in Kept |-> IF o = f THEN refs[o] + 1
                             ELSE IF o = callback[s] THEN refs[o] - 1
                             ELSE refs[o]]
  /\ UNCHANGED <<born, deleted, page, payload, owner, copied, stage, inOnWrite,
                 closing, destroyed>>

\* Mutant: the NPN_RetainObject of the request is missing.
RequestUnretained(s, r, f, p) ==
  /\ born' = born \cup {r}
  /\ page' = page \cup {r}
  /\ callback' = [callback EXCEPT ![r] = f]
  /\ payload' = [payload EXCEPT ![r] = p]
  /\ owner' = [owner EXCEPT ![r] = s]
  /\ stage' = [stage EXCEPT ![r] = "queued"]
  /\ refs' = [o \in Kept |->
       IF o = r THEN Created(0) + Wrapped(r) - Returned
       ELSE IF o = f THEN refs[o] + 2
       ELSE IF o = p THEN refs[o] + 1
       ELSE refs[o]]
  /\ UNCHANGED <<deleted, inOnWrite, closing, destroyed>>

\* The part of TCPWrap::Invoke that write and shutdown share: the request is
\* created, retained and returned; its callback is retained by CopyNPVariant,
\* which nothing undoes, and by SetProperty. For a Buffer, the reference that
\* NPN_GetProperty returns with the SlowBuffer's _handle is never released.
Request(s, r, f, p) ==
  /\ born' = born \cup {r}
  /\ page' = page \cup {r}
  /\ callback' = [callback EXCEPT ![r] = f]
  /\ payload' = [payload EXCEPT ![r] = p]
  /\ owner' = [owner EXCEPT ![r] = s]
  /\ stage' = [stage EXCEPT ![r] = "queued"]
  /\ refs' = [o \in Kept |->
       IF o = r THEN Created(1) + Wrapped(r) - Returned
       ELSE IF o = f THEN refs[o] + 2
       ELSE IF o = p THEN refs[o] + 1
       ELSE refs[o]]
  /\ UNCHANGED <<deleted, inOnWrite, closing, destroyed>>

\* write of a string, which CopyNPVariant has copied.
WriteString(s, r, f) ==
  /\ Callable(s)
  /\ r \notin born
  /\ Request(s, r, f, String)
  /\ copied' = copied \cup {r}

\* write of a slice of buffer b, which the page has not destroyed.
WriteBuffer(s, r, f, b) ==
  /\ Callable(s)
  /\ r \notin born
  /\ b \in page \ destroyed
  /\ Request(s, r, f, b)
  /\ UNCHANGED copied

ShutdownSocket(s, r, f) ==
  /\ Callable(s)
  /\ r \notin born
  /\ Request(s, r, f, Shutdown)
  /\ UNCHANGED copied

Close(s) ==
  /\ Callable(s)
  /\ closing' = closing \cup {s}
  /\ UNCHANGED <<heapVars, requestVars, inOnWrite, destroyed>>

\* Mutants of DestroyBuffer: SlowBuffer keeps its _handle and can destroy it
\* again; destroy frees the object instead of giving up one reference.
DestroyBufferAgain(b) ==
  /\ b \in page
  /\ destroyed' = destroyed \cup {b}
  /\ Release(b)
  /\ UNCHANGED <<born, page, requestVars, inOnWrite, closing>>
DestroyBufferAtOnce(b) ==
  /\ b \in page \ destroyed
  /\ destroyed' = destroyed \cup {b}
  /\ refs' = [refs EXCEPT ![b] = @ - 1]
  /\ deleted' = deleted \cup {b}
  /\ UNCHANGED <<born, page, requestVars, inOnWrite, closing>>

\* SlowBuffer.destroy: BufferWrap gives up the reference it was created with,
\* once, because SlowBuffer deletes its _handle.
DestroyBuffer(b) ==
  /\ b \in page \ destroyed
  /\ destroyed' = destroyed \cup {b}
  /\ Release(b)
  /\ UNCHANGED <<born, page, requestVars, inOnWrite, closing>>

\* The page's garbage collector drops a wrapper. The page may still need it
\* (to this module every wrapper can go); what happens to a wrapper whose
\* object was deleted under it is left out, the count is gone by then.
Forget(o) ==
  /\ o \in page \ deleted
  /\ page' = page \ {o}
  /\ Release(o)
  /\ UNCHANGED <<born, requestVars, inOnWrite, closing, destroyed>>

-----------------------------------------------------------------------------
(* Worker thread. It may be inside OnWrite, behind fireCallback.           *)

WorkerFree == inOnWrite = Nothing

\* OnConnection: the new socket is created, retained and posted.
Accept(s) ==
  /\ WorkerFree
  /\ s \notin born
  /\ born' = born \cup {s}
  /\ refs' = [refs EXCEPT ![s] = Created(1)]
  /\ UNCHANGED <<deleted, page, requestVars, inOnWrite, closing, destroyed>>

\* TCPWrap::write or shutdown: libuv takes the request, or refuses it, and then
\* no callback comes and the copy of a string stays.
WorkerStarts(r) ==
  /\ WorkerFree
  /\ stage[r] = "queued"
  /\ \E next \in {"kernel", "done"} : stage' = [stage EXCEPT ![r] = next]
  /\ UNCHANGED <<heapVars, callback, payload, owner, copied, inOnWrite, closing,
                 destroyed>>

\* OnWrite up to fireCallback.
OnWritePosts(r) ==
  /\ WorkerFree
  /\ stage[r] = "kernel"
  /\ payload[r] # Shutdown
  /\ inOnWrite' = r
  /\ stage' = [stage EXCEPT ![r] = "posted"]
  /\ UNCHANGED <<heapVars, callback, payload, owner, copied, closing, destroyed>>

\* The rest of OnWrite, when the main thread may have run the callback: unless
\* retainBuffer is set the data is deleted.
OnWriteFrees ==
  /\ ~WorkerFree
  /\ inOnWrite' = Nothing
  /\ copied' = copied \ {inOnWrite}
  /\ UNCHANGED <<heapVars, callback, payload, owner, stage, closing, destroyed>>

\* OnShutdown does nothing.
OnShutdown(r) ==
  /\ WorkerFree
  /\ stage[r] = "kernel"
  /\ payload[r] = Shutdown
  /\ stage' = [stage EXCEPT ![r] = "done"]
  /\ UNCHANGED <<heapVars, callback, payload, owner, copied, inOnWrite, closing,
                 destroyed>>

\* OnClose, when the socket's requests have come back (TcpBridge,
\* RequestsCounted), deletes the TCPWrap whatever its count.
OnClose(s) ==
  /\ WorkerFree
  /\ s \in closing \ deleted
  /\ \A r \in Requests : owner[r] = s => stage[r] \notin {"queued", "kernel"}
  /\ deleted' = deleted \cup {s}
  /\ UNCHANGED <<refs, born, page, requestVars, inOnWrite, closing, destroyed>>

-----------------------------------------------------------------------------
(* Main thread: posted callbacks.                                          *)

\* onconnection gives the page a socket the worker has accepted.
OnconnectionCallback(s) ==
  /\ s \in born \ (page \cup deleted)
  /\ page' = page \cup {s}
  /\ refs' = [refs EXCEPT ![s] = @ + Wrapped(s)]
  /\ UNCHANGED <<born, deleted, requestVars, inOnWrite, closing, destroyed>>

\* ExecuteCallback for a chunk: the BufferWrap is created and passed to onread.
OnreadCallback(s, b) ==
  /\ s \in born \ deleted
  /\ callback[s] # Nothing
  /\ b \notin born
  /\ born' = born \cup {b}
  /\ page' = page \cup {b}
  /\ refs' = [refs EXCEPT ![b] = Created(0) + Wrapped(b)]
  /\ UNCHANGED <<deleted, requestVars, inOnWrite, closing, destroyed>>

\* WriteReq::Invoke of oncomplete: the page gets the request and its socket.
\* Of a deleted socket the freed memory decides; its count is left alone.
OncompleteCallback(r) ==
  /\ stage[r] = "posted"
  /\ stage' = [stage EXCEPT ![r] = "done"]
  /\ LET given == {r, owner[r]} \ deleted
     IN /\ page' = page \cup given
        /\ refs' = [o \in Kept |->
             IF o \in given THEN refs[o] + Wrapped(o) ELSE refs[o]]
  /\ UNCHANGED <<born, deleted, callback, payload, owner, copied, inOnWrite,
                 closing, destroyed>>

-----------------------------------------------------------------------------
Page ==
  \/ \E o \in Objects : Create(o) \/ Forget(o)
  \/ \E s \in Sockets : Close(s) \/ \E f \in Functions : SetOnread(s, f)
  \/ \E s \in Sockets, r \in Requests, f \in Functions :
       \/ WriteString(s, r, f)
       \/ \E b \in Buffers : WriteBuffer(s, r, f, b)
       \/ ShutdownSocket(s, r, f)
  \/ \E b \in Buffers : DestroyBuffer(b)

Worker ==
  \/ \E s \in Sockets : Accept(s) \/ OnClose(s)
  \/ \E r \in Requests : WorkerStarts(r) \/ OnWritePosts(r) \/ OnShutdown(r)
  \/ OnWriteFrees

Callbacks ==
  \/ \E s \in Sockets :
       OnconnectionCallback(s) \/ \E b \in Buffers : OnreadCallback(s, b)
  \/ \E r \in Requests : OncompleteCallback(r)

Next == Page \/ Worker \/ Callbacks
Spec == Init /\ [][Next]_vars

-----------------------------------------------------------------------------
(* Properties.                                                             *)

InFlight(r) == stage[r] \in {"queued", "kernel", "posted"} \/ inOnWrite = r

\* What the worker, the kernel or a posted call may still follow a pointer to
\* is there, whatever the page collects or destroys meanwhile: the request, the
\* buffer it writes, the copy of a string until the kernel is done with it, and
\* the functions to call (tcp_wrap.cpp:157-223, 302-314, 380-396).
InFlightAlive ==
  /\ \A r \in Requests : InFlight(r) =>
       /\ r \notin deleted
       /\ payload[r] \notin deleted
       /\ payload[r] = String /\ stage[r] # "posted" => r \in copied
  /\ \A o \in Sockets \cup Requests :
       callback[o] # Nothing => refs[callback[o]] > 0

\* The requests that have taken a reference of b with NPN_GetProperty.
WritesOf(b) == {r \in Requests : payload[r] = b}

\* Every reference of a buffer has one holder: the plugin until destroy(), the
\* page's wrapper, and each write of it, for ever. So a buffer is deleted
\* exactly when it has been destroyed, forgotten and never written.
BuffersAccounted ==
  \A b \in Buffers \cap born :
    /\ refs[b] = (IF b \in destroyed THEN 0 ELSE 1)
                 + (IF b \in page THEN 1 ELSE 0)
                 + Cardinality(WritesOf(b))
    /\ b \in deleted <=> refs[b] = 0

\* npruntime.h:378-381: an object is destroyed when its reference count goes
\* to zero.
DestroyedAtZero == \A o \in deleted : refs[o] = 0
=============================================================================
