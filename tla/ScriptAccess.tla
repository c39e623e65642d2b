---------------------------- MODULE ScriptAccess ----------------------------
(***************************************************************************)
(* How the page's calls and property accesses find the C++ code. The       *)
(* browser asks HasMethod before it calls Invoke, and HasProperty before   *)
(* GetProperty or SetProperty; what an object does not announce stays on   *)
(* the page's wrapper and never reaches the plugin. Each class keeps four  *)
(* lists in step by hand: HasMethod, Invoke (for sockets with the worker's *)
(* branches behind it), HasProperty and GetProperty or SetProperty.        *)
(*                                                                         *)
(* One object of each class stands for all. Handlers are values; Blank is  *)
(* the NPObject a constructor puts in a field, Void a value that is no     *)
(* object. Left out: shutdown and onshutdown, whose identifiers are never  *)
(* set and may equal anything (TcpBridge has that choice), the indexed     *)
(* properties of buffers and reads of a socket's onread and onconnection,  *)
(* which GetProperty exchanges and no code asks for.                       *)
(***************************************************************************)
EXTENDS Integers, Sequences

CONSTANTS
  Values,    \* functions and objects the page gives to the plugin
  Blank,
  Void,
  MaxSets    \* bound: property assignments

Classes == {"plugin", "socket", "buffer", "parser", "write", "end"}

VARIABLES
  field,     \* the callbacks the C++ objects hold
  wrapper,   \* properties that stayed on the page's wrapper
  queued,    \* invocations in invoke_queue
  asked,     \* history: the value the page set last
  misled,    \* history: the plugin called another handler than the one asked for
  lost,      \* history: other calls than those of Unserved that no code took
  sets       \* bound

accessVars == <<field, wrapper, queued, asked, misled, lost, sets>>

-----------------------------------------------------------------------------
(* What the classes announce.                                              *)

PluginMethods == {"createSocket", "createParser", "createBuffer"}
SocketMethods == {"onread", "onconnection", "connect", "close", "write",
                  "listen", "readStart", "readStop", "bind"}
BufferMethods == {"get", "set", "copy", "destroy", "asciiSlice", "asciiWrite",
                  "utf8Slice", "utf8Write"}
ParserMethods == {"reinitialize", "execute"}

HasMethod == [c \in Classes |->
  CASE c = "plugin" -> PluginMethods [] c = "socket" -> SocketMethods
    [] c = "buffer" -> BufferMethods [] c = "parser" -> ParserMethods
    [] c = "write"  -> {"oncomplete", "cb"} [] OTHER -> {"oncomplete"}]

SocketProperties == {"onconnection", "onread", "socket"}
ParserProperties == {"createInfo", "onMessageBegin", "onURL", "onHeaderField",
                     "onHeaderValue", "onHeadersComplete", "onBody",
                     "onMessageComplete"}
RequestProperties == {"oncomplete", "cb"}

HasProperty == [c \in Classes |->
  CASE c = "socket" -> SocketProperties [] c = "parser" -> ParserProperties
    [] c = "write"  -> RequestProperties [] c = "end" -> {"oncomplete"}
    [] c = "buffer" -> {"length"} [] OTHER -> {}]

\* The names Invoke acts on. Of a socket's, the handlers are called at once and
\* every other is queued for the worker.
PluginInvoke == {"createSocket", "createBuffer", "createParser"}
BufferInvoke == {"set", "get", "utf8Slice", "utf8Write", "copy", "destroy"}
ParserInvoke == {"execute", "reinitialize"}

\* Mutant: the branch of readStop is missing.
BranchesButReadStop == {"bind", "listen", "readStart", "close", "write"}

\* The branches of the worker. There is none for connect.
WorkerBranches == {"bind", "listen", "readStart", "readStop", "close", "write"}

\* The page's calls, in net.js, buffer.js and http2.js.
Calls == [c \in Classes |->
  CASE c = "plugin" -> {"createSocket", "createParser", "createBuffer"}
    [] c = "socket" -> {"readStop", "readStart", "write", "close", "bind",
                        "listen", "connect"}
    [] c = "buffer" -> {"utf8Slice", "utf8Write", "get", "set", "copy", "destroy",
                        "asciiSlice", "asciiWrite"}
    [] c = "parser" -> {"reinitialize", "execute", "finish"}
    [] OTHER        -> {}]

\* The calls no code serves.
Unserved == {<<"socket", "connect">>, <<"parser", "finish">>,
             <<"buffer", "asciiSlice">>, <<"buffer", "asciiWrite">>}

\* The page's assignments: net.js:56-57, 581-582, http2.js:35-119, 1334-1336.
Assigned == [c \in Classes |->
  CASE c = "socket" -> {"socket", "onread", "onconnection"}
    [] c = "parser" -> ParserProperties \cup {"onIncoming", "socket", "incoming"}
    [] OTHER        -> {}]

\* What the plugin calls by name, through apply or InvokeDefault.
Callbacks == [c \in Classes |->
  CASE c = "socket" -> {"onread", "onconnection"}
    [] c = "parser" -> ParserProperties
    [] c = "write"  -> {"oncomplete"}
    [] OTHER        -> {}]

Slots == {<<c, n>> : c \in Classes, n \in
            SocketProperties \cup ParserProperties \cup RequestProperties
            \cup {"onIncoming", "incoming"}}

AccessTypeOK ==
  /\ field \in [Slots -> Values \cup {Blank}]
  /\ wrapper \in [Slots -> Values \cup {Blank}]
  /\ queued \in Seq(Calls["socket"])
  /\ asked \in [Slots -> Values \cup {Blank, Void}]
  /\ misled \in BOOLEAN
  /\ lost \subseteq {<<c, m>> : c \in Classes, m \in UNION {Calls[d] : d \in Classes}}
  /\ sets \in Nat

AccessInit ==
  /\ field = [s \in Slots |-> Blank]
  /\ wrapper = [s \in Slots |-> Blank]
  /\ queued = <<>>
  /\ asked = [s \in Slots |-> Blank]
  /\ misled = FALSE
  /\ lost = {}
  /\ sets = 0

-----------------------------------------------------------------------------
(* SetProperty of each class: what becomes of the field of that name.      *)

SocketSetProperty(n, v) == [field EXCEPT ![<<"socket", n>>] = v]

\* Mutant: the branches are no chain of else, and one falls into the next.
ParserSetsNext(n, v) ==
  IF n = "onHeaderField"
  THEN [field EXCEPT ![<<"parser", "onHeaderValue">>] = v]
  ELSE [field EXCEPT ![<<"parser", n>>] = v]

ParserSetProperty(n, v) == [field EXCEPT ![<<"parser", n>>] = v]

\* A request keeps its blank object when it is given no object.
WriteReqSetProperty(n, v) ==
  IF v = Void THEN field ELSE [field EXCEPT ![<<"write", n>>] = v]
ShutdownReqSetProperty(n, v) ==
  IF v = Void THEN field ELSE [field EXCEPT ![<<"end", n>>] = v]

SetProperty(c, n, v) ==
  CASE c = "socket" -> SocketSetProperty(n, v)
    [] c = "parser" -> ParserSetProperty(n, v)
    [] c = "write"  -> WriteReqSetProperty(n, v)
    [] OTHER        -> ShutdownReqSetProperty(n, v)

\* o.n = v.
Assign(c, n, v) ==
  /\ sets < MaxSets /\ sets' = sets + 1
  /\ n \in Assigned[c]
  /\ asked' = [asked EXCEPT ![<<c, n>>] = v]
  /\ IF n \in HasProperty[c]
     THEN field' = SetProperty(c, n, v) /\ UNCHANGED wrapper
     ELSE wrapper' = [wrapper EXCEPT ![<<c, n>>] = v] /\ UNCHANGED field
  /\ UNCHANGED <<queued, misled, lost>>

\* WriteReq::init and ShutdownReq::init of a new request: handle.write(data,
\* afterWrite, cb), where cb may be missing, and handle.shutdown(afterShutdown).
MakeWriteReq(f, cb) ==
  /\ sets < MaxSets /\ sets' = sets + 1
  /\ field' = [field EXCEPT ![<<"write", "oncomplete">>] = f,
                            ![<<"write", "cb">>] = IF cb = Void THEN Blank ELSE cb]
  /\ asked' = [asked EXCEPT ![<<"write", "oncomplete">>] = f,
                            ![<<"write", "cb">>] = cb]
  /\ UNCHANGED <<wrapper, queued, misled, lost>>
MakeShutdownReq(f) ==
  /\ sets < MaxSets /\ sets' = sets + 1
  /\ field' = ShutdownReqSetProperty("oncomplete", f)
  /\ asked' = [asked EXCEPT ![<<"end", "oncomplete">>] = f]
  /\ UNCHANGED <<wrapper, queued, misled, lost>>

\* GetProperty. A request gives Void for a blank callback.
SocketGetProperty(n) == field[<<"socket", n>>]
WriteReqGetProperty(n) ==
  IF field[<<"write", n>>] = Blank THEN Void ELSE field[<<"write", n>>]
ShutdownReqGetProperty(n) ==
  IF field[<<"end", n>>] = Blank THEN Void ELSE field[<<"end", n>>]

-----------------------------------------------------------------------------
(* Calls.                                                                  *)

Lose(c, m) == lost' = lost \cup ({<<c, m>>} \ Unserved)

Takes(c, m) ==
  CASE c = "plugin" -> m \in PluginInvoke
    [] c = "buffer" -> m \in BufferInvoke
    [] c = "parser" -> m \in ParserInvoke
    [] OTHER        -> FALSE

\* o.m(...). TCPWrap::Invoke queues what is no handler.
CallMethod(c, m) ==
  /\ m \in Calls[c]
  /\ IF m \notin HasMethod[c] THEN Lose(c, m) /\ UNCHANGED queued
     ELSE IF c = "socket"
     THEN queued = <<>> /\ queued' = Append(queued, m) /\ UNCHANGED lost
     ELSE /\ IF Takes(c, m) THEN UNCHANGED lost ELSE Lose(c, m)
          /\ UNCHANGED queued
  /\ UNCHANGED <<field, wrapper, asked, misled, sets>>

\* invoke_worker_thread compares the name with each branch's.
WorkerTakes ==
  /\ queued # <<>>
  /\ queued' = Tail(queued)
  /\ IF Head(queued) \in WorkerBranches THEN UNCHANGED lost
     ELSE Lose("socket", Head(queued))
  /\ UNCHANGED <<field, wrapper, asked, misled, sets>>

\* TCPWrap::Invoke of a handler's name, ScriptableObject::apply of its function.
SocketHandler(n) == field[<<"socket", n>>]

\* ParserWrap's callbacks.
ParserHandler(n) == field[<<"parser", n>>]
\* WriteReq::Invoke, NPN_InvokeDefault.
WriteReqHandler(n) == field[<<"write", n>>]

\* The plugin calls a handler; one that was never set is no function, and the
\* browser's call of it fails.
Deliver(c, n) ==
  /\ n \in Callbacks[c]
  /\ LET v == CASE c = "socket" -> SocketHandler(n)
                [] c = "parser" -> ParserHandler(n)
                [] OTHER        -> WriteReqHandler(n)
     IN misled' = (misled \/ v # asked[<<c, n>>])
  /\ UNCHANGED <<field, wrapper, queued, asked, lost, sets>>

AccessNext ==
  \/ \E c \in Classes :
       \/ \E n \in Assigned[c], v \in Values : Assign(c, n, v)
       \/ \E m \in Calls[c] : CallMethod(c, m)
       \/ \E n \in Callbacks[c] : Deliver(c, n)
  \/ \E f \in Values, cb \in Values \cup {Void} : MakeWriteReq(f, cb)
  \/ \E f \in Values : MakeShutdownReq(f)
  \/ WorkerTakes

-----------------------------------------------------------------------------
(* Properties.                                                             *)

\* The handler a name reaches is the one the page set last under that name: of
\* the plugin's calls, and of the reads the page makes itself, handle.socket
\* and req.cb (net.js:201, 268, 390, 407; tcp_wrap.cpp:76-144,
\* parser_wrap.cpp:109-152, write_req.cpp:36-86).
HandlersReached ==
  /\ ~misled
  /\ \A c \in Classes : \A n \in Callbacks[c] :
       field[<<c, n>>] = asked[<<c, n>>]
  /\ SocketGetProperty("socket") = asked[<<"socket", "socket">>]
  /\ asked[<<"write", "cb">>] # Blank =>
       WriteReqGetProperty("cb") = asked[<<"write", "cb">>]

\* No call the page makes is dropped on its way through the four lists, but
\* for the four of Unserved: connect, finish and the ascii methods have no code
\* behind them (tcp_wrap.cpp:55-69, 240-261; buffer_wrap.cpp:11-21, 146-182;
\* parser_wrap.cpp:47-58, 90-94; plugin.cpp:45-50, 62-87).
NothingLost == lost = {}
=============================================================================
