------------------------------ MODULE NetServer ------------------------------
(***************************************************************************)
(* A net.Server and the sockets it has accepted, as http2.js uses them:    *)
(* the count of connections and its limit, close() and the server's        *)
(* 'close' event, and the parsers that connections take from a FreeList    *)
(* and give back in their 'close' listener.                                *)
(*                                                                         *)
(* The worker accepts connections until it has closed the listening        *)
(* handle and posts each as a call of onconnection, which the main thread  *)
(* runs later, in order (tcp_wrap.cpp, OnConnection; module TcpBridge has  *)
(* the queues in detail).                                                  *)
(***************************************************************************)
EXTENDS Integers, Sequences, FiniteSets

CONSTANTS
  Sockets,         \* bound: the connections clients make
  MaxConnections,  \* server.maxConnections, 0 for no limit
  MaxFree          \* parsers.max

ASSUME ServerAssumption ==
  /\ IsFiniteSet(Sockets)
  /\ {MaxConnections, MaxFree} \subseteq Nat

VARIABLES
  status,       \* of each socket: see Status
  posted,       \* onconnection calls posted, oldest first
  handle,       \* server._handle is set
  accepting,    \* the worker has not closed the listening handle
  connections,  \* server.connections
  closeEvents,  \* 'close' events of the server
  free,         \* parsers.list
  parser,       \* the parser of each socket, 0 for none
  made,         \* parsers constructed so far; also numbers them
  again         \* history: destroy() has been called twice on some socket

vars == <<status, posted, handle, accepting, connections, closeEvents, free,
          parser, made, again>>

\* Not connected yet; accepted by the worker; handed to the application; over
\* maxConnections and closed; destroyed.
Status == {"none", "posted", "open", "refused", "destroyed"}

Open == {s \in Sockets : status[s] = "open"}

TypeOK ==
  /\ status \in [Sockets -> Status]
  /\ posted \in Seq(Sockets)
  /\ handle \in BOOLEAN
  /\ accepting \in BOOLEAN
  /\ connections \in IF again THEN Int ELSE Nat
  /\ closeEvents \in Nat
  /\ free \in Seq(Nat)
  /\ parser \in [Sockets -> Nat]
  /\ made \in Nat
  /\ again \in BOOLEAN

\* listen() has run.
Init ==
  /\ status = [s \in Sockets |-> "none"]
  /\ posted = <<>>
  /\ handle = TRUE
  /\ accepting = TRUE
  /\ connections = 0
  /\ closeEvents = 0
  /\ free = <<>>
  /\ parser = [s \in Sockets |-> 0]
  /\ made = 0
  /\ again = FALSE

-----------------------------------------------------------------------------
(* Worker thread.                                                          *)

\* OnConnection.
Accept(s) ==
  /\ accepting
  /\ status[s] = "none"
  /\ status' = [status EXCEPT ![s] = "posted"]
  /\ posted' = Append(posted, s)
  /\ UNCHANGED <<handle, accepting, connections, closeEvents, free, parser, made,
                 again>>

\* The close invocation of the listening handle is carried out.
CloseListener ==
  /\ ~handle
  /\ accepting
  /\ accepting' = FALSE
  /\ UNCHANGED <<status, posted, handle, connections, closeEvents, free, parser,
                 made, again>>

-----------------------------------------------------------------------------
(* Main thread.                                                            *)

\* Mutant: alloc() leaves the parser on the list.
AllocKeeps(s) ==
  /\ IF free # <<>>
     THEN parser' = [parser EXCEPT ![s] = Head(free)] /\ UNCHANGED made
     ELSE parser' = [parser EXCEPT ![s] = made + 1] /\ made' = made + 1
  /\ UNCHANGED free

\* FreeList.alloc for socket s.
Alloc(s) ==
  IF free # <<>>
  THEN /\ parser' = [parser EXCEPT ![s] = Head(free)]
       /\ free' = Tail(free)
       /\ UNCHANGED made
  ELSE /\ parser' = [parser EXCEPT ![s] = made + 1]
       /\ made' = made + 1
       /\ UNCHANGED free

\* FreeList.free of a parser, times times.
Freed(p, times) ==
  LET room == IF MaxFree > Len(free) THEN MaxFree - Len(free) ELSE 0
  IN free \o [i \in 1 .. (IF times < room THEN times ELSE room) |-> p]

\* onconnection for the oldest call, and connectionListener of the 'connection'
\* event. It does not ask whether the server has been closed since.
OnConnection ==
  /\ posted # <<>>
  /\ posted' = Tail(posted)
  /\ LET s == Head(posted)
     IN \/ /\ MaxConnections # 0
           /\ connections >= MaxConnections
           /\ status' = [status EXCEPT ![s] = "refused"]
           /\ UNCHANGED <<connections, free, parser, made>>
        \/ /\ MaxConnections = 0 \/ connections < MaxConnections
           /\ status' = [status EXCEPT ![s] = "open"]
           /\ connections' = connections + 1
           /\ Alloc(s)
  /\ UNCHANGED <<handle, accepting, closeEvents, again>>

\* Mutant: a server that still listens is taken for one that has been closed.
CloseIfIdle(n) == IF n = 0 THEN 1 ELSE 0

\* The 'close' events that _emitCloseIfDrained emits when connections has
\* become n.
CloseIfDrained(n) == IF ~handle /\ n = 0 THEN 1 ELSE 0

\* Mutants of Destroy: the server is not told; the connection is counted out
\* after the server has been asked whether it is drained.
DestroyUncounted(s) ==
  /\ status[s] = "open"
  /\ status' = [status EXCEPT ![s] = "destroyed"]
  /\ closeEvents' = closeEvents + CloseIfDrained(connections)
  /\ free' = Freed(parser[s], 1)
  /\ UNCHANGED <<posted, handle, accepting, parser, made, connections, again>>
DestroyAsksFirst(s) ==
  /\ status[s] = "open"
  /\ status' = [status EXCEPT ![s] = "destroyed"]
  /\ connections' = connections - 1
  /\ closeEvents' = closeEvents + CloseIfDrained(connections)
  /\ free' = Freed(parser[s], 1)
  /\ UNCHANGED <<posted, handle, accepting, parser, made, again>>

\* Socket.destroy and the 'close' listener of connectionListener.
Destroy(s) ==
  /\ status[s] = "open"
  /\ status' = [status EXCEPT ![s] = "destroyed"]
  /\ connections' = connections - 1
  /\ closeEvents' = closeEvents + CloseIfDrained(connections - 1)
  /\ free' = Freed(parser[s], 1)
  /\ UNCHANGED <<posted, handle, accepting, parser, made, again>>

\* A 'close' handler calls destroy() again. destroyed is set after the event,
\* so the connection is counted out once more, and the event comes twice.
DestroyNested(s) ==
  /\ again' = TRUE
  /\ status[s] = "open"
  /\ status' = [status EXCEPT ![s] = "destroyed"]
  /\ connections' = connections - 2
  /\ closeEvents' = closeEvents + CloseIfDrained(connections - 1)
                                + CloseIfDrained(connections - 2)
  /\ free' = Freed(parser[s], 2)
  /\ UNCHANGED <<posted, handle, accepting, parser, made>>

\* destroy() on a destroyed socket emits 'close' again.
DestroyDestroyed(s) ==
  /\ again' = TRUE
  /\ status[s] = "destroyed"
  /\ free' = Freed(parser[s], 1)
  /\ UNCHANGED <<status, posted, handle, accepting, connections, closeEvents,
                 parser, made>>

\* Server.close; a second call throws.
Close ==
  /\ handle
  /\ handle' = FALSE
  /\ closeEvents' = closeEvents + (IF connections = 0 THEN 1 ELSE 0)
  /\ UNCHANGED <<status, posted, accepting, connections, free, parser, made, again>>

-----------------------------------------------------------------------------
Next ==
  \/ \E s \in Sockets :
       \/ Accept(s)
       \/ Destroy(s)
       \/ DestroyNested(s)
       \/ DestroyDestroyed(s)
  \/ CloseListener
  \/ OnConnection
  \/ Close

\* The worker carries out invocations and the main thread runs posted calls;
\* an application that wants its server closed destroys or loses its sockets.
Fairness ==
  /\ WF_vars(CloseListener)
  /\ WF_vars(OnConnection)
  /\ \A s \in Sockets : WF_vars(~handle /\ Destroy(s))

Spec == Init /\ [][Next]_vars
FairSpec == Spec /\ Fairness

-----------------------------------------------------------------------------
(* Properties. Those that begin with "~again" say what holds as long as     *)
(* destroy() is called once on each socket.                                 *)

\* server.connections is the number of sockets the application has not
\* destroyed yet, and stays within maxConnections.
ConnectionsCounted ==
  ~again => /\ connections = Cardinality(Open)
            /\ MaxConnections # 0 => connections <= MaxConnections

\* http2.js:1389 says that the 'close' listener gives up the connection's
\* parser: it is in use by one connection or free once, and no two connections
\* ever feed the same parser.
ParsersNotShared ==
  /\ \A s, t \in Open : s # t => parser[s] # parser[t]
  /\ \A s \in Open : \A i \in 1 .. Len(free) : free[i] # parser[s]
  /\ \A i, j \in 1 .. Len(free) : i # j => free[i] # free[j]
ParsersOwned == ~again => ParsersNotShared

\* 'close' is emitted in a state where nothing listens and no socket is open
\* (_emitCloseIfDrained).
ClosesDrained ==
  [][~again' /\ closeEvents' # closeEvents => ~handle' /\ Open' = {}]_vars

\* A server that has been closed emits 'close' once it is drained.
ClosedServerSaysSo == ~handle ~> closeEvents > 0 \/ again
=============================================================================
