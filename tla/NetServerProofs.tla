--------------------------- MODULE NetServerProofs ---------------------------
(* Proofs about NetServer, for any number of clients, any limit and any    *)
(* length of the free list.                                                *)
EXTENDS NetServer, FiniteSetTheorems, TLAPS

-----------------------------------------------------------------------------
(* The count of connections.                                               *)

\* A posted call stands for one socket that is waiting for it.
PostedOnce ==
  /\ \A i \in 1 .. Len(posted) : status[posted[i]] = "posted"
  /\ \A i, j \in 1 .. Len(posted) : i # j => posted[i] # posted[j]

CountInv == TypeOK /\ PostedOnce /\ ConnectionsCounted

\* The open sockets can be counted.
LEMMA OpenFinite == IsFiniteSet(Open) /\ Cardinality(Open) \in Nat
  BY FS_Subset, FS_CardinalityType, ServerAssumption DEF Open

\* The initial state satisfies the invariant of the count.
LEMMA CountInit == Init => CountInv
<1> SUFFICES ASSUME Init PROVE CountInv
  OBVIOUS
<1>1. Open = {}
  BY DEF Init, Open
<1>2. TypeOK
  <2>1. /\ status \in [Sockets -> Status] /\ parser \in [Sockets -> Nat]
        /\ posted \in Seq(Sockets) /\ free \in Seq(Nat)
    BY DEF Init, Status
  <2>2. connections \in (IF again THEN Int ELSE Nat) /\ closeEvents \in Nat /\ made \in Nat
    BY DEF Init
  <2>3. handle \in BOOLEAN /\ accepting \in BOOLEAN /\ again \in BOOLEAN
    BY DEF Init
  <2>4. QED
    BY <2>1, <2>2, <2>3 DEF TypeOK
<1>3. QED
  BY <1>1, <1>2, FS_EmptySet, ServerAssumption
  DEF Init, CountInv, PostedOnce, ConnectionsCounted

\* Steps that open and end no connection.
LEMMA CountFrame ==
  ASSUME ConnectionsCounted, UNCHANGED <<connections, again>>, Open' = Open
  PROVE  ConnectionsCounted'
  BY DEF ConnectionsCounted

\* A connection the worker accepts keeps it.
LEMMA AcceptStep ==
  ASSUME CountInv, NEW s \in Sockets, Accept(s)
  PROVE  CountInv'
<1> USE DEF Accept, CountInv
<1>1. TypeOK'
  BY DEF TypeOK, Status
<1>2. Len(posted') = Len(posted) + 1 /\ Len(posted) \in Nat
      /\ \A i \in 1 .. Len(posted) : posted'[i] = posted[i] /\ posted[i] # s
      /\ posted'[Len(posted) + 1] = s
  BY DEF TypeOK, PostedOnce
<1>3. PostedOnce'
  <2>1. \A i \in 1 .. Len(posted') : status'[posted'[i]] = "posted"
    BY <1>2 DEF TypeOK, PostedOnce
  <2>2. \A i, j \in 1 .. Len(posted') : i # j => posted'[i] # posted'[j]
    BY <1>2 DEF TypeOK, PostedOnce
  <2>3. QED
    BY <2>1, <2>2 DEF PostedOnce
<1>4. Open' = Open
  BY DEF Open, TypeOK
<1>5. QED
  BY <1>1, <1>3, <1>4, CountFrame

\* So does its arrival on the main thread, past maxConnections too.
LEMMA OnConnectionStep ==
  ASSUME CountInv, OnConnection
  PROVE  CountInv'
<1> USE DEF OnConnection, CountInv
<1> DEFINE s == Head(posted)
<1>1. /\ s \in Sockets /\ status[s] = "posted" /\ s \notin Open
      /\ Len(posted) \in Nat /\ Len(posted) >= 1
      /\ posted' \in Seq(Sockets) /\ Len(posted') = Len(posted) - 1
      /\ \A i \in 1 .. Len(posted') : posted'[i] = posted[i + 1] /\ posted'[i] # s
  <2>1. /\ Len(posted) \in Nat /\ Len(posted) >= 1 /\ s = posted[1]
        /\ s \in Sockets
    BY DEF TypeOK
  <2>2. /\ posted' \in Seq(Sockets) /\ Len(posted') = Len(posted) - 1
        /\ \A i \in 1 .. Len(posted') : posted'[i] = posted[i + 1]
    BY <2>1 DEF TypeOK
  <2>3. status[s] = "posted"
    BY <2>1 DEF PostedOnce
  <2>4. \A i \in 1 .. Len(posted') : posted'[i] # s
    BY <2>1, <2>2 DEF PostedOnce
  <2>5. QED
    BY <2>1, <2>2, <2>3, <2>4 DEF Open
<1>2. PostedOnce'
  <2>1. \A i \in 1 .. Len(posted') : status'[posted'[i]] = "posted"
    BY <1>1 DEF TypeOK, PostedOnce
  <2>2. \A i, j \in 1 .. Len(posted') : i # j => posted'[i] # posted'[j]
    BY <1>1 DEF PostedOnce
  <2>3. QED
    BY <2>1, <2>2 DEF PostedOnce
<1>3. CASE /\ MaxConnections # 0 /\ connections >= MaxConnections
           /\ status' = [status EXCEPT ![s] = "refused"]
           /\ UNCHANGED <<connections, free, parser, made>>
  <2>1. TypeOK'
    BY <1>1, <1>3 DEF TypeOK, Status
  <2>2. Open' = Open
    BY <1>1, <1>3 DEF Open, TypeOK
  <2>3. QED
    BY <1>2, <1>3, <2>1, <2>2, CountFrame
<1>4. CASE /\ MaxConnections = 0 \/ connections < MaxConnections
           /\ status' = [status EXCEPT ![s] = "open"]
           /\ connections' = connections + 1
           /\ Alloc(s)
  <2>1. free' \in Seq(Nat) /\ parser' \in [Sockets -> Nat] /\ made' \in Nat
    <3>1. CASE free # <<>>
      <4>1. Head(free) \in Nat /\ Tail(free) \in Seq(Nat)
        BY <3>1 DEF TypeOK
      <4>2. QED
        BY <1>4, <3>1, <4>1 DEF TypeOK, Alloc
    <3>2. CASE free = <<>>
      BY <1>4, <3>2 DEF TypeOK, Alloc
    <3>3. QED
      BY <3>1, <3>2
  <2>2. TypeOK'
    <3>1. status' \in [Sockets -> Status]
      BY <1>1, <1>4 DEF TypeOK, Status
    <3>2. connections' \in IF again' THEN Int ELSE Nat
      BY <1>4 DEF TypeOK
    <3>3. UNCHANGED <<handle, accepting, closeEvents, again>>
      OBVIOUS
    <3>4. QED
      BY <1>1, <2>1, <3>1, <3>2, <3>3 DEF TypeOK
  <2>3. Open' = Open \cup {s}
    BY <1>1, <1>4 DEF Open, TypeOK
  <2>4. Cardinality(Open') = Cardinality(Open) + 1
    BY <1>1, <2>3, OpenFinite, FS_AddElement
  <2>5. ConnectionsCounted'
    BY <1>4, <2>4, OpenFinite, ServerAssumption DEF ConnectionsCounted, TypeOK
  <2>6. QED
    BY <1>2, <2>2, <2>5
<1>5. QED
  BY <1>3, <1>4

\* A parser that is freed any number of times leaves a list of parsers.
LEMMA FreedType ==
  ASSUME TypeOK, NEW p \in Nat, NEW times \in Nat
  PROVE  Freed(p, times) \in Seq(Nat)
<1> DEFINE room == IF MaxFree > Len(free) THEN MaxFree - Len(free) ELSE 0
           n == IF times < room THEN times ELSE room
<1>1. n \in Nat
  BY ServerAssumption DEF TypeOK
<1>2. [i \in 1 .. n |-> p] \in Seq(Nat)
  BY <1>1
<1>3. QED
  BY <1>2 DEF Freed, TypeOK

\* A destroyed socket takes itself off the count.
LEMMA DestroyStep ==
  ASSUME CountInv, NEW s \in Sockets, Destroy(s)
  PROVE  CountInv' /\ Cardinality(Open') = Cardinality(Open) - 1
<1> USE DEF Destroy, CountInv
<1>1. s \in Open /\ Open' = Open \ {s}
  BY DEF Open, TypeOK
<1>2. Cardinality(Open') = Cardinality(Open) - 1
  BY <1>1, OpenFinite, FS_RemoveElement
<1>3. Cardinality(Open) >= 1
  <2>1. Cardinality(Open) # 0
    BY <1>1, OpenFinite, FS_EmptySet
  <2>2. QED
    BY <2>1, OpenFinite
<1>4. free' \in Seq(Nat)
  BY FreedType DEF TypeOK
<1>5. ~again => connections = Cardinality(Open)
  BY DEF ConnectionsCounted
<1>6. connections' \in IF again' THEN Int ELSE Nat
  BY <1>3, <1>5, OpenFinite DEF TypeOK
<1>7. TypeOK'
  BY <1>4, <1>6 DEF TypeOK, Status, CloseIfDrained
<1>8. PostedOnce'
  BY DEF PostedOnce, TypeOK
<1>9. ConnectionsCounted'
  BY <1>2, <1>3, OpenFinite, ServerAssumption DEF ConnectionsCounted, TypeOK
<1>10. QED
  BY <1>2, <1>7, <1>8, <1>9

\* Destroying a socket once more changes no count.
LEMMA AgainStep ==
  ASSUME CountInv, NEW s \in Sockets, DestroyNested(s) \/ DestroyDestroyed(s)
  PROVE  CountInv'
<1> USE DEF DestroyNested, DestroyDestroyed, CountInv
<1>1. free' \in Seq(Nat)
  <2>1. parser[s] \in Nat /\ 1 \in Nat /\ 2 \in Nat
    BY DEF TypeOK
  <2>2. Freed(parser[s], 1) \in Seq(Nat) /\ Freed(parser[s], 2) \in Seq(Nat)
    BY <2>1, FreedType
  <2>3. QED
    BY <2>2
<1>2. connections' \in Int
  BY DEF TypeOK
<1>3. status' \in [Sockets -> Status] /\ closeEvents' \in Nat
  <2>1. \A n : CloseIfDrained(n) \in Nat
    BY DEF CloseIfDrained
  <2>2. status' \in [Sockets -> Status]
    BY DEF TypeOK, Status
  <2>3. closeEvents' \in Nat
    BY <2>1 DEF TypeOK
  <2>4. QED
    BY <2>2, <2>3
<1>4. TypeOK'
  BY <1>1, <1>2, <1>3 DEF TypeOK
<1>5. PostedOnce'
  BY SMTT(30) DEF PostedOnce, TypeOK
<1>6. QED
  BY <1>4, <1>5 DEF ConnectionsCounted

\* Every step keeps the count.
LEMMA CountStep == CountInv /\ [Next]_vars => CountInv'
<1> SUFFICES ASSUME CountInv, [Next]_vars PROVE CountInv'
  OBVIOUS
<1>1. CASE CloseListener \/ Close \/ UNCHANGED vars
  <2>1. Open' = Open /\ UNCHANGED <<status, posted, connections, again>>
    BY <1>1 DEF CloseListener, Close, vars, Open
  <2>2. TypeOK'
    <3>1. CASE CloseListener
      BY <3>1 DEF CountInv, TypeOK, CloseListener
    <3>2. CASE Close
      <4>1. closeEvents' \in Nat
        BY <3>2 DEF CountInv, TypeOK, Close
      <4>2. handle' \in BOOLEAN
        BY <3>2 DEF Close
      <4>3. QED
        BY <3>2, <4>1, <4>2 DEF CountInv, TypeOK, Close
    <3>3. CASE UNCHANGED vars
      BY <3>3 DEF CountInv, TypeOK, vars
    <3>4. QED
      BY <1>1, <3>1, <3>2, <3>3
  <2>3. QED
    BY <2>1, <2>2, CountFrame DEF CountInv, PostedOnce
<1>2. QED
  BY <1>1, AcceptStep, OnConnectionStep, DestroyStep, AgainStep DEF Next

\* Every reachable state is type-correct (NetServer: TypeOK): the count of
\* connections is no negative number as long as destroy() is called once on a
\* socket.
THEOREM ServerTypeCorrect == Spec => []TypeOK
<1>1. CountInv => TypeOK
  BY DEF CountInv
<1>2. QED
  BY <1>1, CountInit, CountStep, PTL DEF Spec

\* server.connections is the number of open connections and within the limit,
\* for any number of clients and any limit (NetServer: ConnectionsCounted;
\* net.js:653-682, 235-262).
THEOREM ConnectionsAreCounted == Spec => []ConnectionsCounted
<1>1. CountInv => ConnectionsCounted
  BY DEF CountInv
<1>2. QED
  BY <1>1, CountInit, CountStep, PTL DEF Spec

-----------------------------------------------------------------------------
(* 'close'.                                                                *)

\* With the count at zero no socket is open.
LEMMA NobodyOpen ==
  ASSUME CountInv, ~again, connections = 0
  PROVE  Open = {}
  BY OpenFinite, FS_EmptySet DEF CountInv, ConnectionsCounted

\* The server emits 'close' only when nothing listens and no connection is open
\* (NetServer: ClosesDrained; net.js:685-700).
THEOREM CloseMeansDrained == Spec => ClosesDrained
<1>1. ASSUME CountInv, CountInv', [Next]_vars, ~again', closeEvents' # closeEvents
      PROVE  ~handle' /\ Open' = {}
  <2>1. ASSUME NEW s \in Sockets, Destroy(s) PROVE ~handle' /\ Open' = {}
    <3>1. ~handle' /\ connections' = 0
      BY <1>1, <2>1 DEF Destroy, CloseIfDrained, CountInv, TypeOK
    <3>2. Cardinality(Open') = 0
      BY <1>1, <3>1 DEF CountInv, ConnectionsCounted
    <3>3. Open' \subseteq Open
      BY <2>1 DEF Destroy, Open, CountInv, TypeOK
    <3>4. QED
      BY <3>1, <3>2, <3>3, OpenFinite, FS_Subset, FS_EmptySet
  <2>2. CASE Close
    <3>1. ~handle' /\ connections = 0 /\ ~again /\ Open' = Open
      BY <1>1, <2>2 DEF Close, CountInv, TypeOK, Open
    <3>2. QED
      BY <1>1, <3>1, NobodyOpen
  <2>3. QED
    BY <1>1, <2>1, <2>2
    DEF Next, vars, Accept, DestroyNested, DestroyDestroyed, CloseListener,
        OnConnection
<1>2. CountInv /\ CountInv' /\ [Next]_vars =>
        [~again' /\ closeEvents' # closeEvents => ~handle' /\ Open' = {}]_vars
  BY <1>1
<1>3. QED
  BY <1>2, CountInit, CountStep, PTL DEF Spec, ClosesDrained

-----------------------------------------------------------------------------
(* Parsers.                                                                *)

\* Parsers are numbered as they are made; every number in use is one of them.
ParsersNumbered ==
  /\ \A s \in Open : parser[s] \in 1 .. made
  /\ \A i \in 1 .. Len(free) : free[i] \in 1 .. made
ParserInv == ~again => ParsersNumbered /\ ParsersNotShared

\* A parser handed out was nobody's.
LEMMA AllocParsers ==
  ASSUME TypeOK, ~again, ParsersNumbered, ParsersNotShared,
         NEW s \in Sockets, s \notin Open, Open' = Open \cup {s}, Alloc(s)
  PROVE  ParsersNumbered' /\ ParsersNotShared'
<1>1. parser'[s] \in Nat /\ \A t \in Open : parser'[t] = parser[t] /\ t # s
  BY DEF Alloc, TypeOK, Open
<1>2. CASE free # <<>>
  <2>1. /\ Len(free) \in Nat /\ Len(free) >= 1 /\ parser'[s] = free[1]
        /\ made' = made /\ Len(free') = Len(free) - 1
        /\ \A i \in 1 .. Len(free') : free'[i] = free[i + 1] /\ i + 1 \in 1 .. Len(free)
    <3>1. /\ Len(free) \in Nat /\ Len(free) >= 1
          /\ free' = Tail(free) /\ made' = made
          /\ parser' = [parser EXCEPT ![s] = Head(free)]
      BY <1>2 DEF Alloc, TypeOK
    <3>2. parser'[s] = free[1]
      BY <3>1 DEF TypeOK
    <3>3. /\ Len(free') = Len(free) - 1
          /\ \A i \in 1 .. Len(free') : free'[i] = free[i + 1]
      BY <1>2, <3>1 DEF TypeOK
    <3>4. QED
      BY <3>1, <3>2, <3>3
  <2>2. 1 \in 1 .. Len(free)
    BY <2>1
  <2>3. ParsersNumbered'
    BY <1>1, <2>1, <2>2 DEF ParsersNumbered
  <2>4. \A t \in Open : parser'[t] # parser'[s]
    BY <1>1, <2>1, <2>2 DEF ParsersNotShared
  <2>5. \A i \in 1 .. Len(free') : free'[i] # parser'[s]
    <3>1. ASSUME NEW i \in 1 .. Len(free') PROVE free[i + 1] # free[1]
      BY <2>1, <2>2, <3>1 DEF ParsersNotShared
    <3>2. QED
      BY <2>1, <3>1
  <2>6. \A i, j \in 1 .. Len(free') : i # j => free'[i] # free'[j]
    BY <2>1 DEF ParsersNotShared
  <2>7. \A t \in Open : \A i \in 1 .. Len(free') : free'[i] # parser'[t]
    BY <1>1, <2>1 DEF ParsersNotShared
  <2>8. \A t, u \in Open : t # u => parser'[t] # parser'[u]
    BY <1>1 DEF ParsersNotShared
  <2>9. QED
    BY <2>3, <2>4, <2>5, <2>6, <2>7, <2>8 DEF ParsersNotShared
<1>3. CASE free = <<>>
  <2>1. /\ parser'[s] = made + 1 /\ made' = made + 1 /\ made \in Nat
        /\ free' = free /\ Len(free) = 0
    BY <1>3 DEF Alloc, TypeOK
  <2>2. ParsersNumbered'
    BY <1>1, <2>1 DEF ParsersNumbered
  <2>3. \A t \in Open : parser'[t] # parser'[s]
    BY <1>1, <2>1 DEF ParsersNumbered
  <2>4. \A t, u \in Open : t # u => parser'[t] # parser'[u]
    BY <1>1 DEF ParsersNotShared
  <2>5. QED
    BY <2>1, <2>2, <2>3, <2>4 DEF ParsersNotShared
<1>4. QED
  BY <1>2, <1>3

\* A parser given back is nobody's any more.
LEMMA DestroyParsers ==
  ASSUME TypeOK, ~again, ParsersNumbered, ParsersNotShared,
         NEW s \in Sockets, Destroy(s)
  PROVE  ParsersNumbered' /\ ParsersNotShared'
<1> DEFINE p == parser[s]
<1>1. /\ s \in Open /\ Open' = Open \ {s} /\ parser' = parser /\ made' = made
      /\ p \in Nat
  BY DEF Destroy, Open, TypeOK
<1>2. free' = free \/ free' = Append(free, p)
  <2>1. CASE MaxFree > Len(free)
    <3>1. MaxFree - Len(free) >= 1
      BY <2>1, ServerAssumption DEF TypeOK
    <3>2. free' = free \o [i \in 1 .. 1 |-> p]
      BY <2>1, <3>1, ServerAssumption DEF Destroy, Freed, TypeOK
    <3>3. [i \in 1 .. 1 |-> p] = <<p>>
      OBVIOUS
    <3>4. QED
      BY <1>1, <3>2, <3>3 DEF TypeOK
  <2>2. CASE ~(MaxFree > Len(free))
    <3>1. free' = free \o [i \in 1 .. 0 |-> p]
      BY <2>2, ServerAssumption DEF Destroy, Freed, TypeOK
    <3>2. [i \in 1 .. 0 |-> p] = <<>>
      OBVIOUS
    <3>3. QED
      BY <3>1, <3>2 DEF TypeOK
  <2>3. QED
    BY <2>1, <2>2
<1>3. CASE free' = free
  BY <1>1, <1>3 DEF ParsersNumbered, ParsersNotShared
<1>4. CASE free' = Append(free, p)
  <2>1. /\ Len(free) \in Nat /\ Len(free') = Len(free) + 1
        /\ \A i \in 1 .. Len(free) : free'[i] = free[i]
        /\ free'[Len(free) + 1] = p
    BY <1>1, <1>4 DEF TypeOK
  <2>2. ParsersNumbered'
    BY <1>1, <2>1 DEF ParsersNumbered
  <2>3. \A t \in Open' : \A i \in 1 .. Len(free') : free'[i] # parser'[t]
    BY <1>1, <2>1 DEF ParsersNotShared
  <2>4. \A i, j \in 1 .. Len(free') : i # j => free'[i] # free'[j]
    BY <1>1, <2>1 DEF ParsersNotShared
  <2>5. QED
    BY <1>1, <2>2, <2>3, <2>4 DEF ParsersNotShared
<1>5. QED
  BY <1>2, <1>3, <1>4

\* No two connections feed the same parser, and none of a parser in use is
\* free, whatever their number and that of spare parsers (NetServer:
\* ParsersOwned; http2.js:1389, freelist.js:31-43).
THEOREM ParsersAreOwned == Spec => []ParsersOwned
<1>1. Init => ParserInv
  BY DEF Init, ParserInv, ParsersNumbered, ParsersNotShared, Open
<1>2. ASSUME CountInv, ParserInv, [Next]_vars PROVE ParserInv'
  <2>1. CASE OnConnection
    <3> DEFINE s == Head(posted)
    <3>1. s \in Sockets /\ status[s] = "posted"
      BY <1>2, <2>1 DEF OnConnection, CountInv, TypeOK, PostedOnce
    <3>2. CASE status' = [status EXCEPT ![s] = "refused"]
               /\ UNCHANGED <<free, parser, made>>
      <4>1. Open' = Open
        BY <1>2, <3>1, <3>2 DEF Open, CountInv, TypeOK
      <4>2. QED
        BY <1>2, <2>1, <3>2, <4>1
        DEF OnConnection, ParserInv, ParsersNumbered, ParsersNotShared
    <3>3. CASE status' = [status EXCEPT ![s] = "open"] /\ Alloc(s)
      <4>1. Open' = Open \cup {s} /\ s \notin Open
        BY <1>2, <3>1, <3>3 DEF Open, CountInv, TypeOK
      <4>2. QED
        BY <1>2, <2>1, <3>1, <3>3, <4>1, AllocParsers
        DEF OnConnection, ParserInv, CountInv
    <3>4. QED
      BY <2>1, <3>2, <3>3 DEF OnConnection
  <2>2. ASSUME NEW s \in Sockets, Destroy(s) PROVE ParserInv'
    BY <1>2, <2>2, DestroyParsers DEF ParserInv, CountInv, Destroy
  <2>3. ASSUME NEW s \in Sockets, Accept(s) PROVE ParserInv'
    <3>1. Open' = Open
      BY <1>2, <2>3 DEF Accept, Open, CountInv, TypeOK
    <3>2. QED
      BY <1>2, <2>3, <3>1
      DEF Accept, ParserInv, ParsersNumbered, ParsersNotShared
  <2>4. ASSUME NEW s \in Sockets, DestroyNested(s) \/ DestroyDestroyed(s)
        PROVE  ParserInv'
    BY <2>4 DEF DestroyNested, DestroyDestroyed, ParserInv
  <2>5. CASE CloseListener \/ Close \/ UNCHANGED vars
    BY <1>2, <2>5 DEF CloseListener, Close, vars, ParserInv, ParsersNumbered,
                      ParsersNotShared, Open
  <2>6. QED
    BY <1>2, <2>1, <2>2, <2>3, <2>4, <2>5 DEF Next
<1>3. ParserInv => ParsersOwned
  BY DEF ParserInv, ParsersOwned
<1>4. QED
  BY <1>1, <1>2, <1>3, CountInit, CountStep, PTL DEF Spec
=============================================================================
