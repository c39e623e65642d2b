------------------------ MODULE PluginObjectsProofs ------------------------
(* Proofs about PluginObjects, for any sets of objects and functions.      *)
EXTENDS PluginObjects, FiniteSetTheorems, TLAPS

\* The holders of a function's references.
SocketsOf(f) == {s \in Sockets : callback[s] = f}
RequestsOf(f) == {r \in Requests : callback[r] = f}

OnPage(o) == IF o \in page THEN 1 ELSE 0
Owned(b) == IF b \in destroyed THEN 0 ELSE 1

\* What has not been made is nowhere, and a request stays: nothing gives up
\* the reference TCPWrap::Invoke takes.
Made ==
  /\ page \subseteq born /\ deleted \subseteq born /\ destroyed \subseteq born
  /\ closing \subseteq born
  /\ deleted \cap Requests = {}
  /\ \A r \in Requests \ born :
       payload[r] = Nothing /\ callback[r] = Nothing /\ stage[r] = "none"
  /\ \A r \in Requests \cap born : owner[r] \in Sockets \cap born
  /\ \A r \in Requests : payload[r] \in Buffers => payload[r] \in born

\* What each count stands for. Of a socket it is a bound, because what accepts
\* it gives up no reference and OnClose does not ask.
Counts ==
  /\ BuffersAccounted
  /\ \A r \in Requests \cap born : refs[r] = 1 + OnPage(r)
  /\ \A s \in Sockets \cap born : refs[s] >= 1 + OnPage(s)
  /\ \A f \in Functions :
       refs[f] = Cardinality(SocketsOf(f)) + 2 * Cardinality(RequestsOf(f))

\* The copy of a string lives until OnWrite frees it.
Copies ==
  /\ \A r \in Requests :
       payload[r] = String /\ stage[r] \in {"queued", "kernel"} => r \in copied
  /\ inOnWrite # Nothing =>
       /\ stage[inOnWrite] \in {"posted", "done"}
       /\ payload[inOnWrite] = String => inOnWrite \in copied

ObjectsInv == TypeOK /\ Made /\ Counts /\ Copies

-----------------------------------------------------------------------------
(* Counting.                                                               *)

\* A new element makes a finite set larger by one.
LEMMA Grown ==
  ASSUME NEW S, IsFiniteSet(S), NEW x, x \notin S
  PROVE  Cardinality(S \cup {x}) = Cardinality(S) + 1
  BY FS_AddElement

\* Taking an element out makes it smaller by one.
LEMMA Shrunk ==
  ASSUME NEW S, IsFiniteSet(S), NEW x \in S
  PROVE  Cardinality(S \ {x}) = Cardinality(S) - 1
  BY FS_RemoveElement

\* A finite set with an element has a positive size.
LEMMA Inhabited ==
  ASSUME NEW S, IsFiniteSet(S), NEW x \in S
  PROVE  Cardinality(S) \in Nat /\ Cardinality(S) > 0
<1>1. Cardinality(S) \in Nat /\ Cardinality(S) # 0
  BY FS_CardinalityType, FS_EmptySet
<1>2. QED
  BY <1>1

\* What holds an object can be counted.
LEMMA HoldersFinite ==
  ASSUME NEW x
  PROVE  /\ IsFiniteSet(SocketsOf(x)) /\ Cardinality(SocketsOf(x)) \in Nat
         /\ IsFiniteSet(RequestsOf(x)) /\ Cardinality(RequestsOf(x)) \in Nat
         /\ IsFiniteSet(WritesOf(x)) /\ Cardinality(WritesOf(x)) \in Nat
<1>1. /\ SocketsOf(x) \subseteq Sockets /\ RequestsOf(x) \subseteq Requests
      /\ WritesOf(x) \subseteq Requests
  BY DEF SocketsOf, RequestsOf, WritesOf
<1>2. QED
  BY <1>1, FS_Subset, FS_CardinalityType, ObjectsAssumption

\* A function a socket or a request would call has a reference.
LEMMA HolderCounts ==
  ASSUME ObjectsInv, NEW o \in Sockets \cup Requests, callback[o] # Nothing
  PROVE  refs[callback[o]] > 0
<1> DEFINE f == callback[o]
<1>1. f \in Functions
  BY DEF ObjectsInv, TypeOK
<1>2. refs[f] = Cardinality(SocketsOf(f)) + 2 * Cardinality(RequestsOf(f))
  BY <1>1 DEF ObjectsInv, Counts
<1>3. CASE o \in Sockets
  <2>1. Cardinality(SocketsOf(f)) > 0
    <3>1. o \in SocketsOf(f)
      BY <1>3 DEF SocketsOf
    <3>2. QED
      BY <3>1, HoldersFinite, Inhabited
  <2>2. QED
    BY <1>2, <2>1, HoldersFinite
<1>4. CASE o \in Requests
  <2>1. Cardinality(RequestsOf(f)) > 0
    <3>1. o \in RequestsOf(f)
      BY <1>4 DEF RequestsOf
    <3>2. QED
      BY <3>1, HoldersFinite, Inhabited
  <2>2. QED
    BY <1>2, <2>1, HoldersFinite
<1>5. QED
  BY <1>3, <1>4

\* A buffer that a request has written is never deleted.
LEMMA WrittenStays ==
  ASSUME ObjectsInv, NEW r \in Requests, payload[r] \in Buffers
  PROVE  payload[r] \notin deleted
<1> DEFINE b == payload[r]
<1>1. b \in Buffers \cap born
  BY DEF ObjectsInv, Made
<1>2. Cardinality(WritesOf(b)) > 0
  <2>1. r \in WritesOf(b)
    BY DEF WritesOf
  <2>2. QED
    BY <2>1, HoldersFinite, Inhabited
<1>3. refs[b] > 0
  BY <1>1, <1>2, HoldersFinite DEF ObjectsInv, Counts, BuffersAccounted
<1>4. QED
  BY <1>1, <1>3 DEF ObjectsInv, Counts, BuffersAccounted

\* The initial state satisfies the invariant.
LEMMA ObjectsInit == Init => ObjectsInv
<1> SUFFICES ASSUME Init PROVE ObjectsInv
  OBVIOUS
<1>1. TypeOK
  BY DEF Init, TypeOK, Stages
<1>2. Made /\ Copies
  BY ObjectsAssumption DEF Init, Made, Copies, Kept, Objects
<1>3. Counts
  <2>1. ASSUME NEW f \in Functions PROVE SocketsOf(f) = {} /\ RequestsOf(f) = {}
    BY ObjectsAssumption DEF Init, SocketsOf, RequestsOf, Kept
  <2>2. \A f \in Functions :
          refs[f] = Cardinality(SocketsOf(f)) + 2 * Cardinality(RequestsOf(f))
    BY <2>1, FS_EmptySet DEF Init, Kept
  <2>3. QED
    BY <2>2 DEF Init, Counts, BuffersAccounted
<1>4. QED
  BY <1>1, <1>2, <1>3 DEF ObjectsInv

-----------------------------------------------------------------------------
(* One lemma for each kind of step.                                        *)

\* The objects are of four kinds.
LEMMA Kinds ==
  /\ Sockets \cap Buffers = {} /\ Sockets \cap Requests = {}
  /\ Buffers \cap Requests = {} /\ Functions \cap Objects = {}
  /\ {Nothing, String, Shutdown} \cap Kept = {}
  /\ Nothing # String /\ Nothing # Shutdown /\ String # Shutdown
  /\ Sockets \subseteq Objects /\ Buffers \subseteq Objects
  /\ Requests \subseteq Objects /\ Objects \subseteq Kept
  /\ Functions \subseteq Kept
  BY ObjectsAssumption DEF Objects, Kept

\* Holders of a reference change with payload and callback only.
LEMMA SameHolders ==
  ASSUME UNCHANGED <<payload, callback>>, NEW x
  PROVE  /\ WritesOf(x)' = WritesOf(x)
         /\ SocketsOf(x)' = SocketsOf(x) /\ RequestsOf(x)' = RequestsOf(x)
  BY DEF WritesOf, SocketsOf, RequestsOf

\* A step that makes and gives up no reference.
LEMMA CountsFrame ==
  ASSUME ObjectsInv, UNCHANGED <<refs, born, page, payload, callback, destroyed>>,
         deleted' \cap Buffers = deleted \cap Buffers
  PROVE  Counts'
<1>1. \A x : /\ WritesOf(x)' = WritesOf(x)
             /\ SocketsOf(x)' = SocketsOf(x) /\ RequestsOf(x)' = RequestsOf(x)
  BY SameHolders
<1>2. BuffersAccounted'
  BY <1>1 DEF ObjectsInv, Counts, BuffersAccounted
<1>3. QED
  BY <1>1, <1>2 DEF ObjectsInv, Counts, OnPage

\* A new buffer or socket.
LEMMA BirthStep ==
  ASSUME ObjectsInv, NEW o \in Sockets \cup Buffers, o \notin born,
         born' = born \cup {o}, NEW n \in Nat, refs' = [refs EXCEPT ![o] = n],
         \/ page' = page \cup {o} /\ n = 2
         \/ page' = page /\ n = 2 /\ o \in Sockets,
         UNCHANGED <<deleted, requestVars, inOnWrite, closing, destroyed>>
  PROVE  ObjectsInv'
<1> USE DEF requestVars
<1>1. TypeOK'
  BY Kinds DEF ObjectsInv, TypeOK
<1>2. Made' /\ Copies'
  BY Kinds DEF ObjectsInv, Made, Copies
<1>3. o \notin page /\ o \notin destroyed /\ o \notin deleted
  BY DEF ObjectsInv, Made
<1>4. /\ \A b \in Kept : b # o => refs'[b] = refs[b]
      /\ refs'[o] = n
      /\ \A x \in Kept : x # o => (x \in page' <=> x \in page)
  BY Kinds DEF ObjectsInv, TypeOK
<1>5. \A x : /\ WritesOf(x)' = WritesOf(x)
             /\ SocketsOf(x)' = SocketsOf(x) /\ RequestsOf(x)' = RequestsOf(x)
  BY SameHolders
<1>6. BuffersAccounted'
  <2> SUFFICES ASSUME NEW b \in Buffers \cap born'
               PROVE /\ refs'[b] = (IF b \in destroyed' THEN 0 ELSE 1)
                                   + (IF b \in page' THEN 1 ELSE 0)
                                   + Cardinality(WritesOf(b)')
                     /\ b \in deleted' <=> refs'[b] = 0
    BY DEF BuffersAccounted
  <2>1. CASE b = o
    <3>1. WritesOf(o) = {}
      BY <2>1 DEF ObjectsInv, Made, WritesOf
    <3>2. n = 2 /\ o \in page'
      BY <2>1, Kinds
    <3>3. QED
      BY <1>3, <1>4, <1>5, <2>1, <3>1, <3>2, FS_EmptySet
  <2>2. CASE b # o
    <3>1. b \in Kept /\ b \in Buffers \cap born
      BY <2>2, Kinds
    <3>2. QED
      BY <1>4, <1>5, <2>2, <3>1 DEF ObjectsInv, Counts, BuffersAccounted
  <2>3. QED
    BY <2>1, <2>2
<1>7. \A r \in Requests \cap born' : refs'[r] = 1 + OnPage(r)'
  BY <1>4, Kinds DEF ObjectsInv, Counts, OnPage
<1>8. \A s \in Sockets \cap born' : refs'[s] >= 1 + OnPage(s)'
  BY <1>4, Kinds DEF ObjectsInv, Counts, OnPage
<1>9. \A f \in Functions :
        refs'[f] = Cardinality(SocketsOf(f)') + 2 * Cardinality(RequestsOf(f)')
  BY <1>4, <1>5, Kinds DEF ObjectsInv, Counts
<1>10. QED
  BY <1>1, <1>2, <1>6, <1>7, <1>8, <1>9 DEF ObjectsInv, Counts

\* Steps that touch no reference.
LEMMA QuietSteps ==
  ASSUME ObjectsInv,
         \/ \E s \in Sockets : Close(s) \/ OnClose(s)
         \/ \E r \in Requests : WorkerStarts(r) \/ OnWritePosts(r) \/ OnShutdown(r)
         \/ OnWriteFrees
         \/ UNCHANGED vars
  PROVE  ObjectsInv'
<1>1. ASSUME NEW s \in Sockets, Close(s) PROVE ObjectsInv'
  <2>1. Counts'
    BY <1>1, CountsFrame DEF Close, heapVars, requestVars
  <2>2. QED
    BY <1>1, <2>1
    DEF Close, Callable, heapVars, requestVars, ObjectsInv, TypeOK, Made, Copies
<1>2. ASSUME NEW s \in Sockets, OnClose(s) PROVE ObjectsInv'
  <2>1. TypeOK' /\ Made' /\ Copies'
    BY <1>2, Kinds DEF OnClose, requestVars, ObjectsInv, TypeOK, Made, Copies
  <2>2. Counts'
    BY <1>2, CountsFrame, Kinds DEF OnClose, requestVars
  <2>3. QED
    BY <2>1, <2>2 DEF ObjectsInv
<1>3. ASSUME NEW r \in Requests, WorkerStarts(r) \/ OnWritePosts(r) \/ OnShutdown(r)
      PROVE  ObjectsInv'
  <2>1. TypeOK'
    BY <1>3 DEF WorkerStarts, OnWritePosts, OnShutdown, heapVars, ObjectsInv,
                TypeOK, Stages
  <2>2. r \in born
    BY <1>3 DEF WorkerStarts, OnWritePosts, OnShutdown, ObjectsInv, Made
  <2>3. Made'
    BY <1>3, <2>2 DEF WorkerStarts, OnWritePosts, OnShutdown, heapVars,
                      ObjectsInv, TypeOK, Made
  <2>4. Copies'
    BY <1>3, Kinds DEF WorkerStarts, OnWritePosts, OnShutdown, WorkerFree,
                       ObjectsInv, TypeOK, Copies
  <2>5. Counts'
    BY <1>3, CountsFrame DEF WorkerStarts, OnWritePosts, OnShutdown, heapVars
  <2>6. QED
    BY <2>1, <2>3, <2>4, <2>5 DEF ObjectsInv
<1>4. CASE OnWriteFrees
  <2>1. TypeOK' /\ Made'
    BY <1>4 DEF OnWriteFrees, heapVars, ObjectsInv, TypeOK, Made
  <2>2. Copies'
    BY <1>4 DEF OnWriteFrees, WorkerFree, ObjectsInv, Copies
  <2>3. Counts'
    BY <1>4, CountsFrame DEF OnWriteFrees, heapVars
  <2>4. QED
    BY <2>1, <2>2, <2>3 DEF ObjectsInv
<1>5. CASE UNCHANGED vars
  <2>1. Counts'
    BY <1>5, CountsFrame DEF vars
  <2>2. QED
    BY <1>5, <2>1 DEF vars, ObjectsInv, TypeOK, Made, Copies
<1>6. QED
  BY <1>1, <1>2, <1>3, <1>4, <1>5

\* The page gets wrappers of objects that are there.
LEMMA WrapStep ==
  ASSUME ObjectsInv, NEW given \in SUBSET (Sockets \cup Requests),
         given \subseteq born,
         page' = page \cup given,
         refs' = [o \in Kept |-> IF o \in given THEN refs[o] + Wrapped(o)
                                 ELSE refs[o]],
         UNCHANGED <<born, deleted, callback, payload, destroyed>>
  PROVE  /\ refs' \in [Kept -> Nat] /\ page' \in SUBSET Objects
         /\ Counts'
         /\ page' \subseteq born'
<1>1. \A o \in Kept : /\ o \in given => refs'[o] = refs[o] + (1 - OnPage(o))
                      /\ o \notin given => refs'[o] = refs[o]
                      /\ refs[o] \in Nat
  BY DEF Wrapped, OnPage, ObjectsInv, TypeOK
<1>2. refs' \in [Kept -> Nat]
  BY <1>1 DEF OnPage
<1>3. page' \in SUBSET Objects /\ page' \subseteq born'
  BY Kinds DEF ObjectsInv, TypeOK, Made
<1>4. \A x : /\ WritesOf(x)' = WritesOf(x)
             /\ SocketsOf(x)' = SocketsOf(x) /\ RequestsOf(x)' = RequestsOf(x)
  BY SameHolders
<1>5. BuffersAccounted'
  BY <1>1, <1>4, Kinds DEF ObjectsInv, Counts, BuffersAccounted
<1>6. \A o \in (Sockets \cup Requests) \cap born :
        refs'[o] - OnPage(o)' = refs[o] - OnPage(o)
  BY <1>1, Kinds DEF OnPage
<1>7. \A r \in Requests \cap born' : refs'[r] = 1 + OnPage(r)'
  BY <1>1, Kinds DEF ObjectsInv, Counts, OnPage
<1>8. \A s \in Sockets \cap born' : refs'[s] >= 1 + OnPage(s)'
  BY <1>1, Kinds DEF ObjectsInv, Counts, OnPage
<1>9. \A f \in Functions :
        refs'[f] = Cardinality(SocketsOf(f)') + 2 * Cardinality(RequestsOf(f)')
  BY <1>1, <1>4, Kinds DEF ObjectsInv, Counts
<1>10. QED
  BY <1>2, <1>3, <1>5, <1>7, <1>8, <1>9 DEF Counts

\* The calls posted to the main thread keep it.
LEMMA CallbackSteps ==
  ASSUME ObjectsInv,
         \/ \E s \in Sockets : OnconnectionCallback(s)
         \/ \E r \in Requests : OncompleteCallback(r)
  PROVE  ObjectsInv'
<1>1. ASSUME NEW s \in Sockets, OnconnectionCallback(s) PROVE ObjectsInv'
  <2>1. refs' = [o \in Kept |-> IF o \in {s} THEN refs[o] + Wrapped(o)
                                ELSE refs[o]]
    BY <1>1, Kinds DEF OnconnectionCallback, ObjectsInv, TypeOK
  <2>2. refs' \in [Kept -> Nat] /\ page' \in SUBSET Objects /\ Counts'
        /\ page' \subseteq born'
    BY <1>1, <2>1, WrapStep DEF OnconnectionCallback, requestVars
  <2>3. QED
    BY <1>1, <2>2 DEF OnconnectionCallback, requestVars, ObjectsInv, TypeOK,
                      Made, Copies
<1>2. ASSUME NEW r \in Requests, OncompleteCallback(r) PROVE ObjectsInv'
  <2> DEFINE given == {r, owner[r]} \ deleted
  <2>1. r \in born
    BY <1>2 DEF OncompleteCallback, ObjectsInv, Made
  <2>2. given \subseteq born /\ given \in SUBSET (Sockets \cup Requests)
    BY <2>1 DEF ObjectsInv, Made
  <2>3. /\ page' = page \cup given
        /\ refs' = [o \in Kept |-> IF o \in given THEN refs[o] + Wrapped(o)
                                   ELSE refs[o]]
    BY <1>2 DEF OncompleteCallback
  <2>4. refs' \in [Kept -> Nat] /\ page' \in SUBSET Objects /\ Counts'
        /\ page' \subseteq born'
    BY <1>2, <2>2, <2>3, WrapStep DEF OncompleteCallback
  <2>5. stage' \in [Requests -> Stages]
    BY <1>2 DEF OncompleteCallback, ObjectsInv, TypeOK, Stages
  <2>6. Copies'
    BY <1>2 DEF OncompleteCallback, ObjectsInv, TypeOK, Copies
  <2>7. Made'
    BY <1>2, <2>1, <2>4 DEF OncompleteCallback, ObjectsInv, TypeOK, Made
  <2>8. TypeOK'
    BY <1>2, <2>4, <2>5 DEF OncompleteCallback, ObjectsInv, TypeOK
  <2>9. QED
    BY <2>4, <2>6, <2>7, <2>8 DEF ObjectsInv
<1>3. QED
  BY <1>1, <1>2

\* NPN_ReleaseObject of something the page has.
LEMMA ReleaseStep ==
  ASSUME ObjectsInv, NEW o \in page,
         Release(o),
         \/ o \notin deleted /\ page' = page \ {o} /\ destroyed' = destroyed
         \/ /\ o \in Buffers \ destroyed
            /\ page' = page /\ destroyed' = destroyed \cup {o},
         UNCHANGED <<born, requestVars, inOnWrite, closing>>
  PROVE  ObjectsInv'
<1> USE DEF requestVars
<1>1. o \in born /\ o \in Kept /\ o \in Objects
  BY Kinds DEF ObjectsInv, TypeOK, Made
<1>2. refs[o] \in Nat /\ refs[o] >= 1
  <2>1. CASE o \in Buffers
    BY <1>1, <2>1, HoldersFinite
    DEF ObjectsInv, TypeOK, Counts, BuffersAccounted
  <2>2. CASE o \in Sockets \cup Requests
    BY <1>1, <2>2 DEF ObjectsInv, TypeOK, Counts, OnPage
  <2>3. QED
    BY <1>1, <2>1, <2>2 DEF Objects
<1>3. /\ \A x \in Kept : x # o => refs'[x] = refs[x]
      /\ refs'[o] = refs[o] - 1
      /\ \A x : x # o => (x \in page' <=> x \in page)
      /\ \A x : x # o => (x \in destroyed' <=> x \in destroyed)
      /\ \A x : x # o => (x \in deleted' <=> x \in deleted)
  BY <1>1 DEF Release, ObjectsInv, TypeOK
<1>4. o \in Sockets \cup Requests => refs[o] >= 2 /\ deleted' = deleted
  BY <1>1 DEF ObjectsInv, TypeOK, Counts, OnPage, Release
<1>5. TypeOK'
  BY <1>1, <1>2 DEF Release, ObjectsInv, TypeOK
<1>6. Made'
  BY <1>1, <1>4, Kinds DEF Release, ObjectsInv, Made, Objects
<1>7. Copies'
  BY DEF ObjectsInv, Copies
<1>8. \A x : /\ WritesOf(x)' = WritesOf(x)
             /\ SocketsOf(x)' = SocketsOf(x) /\ RequestsOf(x)' = RequestsOf(x)
  BY SameHolders
<1>9. BuffersAccounted'
  <2> SUFFICES ASSUME NEW b \in Buffers \cap born
               PROVE /\ refs'[b] = (IF b \in destroyed' THEN 0 ELSE 1)
                                   + (IF b \in page' THEN 1 ELSE 0)
                                   + Cardinality(WritesOf(b))
                     /\ b \in deleted' <=> refs'[b] = 0
    BY <1>8 DEF BuffersAccounted
  <2>1. /\ refs[b] = (IF b \in destroyed THEN 0 ELSE 1)
                     + (IF b \in page THEN 1 ELSE 0) + Cardinality(WritesOf(b))
        /\ b \in deleted <=> refs[b] = 0
    BY DEF ObjectsInv, Counts, BuffersAccounted
  <2>2. CASE b = o
    <3>1. b \in deleted' <=> refs'[b] = 0
      BY <1>2, <1>3, <2>1, <2>2 DEF Release
    <3>2. QED
      BY <1>3, <2>1, <2>2, <3>1, HoldersFinite
  <2>3. CASE b # o
    BY <1>3, <2>1, <2>3, Kinds
  <2>4. QED
    BY <2>2, <2>3
<1>10. \A r \in Requests \cap born' : refs'[r] = 1 + OnPage(r)'
  BY <1>1, <1>2, <1>3, Kinds DEF ObjectsInv, Counts, OnPage
<1>11. \A s \in Sockets \cap born' : refs'[s] >= 1 + OnPage(s)'
  BY <1>1, <1>2, <1>3, Kinds DEF ObjectsInv, TypeOK, Counts, OnPage
<1>12. \A f \in Functions :
        refs'[f] = Cardinality(SocketsOf(f)') + 2 * Cardinality(RequestsOf(f)')
  BY <1>1, <1>3, <1>8, Kinds DEF ObjectsInv, Counts
<1>13. QED
  BY <1>5, <1>6, <1>7, <1>9, <1>10, <1>11, <1>12 DEF ObjectsInv, Counts

\* A request is made: write(data, f, cb) or shutdown(f) on socket s.
LEMMA RequestStep ==
  ASSUME ObjectsInv, NEW s \in page \cap Sockets, NEW r \in Requests \ born,
         NEW f \in Functions, NEW p \in Payloads,
         p \in Buffers => p \in page,
         Request(s, r, f, p),
         IF p = String THEN copied' = copied \cup {r} ELSE copied' = copied
  PROVE  ObjectsInv'
<1> USE DEF Request
<1>1. /\ r \notin page /\ r \notin deleted /\ stage[r] = "none"
      /\ payload[r] = Nothing /\ callback[r] = Nothing
      /\ s \in born /\ p \in Buffers => p \in born
  BY DEF ObjectsInv, Made
<1>2. /\ f \in Kept /\ r \in Kept /\ f # r /\ p # r /\ f # p
      /\ p # Nothing /\ s # r
  <2>1. f \in Kept /\ r \in Kept /\ f # r /\ s # r
    BY Kinds
  <2>2. p # r /\ f # p /\ p # Nothing
    BY <2>1, Kinds DEF Payloads
  <2>3. QED
    BY <2>1, <2>2
<1>3. /\ refs'[r] = 2
      /\ refs'[f] = refs[f] + 2
      /\ p \in Buffers => refs'[p] = refs[p] + 1
      /\ \A x \in Kept : x \notin {r, f, p} => refs'[x] = refs[x]
      /\ \A x \in Kept : refs[x] \in Nat
  BY <1>1, <1>2, Kinds DEF Created, Wrapped, Returned, ObjectsInv, TypeOK
<1>4. refs' \in [Kept -> Nat]
  <2>1. \A x \in Kept : refs'[x] \in Nat
    BY <1>2, <1>3, Kinds DEF Payloads
  <2>2. QED
    BY <2>1
<1>5. TypeOK'
  <2>1. /\ callback' \in [Sockets \cup Requests -> Functions \cup {Nothing}]
        /\ payload' \in [Requests -> Payloads \cup {Nothing}]
        /\ owner' \in [Requests -> Sockets \cup {Nothing}]
        /\ stage' \in [Requests -> Stages] /\ copied' \in SUBSET Requests
    BY DEF ObjectsInv, TypeOK, Stages
  <2>2. QED
    BY <1>4, <2>1, Kinds DEF ObjectsInv, TypeOK
<1>6. Made'
  BY <1>1, <1>2, Kinds DEF ObjectsInv, TypeOK, Made
<1>7. Copies'
  BY <1>1, <1>2 DEF ObjectsInv, TypeOK, Copies
<1>8. /\ \A b \in Buffers : WritesOf(b)' = IF b = p THEN WritesOf(b) \cup {r}
                                           ELSE WritesOf(b)
      /\ \A b \in Buffers : r \notin WritesOf(b)
  BY <1>1, <1>2, Kinds DEF WritesOf, ObjectsInv, TypeOK
<1>9. \A g \in Functions :
        /\ SocketsOf(g)' = SocketsOf(g)
        /\ RequestsOf(g)' = IF g = f THEN RequestsOf(g) \cup {r} ELSE RequestsOf(g)
        /\ r \notin RequestsOf(g)
  BY <1>1, <1>2, Kinds DEF SocketsOf, RequestsOf, ObjectsInv, TypeOK
<1>10. BuffersAccounted'
  <2> SUFFICES ASSUME NEW b \in Buffers \cap born'
               PROVE /\ refs'[b] = (IF b \in destroyed' THEN 0 ELSE 1)
                                   + (IF b \in page' THEN 1 ELSE 0)
                                   + Cardinality(WritesOf(b)')
                     /\ b \in deleted' <=> refs'[b] = 0
    BY DEF BuffersAccounted
  <2>1. b \in born /\ b # r /\ b # f /\ b \in Kept
    BY Kinds
  <2>2. /\ refs[b] = (IF b \in destroyed THEN 0 ELSE 1)
                     + (IF b \in page THEN 1 ELSE 0) + Cardinality(WritesOf(b))
        /\ b \in deleted <=> refs[b] = 0
    BY <2>1 DEF ObjectsInv, Counts, BuffersAccounted
  <2>3. b \in page' <=> b \in page
    BY <2>1
  <2>4. CASE b = p
    <3>1. Cardinality(WritesOf(b)') = Cardinality(WritesOf(b)) + 1
      BY <1>8, <2>4, HoldersFinite, Grown
    <3>2. refs[b] >= 1 /\ refs[b] \in Nat /\ refs'[b] = refs[b] + 1
      BY <1>3, <2>1, <2>2, <2>4, HoldersFinite
    <3>3. QED
      BY <2>2, <2>3, <3>1, <3>2, HoldersFinite
  <2>5. CASE b # p
    BY <1>3, <1>8, <2>1, <2>2, <2>3, <2>5
  <2>6. QED
    BY <2>4, <2>5
<1>11. \A q \in Requests \cap born' : refs'[q] = 1 + OnPage(q)'
  <2> SUFFICES ASSUME NEW q \in Requests \cap born'
               PROVE refs'[q] = 1 + OnPage(q)'
    OBVIOUS
  <2>1. CASE q = r
    BY <1>3, <2>1 DEF OnPage
  <2>2. CASE q # r
    <3>1. q \in born /\ q \in Kept /\ q # f /\ q # p
      BY <2>2, Kinds DEF Payloads
    <3>2. QED
      BY <1>3, <2>2, <3>1 DEF ObjectsInv, Counts, OnPage
  <2>3. QED
    BY <2>1, <2>2
<1>12. \A t \in Sockets \cap born' : refs'[t] >= 1 + OnPage(t)'
  <2> SUFFICES ASSUME NEW t \in Sockets \cap born'
               PROVE refs'[t] >= 1 + OnPage(t)'
    OBVIOUS
  <2>1. t \in born /\ t \in Kept /\ t # f /\ t # p /\ t # r
    BY Kinds DEF Payloads
  <2>2. QED
    BY <1>3, <2>1 DEF ObjectsInv, Counts, OnPage
<1>13. \A g \in Functions :
        refs'[g] = Cardinality(SocketsOf(g)') + 2 * Cardinality(RequestsOf(g)')
  <2> SUFFICES ASSUME NEW g \in Functions
               PROVE refs'[g] = Cardinality(SocketsOf(g)')
                                + 2 * Cardinality(RequestsOf(g)')
    OBVIOUS
  <2>1. refs[g] = Cardinality(SocketsOf(g)) + 2 * Cardinality(RequestsOf(g))
    BY DEF ObjectsInv, Counts
  <2>2. CASE g = f
    <3>1. Cardinality(RequestsOf(g)') = Cardinality(RequestsOf(g)) + 1
      BY <1>9, <2>2, HoldersFinite, Grown
    <3>2. QED
      BY <1>3, <1>9, <2>1, <2>2, <3>1, HoldersFinite
  <2>3. CASE g # f
    <3>1. g \in Kept /\ g # r /\ g # p
      BY Kinds DEF Payloads, Kept, Objects
    <3>2. QED
      BY <1>3, <1>9, <2>1, <2>3, <3>1
  <2>4. QED
    BY <2>2, <2>3
<1>14. QED
  BY <1>5, <1>6, <1>7, <1>10, <1>11, <1>12, <1>13 DEF ObjectsInv, Counts

\* handle.onread = f.
LEMMA SetOnreadStep ==
  ASSUME ObjectsInv, NEW s \in Sockets, NEW f \in Functions, SetOnread(s, f)
  PROVE  ObjectsInv'
<1> USE DEF SetOnread
<1> DEFINE old == callback[s]
<1>1. /\ old \in Functions \cup {Nothing} /\ old # f
      /\ f \in Kept /\ \A g \in Functions : g \in Kept
      /\ \A x \in Kept : refs[x] \in Nat
  BY Kinds DEF ObjectsInv, TypeOK
<1>2. old \in Functions => refs[old] > 0
  BY HolderCounts, Kinds
<1>3. /\ refs'[f] = refs[f] + 1
      /\ old \in Functions => refs'[old] = refs[old] - 1
      /\ \A x \in Kept : x \notin {f, old} => refs'[x] = refs[x]
  BY <1>1
<1>4. refs' \in [Kept -> Nat]
  <2>1. \A x \in Kept : refs'[x] \in Nat
    BY <1>1, <1>2, <1>3, Kinds
  <2>2. QED
    BY <2>1
<1>5. TypeOK'
  BY <1>4 DEF ObjectsInv, TypeOK
<1>6. callback' = [callback EXCEPT ![s] = f] /\ s \notin Requests
  BY Kinds
<1>7. Made' /\ Copies'
  BY <1>6 DEF ObjectsInv, TypeOK, Made, Copies
<1>8. \A x : WritesOf(x)' = WritesOf(x)
  BY DEF WritesOf
<1>9. \A x \in Objects : refs'[x] = refs[x]
  BY <1>1, <1>3, Kinds
<1>10. BuffersAccounted'
  BY <1>8, <1>9, Kinds DEF ObjectsInv, Counts, BuffersAccounted
<1>11. /\ \A r \in Requests \cap born' : refs'[r] = 1 + OnPage(r)'
       /\ \A t \in Sockets \cap born' : refs'[t] >= 1 + OnPage(t)'
  BY <1>9, Kinds DEF ObjectsInv, Counts, OnPage
<1>12. \A g \in Functions :
         refs'[g] = Cardinality(SocketsOf(g)') + 2 * Cardinality(RequestsOf(g)')
  <2> SUFFICES ASSUME NEW g \in Functions
               PROVE refs'[g] = Cardinality(SocketsOf(g)')
                                + 2 * Cardinality(RequestsOf(g)')
    OBVIOUS
  <2>1. /\ refs[g] = Cardinality(SocketsOf(g)) + 2 * Cardinality(RequestsOf(g))
        /\ refs[g] \in Nat
    BY <1>1 DEF ObjectsInv, Counts
  <2>2. RequestsOf(g)' = RequestsOf(g)
    BY <1>6 DEF RequestsOf, ObjectsInv, TypeOK
  <2>3. CASE g = f
    <3>1. SocketsOf(g)' = SocketsOf(g) \cup {s} /\ s \notin SocketsOf(g)
      BY <1>1, <1>6, <2>3 DEF SocketsOf, ObjectsInv, TypeOK
    <3>2. Cardinality(SocketsOf(g)') = Cardinality(SocketsOf(g)) + 1
      BY <3>1, HoldersFinite, Grown
    <3>3. QED
      BY <1>3, <2>1, <2>2, <2>3, <3>2, HoldersFinite
  <2>4. CASE g = old
    <3>1. SocketsOf(g)' = SocketsOf(g) \ {s} /\ s \in SocketsOf(g)
      BY <1>1, <1>6, <2>4 DEF SocketsOf, ObjectsInv, TypeOK
    <3>2. Cardinality(SocketsOf(g)') = Cardinality(SocketsOf(g)) - 1
      BY <3>1, HoldersFinite, Shrunk
    <3>3. QED
      BY <1>3, <2>1, <2>2, <2>4, <3>2, HoldersFinite
  <2>5. CASE g \notin {f, old}
    <3>1. SocketsOf(g)' = SocketsOf(g)
      BY <1>6, <2>5 DEF SocketsOf, ObjectsInv, TypeOK
    <3>2. QED
      BY <1>1, <1>3, <2>1, <2>2, <2>5, <3>1
  <2>6. QED
    BY <2>3, <2>4, <2>5
<1>13. QED
  BY <1>5, <1>7, <1>10, <1>11, <1>12 DEF ObjectsInv, Counts

\* So do the calls of the page.
LEMMA PageSteps ==
  ASSUME ObjectsInv,
         \/ \E o \in Objects : Create(o) \/ Forget(o)
         \/ \E s \in Sockets, r \in Requests, f \in Functions :
              \/ WriteString(s, r, f)
              \/ \E b \in Buffers : WriteBuffer(s, r, f, b)
              \/ ShutdownSocket(s, r, f)
         \/ \E b \in Buffers : DestroyBuffer(b)
  PROVE  ObjectsInv'
<1>1. ASSUME NEW o \in Objects, Create(o) PROVE ObjectsInv'
  <2>1. o \notin page
    BY <1>1 DEF Create, ObjectsInv, Made
  <2>2. refs' = [refs EXCEPT ![o] = 2]
    BY <1>1, <2>1 DEF Create, Created, Wrapped, Returned
  <2>3. QED
    BY <1>1, <2>2, BirthStep DEF Create
<1>2. ASSUME NEW o \in Objects, Forget(o) PROVE ObjectsInv'
  BY <1>2, ReleaseStep DEF Forget
<1>3. ASSUME NEW b \in Buffers, DestroyBuffer(b) PROVE ObjectsInv'
  BY <1>3, ReleaseStep DEF DestroyBuffer
<1>4. ASSUME NEW s \in Sockets, NEW r \in Requests, NEW f \in Functions,
             WriteString(s, r, f)
      PROVE  ObjectsInv'
  <2>1. String \notin Buffers
    BY Kinds
  <2>2. QED
    BY <1>4, <2>1, RequestStep DEF WriteString, Callable, Payloads
<1>5. ASSUME NEW s \in Sockets, NEW r \in Requests, NEW f \in Functions,
             NEW b \in Buffers, WriteBuffer(s, r, f, b)
      PROVE  ObjectsInv'
  <2>1. b # String
    BY Kinds
  <2>2. QED
    BY <1>5, <2>1, RequestStep DEF WriteBuffer, Callable, Payloads
<1>6. ASSUME NEW s \in Sockets, NEW r \in Requests, NEW f \in Functions,
             ShutdownSocket(s, r, f)
      PROVE  ObjectsInv'
  <2>1. Shutdown # String /\ Shutdown \notin Buffers
    BY Kinds
  <2>2. QED
    BY <1>6, <2>1, RequestStep DEF ShutdownSocket, Callable, Payloads
<1>7. QED
  BY <1>1, <1>2, <1>3, <1>4, <1>5, <1>6

\* So does every step.
LEMMA ObjectsStep == ObjectsInv /\ [Next]_vars => ObjectsInv'
<1> SUFFICES ASSUME ObjectsInv, [Next]_vars PROVE ObjectsInv'
  OBVIOUS
<1>1. ASSUME NEW s \in Sockets, Accept(s) PROVE ObjectsInv'
  <2>1. refs' = [refs EXCEPT ![s] = 2]
    BY <1>1 DEF Accept, Created
  <2>2. QED
    BY <1>1, <2>1, BirthStep DEF Accept
<1>2. ASSUME NEW s \in Sockets, NEW b \in Buffers, OnreadCallback(s, b)
      PROVE  ObjectsInv'
  <2>1. b \notin page
    BY <1>2 DEF OnreadCallback, ObjectsInv, Made
  <2>2. refs' = [refs EXCEPT ![b] = 2]
    BY <1>2, <2>1 DEF OnreadCallback, Created, Wrapped
  <2>3. QED
    BY <1>2, <2>2, BirthStep DEF OnreadCallback
<1>3. QED
  BY <1>1, <1>2, QuietSteps, CallbackSteps, PageSteps, SetOnreadStep
  DEF Next, Page, Worker, Callbacks

-----------------------------------------------------------------------------
(* The theorems.                                                           *)

\* Every reachable state is type-correct; in particular no reference count
\* goes below zero (PluginObjects: TypeOK).
THEOREM ObjectsTypeCorrect == Spec => []TypeOK
<1>1. ObjectsInv => TypeOK
  BY DEF ObjectsInv
<1>2. QED
  BY <1>1, ObjectsInit, ObjectsStep, PTL DEF Spec

\* Every reference of a buffer has its holder, for any number of buffers,
\* sockets and requests (PluginObjects: BuffersAccounted).
THEOREM BuffersAreAccounted == Spec => []BuffersAccounted
<1>1. ObjectsInv => BuffersAccounted
  BY DEF ObjectsInv, Counts
<1>2. QED
  BY <1>1, ObjectsInit, ObjectsStep, PTL DEF Spec

\* What a queued, running or posted request points to is there: the request,
\* its buffer or its copy of a string, and its function (PluginObjects:
\* InFlightAlive; tcp_wrap.cpp:157-223, 302-314, 380-396).
THEOREM InFlightStaysAlive == Spec => []InFlightAlive
<1>1. ObjectsInv => InFlightAlive
  <2> SUFFICES ASSUME ObjectsInv PROVE InFlightAlive
    OBVIOUS
  <2>1. \A r \in Requests : r \notin deleted
    BY DEF ObjectsInv, Made
  <2>2. ASSUME NEW r \in Requests PROVE payload[r] \notin deleted
    <3>1. CASE payload[r] \in Buffers
      BY <3>1, WrittenStays
    <3>2. CASE payload[r] \in {Nothing, String, Shutdown}
      BY <3>2, Kinds DEF ObjectsInv, TypeOK
    <3>3. QED
      BY <3>1, <3>2 DEF ObjectsInv, TypeOK, Payloads
  <2>3. ASSUME NEW r \in Requests, InFlight(r), payload[r] = String,
               stage[r] # "posted"
        PROVE  r \in copied
    BY <2>3, Kinds DEF InFlight, ObjectsInv, Copies
  <2>4. QED
    BY <2>1, <2>2, <2>3, HolderCounts DEF InFlightAlive
<1>2. QED
  BY <1>1, ObjectsInit, ObjectsStep, PTL DEF Spec
=============================================================================
