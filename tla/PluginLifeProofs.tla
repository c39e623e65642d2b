-------------------------- MODULE PluginLifeProofs --------------------------
(* Proofs about PluginLife and ScriptAccess, for any instances, handlers,  *)
(* function tables and bounds.                                             *)
EXTENDS PluginLife, TLAPS

-----------------------------------------------------------------------------
(* Types.                                                                  *)

\* Where the references go decides their types: TypeOK is inductive together
\* with ReferencesCounted and what the window and a page's references imply.
OneInstance ==
  /\ \A i \in live : live = {i} /\ window = i
  /\ \A i \in Instances : held[i] > 0 => i \in made
  /\ live # {} => entries = EntryPoints /\ functions = Copied
  /\ functions \in {{}, Copied}

BrowserTypeOK ==
  /\ entries \in {{}, EntryPoints}
  /\ functions \subseteq Copied
  /\ live \subseteq Instances /\ ended \subseteq Instances
  /\ live \cap ended = {}
  /\ made \subseteq live \cup ended /\ freed \subseteq made
  /\ refs \in [Instances -> Nat] /\ held \in [Instances -> 0 .. MaxHeld]
  /\ window \in live \cup ended \cup {NoInstance}
  /\ windowRefs \in [Instances -> Nat]
  /\ threads \in Nat
  /\ nullCall \in BOOLEAN

LifeInv == BrowserTypeOK /\ OneInstance /\ ReferencesCounted /\ NoNullCall

\* The initial state satisfies the invariant.
LEMMA LifeInit == Init => LifeInv
<1> SUFFICES ASSUME Init PROVE LifeInv
  OBVIOUS
<1>1. BrowserTypeOK
  <2>1. held \in [Instances -> 0 .. MaxHeld] /\ refs \in [Instances -> Nat]
    BY LifeAssumption DEF Init
  <2>2. windowRefs \in [Instances -> Nat] /\ threads \in Nat
    BY DEF Init
  <2>3. nullCall \in BOOLEAN
    BY DEF Init
  <2>4. /\ entries \in {{}, EntryPoints} /\ functions \subseteq Copied
        /\ live \subseteq Instances /\ ended \subseteq Instances
        /\ live \cap ended = {}
        /\ made \subseteq live \cup ended /\ freed \subseteq made
        /\ window \in live \cup ended \cup {NoInstance}
    BY DEF Init
  <2>5. QED
    BY <2>1, <2>2, <2>3, <2>4 DEF BrowserTypeOK
<1>2. OneInstance
  BY DEF Init, OneInstance
<1>3. ReferencesCounted
  BY DEF Init, ReferencesCounted
<1>4. QED
  BY <1>1, <1>2, <1>3 DEF Init, LifeInv, NoNullCall

\* A new instance keeps it.
LEMMA NPP_NewStep ==
  ASSUME LifeInv, NEW i \in Instances, NPP_New(i)
  PROVE  LifeInv'
<1> USE LifeAssumption DEF LifeInv, NPP_New, CPlugin
<1>1. i \notin made /\ held[i] = 0 /\ windowRefs[i] = 0
  BY DEF BrowserTypeOK, OneInstance, ReferencesCounted
<1>2. functions = Copied /\ entries = EntryPoints
  BY DEF Loaded, BrowserTypeOK, OneInstance
<1>3. nullCall' = nullCall
  BY <1>2 DEF Crossing, EntryPoints, Copied, BrowserTypeOK
<1>4. BrowserTypeOK'
  BY <1>3 DEF BrowserTypeOK
<1>5. OneInstance'
  BY <1>2 DEF OneInstance
<1>6. ReferencesCounted'
  BY <1>1 DEF ReferencesCounted, BrowserTypeOK
<1>7. QED
  BY <1>3, <1>4, <1>5, <1>6 DEF NoNullCall

\* So does the end of an instance.
LEMMA NPP_DestroyStep ==
  ASSUME LifeInv, NEW i \in Instances, NPP_Destroy(i)
  PROVE  LifeInv'
<1> USE LifeAssumption DEF LifeInv, NPP_Destroy, CPluginDestructor
<1>1. live = {i} /\ window = i /\ window # NoInstance /\ windowRefs[i] = 1
  BY DEF OneInstance, ReferencesCounted
<1>2. i \in made => refs[i] = 1 + held[i] /\ refs[i] \in Nat /\ held[i] \in Nat
  BY DEF BrowserTypeOK, ReferencesCounted
<1>3. nullCall' = nullCall
  BY DEF Crossing, EntryPoints, Copied, BrowserTypeOK, OneInstance
<1>4. windowRefs' = [windowRefs EXCEPT ![i] = 0]
  BY <1>1 DEF BrowserTypeOK
<1>5. BrowserTypeOK'
  BY <1>1, <1>2, <1>3, <1>4 DEF BrowserTypeOK
<1>6. OneInstance'
  BY <1>1 DEF OneInstance
<1>7. ReferencesCounted'
  BY <1>1, <1>2, <1>4 DEF ReferencesCounted, BrowserTypeOK
<1>8. QED
  BY <1>3, <1>5, <1>6, <1>7 DEF NoNullCall

\* The object handed to the browser is counted.
LEMMA NPP_GetValueStep ==
  ASSUME LifeInv, NEW i \in Instances, NPP_GetValue(i)
  PROVE  LifeInv'
<1> USE LifeAssumption DEF LifeInv, NPP_GetValue, GetScriptableObject
<1>1. /\ refs[i] = (IF i \in made THEN 1 ELSE 0) + held[i]
      /\ refs[i] \in Nat /\ held[i] \in 0 .. MaxHeld
      /\ i \notin made => held[i] = 0
  BY DEF BrowserTypeOK, OneInstance, ReferencesCounted
<1>2. nullCall' = nullCall
  BY DEF Crossing, EntryPoints, Copied, BrowserTypeOK, OneInstance
<1>3. BrowserTypeOK'
  BY <1>1, <1>2 DEF BrowserTypeOK
<1>4. OneInstance'
  BY <1>1 DEF OneInstance, BrowserTypeOK
<1>5. ReferencesCounted'
  BY <1>1 DEF ReferencesCounted, BrowserTypeOK
<1>6. QED
  BY <1>2, <1>3, <1>4, <1>5 DEF NoNullCall

\* A reference given back is taken off the count.
LEMMA ReleaseStep ==
  ASSUME LifeInv, NEW i \in Instances, Release(i)
  PROVE  LifeInv'
<1> USE LifeAssumption DEF LifeInv, Release
<1>1. /\ refs[i] = (IF i \in live THEN 1 ELSE 0) + held[i]
      /\ refs[i] \in Nat /\ held[i] \in 0 .. MaxHeld /\ i \in made
  BY DEF BrowserTypeOK, OneInstance, ReferencesCounted
<1>2. BrowserTypeOK'
  BY <1>1 DEF BrowserTypeOK
<1>3. OneInstance'
  BY <1>1 DEF OneInstance, BrowserTypeOK
<1>4. ReferencesCounted'
  BY <1>1 DEF ReferencesCounted, BrowserTypeOK
<1>5. QED
  BY <1>2, <1>3, <1>4 DEF NoNullCall

\* Steps that leave the instances alone.
LEMMA OtherSteps ==
  ASSUME LifeInv,
         \/ NP_GetEntryPoints
         \/ \E t \in Tables : NP_Initialize(t)
         \/ \E e \in EntryPoints : NPP_Stub(e)
         \/ Access
         \/ UNCHANGED lifeVars
  PROVE  LifeInv'
<1>1. /\ UNCHANGED <<live, ended, made, refs, freed, held, window, windowRefs,
                     threads>>
      /\ nullCall' = nullCall
      /\ entries' \in {entries, EntryPoints}
      /\ functions' = functions \/ (functions = {} /\ functions' = Copied)
  <2>1. CASE NP_GetEntryPoints
    BY <2>1 DEF NP_GetEntryPoints
  <2>2. CASE \E t \in Tables : NP_Initialize(t)
    BY <2>2 DEF NP_Initialize
  <2>3. CASE \E e \in EntryPoints : NPP_Stub(e)
    BY <2>3 DEF NPP_Stub, Crossing, LifeInv, BrowserTypeOK, OneInstance
  <2>4. CASE Access
    <3>1. functions = Copied
      BY <2>4 DEF Access, LifeInv, OneInstance
    <3>2. Gates \subseteq Copied
      BY DEF Gates, Copied
    <3>3. QED
      BY <2>4, <3>1, <3>2 DEF Access, LifeInv, BrowserTypeOK
  <2>5. CASE UNCHANGED lifeVars
    BY <2>5 DEF lifeVars
  <2>6. QED
    BY <2>1, <2>2, <2>3, <2>4, <2>5
<1>2. BrowserTypeOK'
  BY <1>1 DEF LifeInv, BrowserTypeOK
<1>3. OneInstance'
  BY <1>1 DEF LifeInv, BrowserTypeOK, OneInstance
<1>4. ReferencesCounted' /\ NoNullCall'
  BY <1>1 DEF LifeInv, ReferencesCounted, NoNullCall
<1>5. QED
  BY <1>2, <1>3, <1>4 DEF LifeInv

\* Every step keeps the invariant.
LEMMA LifeStep == LifeInv /\ [Next]_vars => LifeInv'
<1> SUFFICES ASSUME LifeInv, [Next]_vars PROVE LifeInv'
  OBVIOUS
<1>1. CASE \E i \in Instances : NPP_New(i)
  BY <1>1, NPP_NewStep
<1>2. CASE \E i \in Instances : NPP_Destroy(i)
  BY <1>2, NPP_DestroyStep
<1>3. CASE \E i \in Instances : NPP_GetValue(i)
  BY <1>3, NPP_GetValueStep
<1>4. CASE \E i \in Instances : Release(i)
  BY <1>4, ReleaseStep
<1>5. CASE \/ NP_GetEntryPoints
           \/ \E t \in Tables : NP_Initialize(t)
           \/ \E e \in EntryPoints : NPP_Stub(e)
           \/ Access
           \/ UNCHANGED lifeVars
  BY <1>5, OtherSteps
<1>6. QED
  BY <1>1, <1>2, <1>3, <1>4, <1>5 DEF Next, Browser, vars

\* The scriptable object has one reference of its instance and one for each
\* the page holds, and the plugin holds the window of a live instance's page
\* (PluginLife: ReferencesCounted; plugin.cpp:94-114, 141-152).
THEOREM ReferencesAreCounted == Spec => []ReferencesCounted
<1>1. LifeInv => ReferencesCounted
  BY DEF LifeInv
<1>2. QED
  BY <1>1, LifeInit, LifeStep, PTL DEF Spec

\* No call goes through a table entry that was not filled, whatever function
\* table the browser comes with (PluginLife: NoNullCall; np_entry.cpp:53-154).
THEOREM TablesAreFilled == Spec => []NoNullCall
<1>1. LifeInv => NoNullCall
  BY DEF LifeInv
<1>2. QED
  BY <1>1, LifeInit, LifeStep, PTL DEF Spec

-----------------------------------------------------------------------------
(* Calls and properties of the page.                                       *)

\* What queued holds is what the page calls; NothingLost needs to know.
QueueTypeOK == queued \in Seq(Calls["socket"])

\* Every method a class announces and the page calls has code behind it, but
\* for the four of Unserved.
LEMMA ListsInStep ==
  ASSUME NEW c \in Classes, NEW m \in Calls[c], <<c, m>> \notin Unserved
  PROVE  /\ m \in HasMethod[c]
         /\ c # "socket" => Takes(c, m)
         /\ c = "socket" => m \in WorkerBranches
<1> USE DEF Classes, Calls, Unserved, HasMethod
<1>1. CASE c = "plugin"
  BY <1>1 DEF PluginMethods, PluginInvoke, Takes
<1>2. CASE c = "socket"
  BY <1>2 DEF SocketMethods, WorkerBranches
<1>3. CASE c = "buffer"
  BY <1>3 DEF BufferMethods, BufferInvoke, Takes
<1>4. CASE c = "parser"
  BY <1>4 DEF ParserMethods, ParserInvoke, Takes
<1>5. CASE c \in {"write", "end"}
  BY <1>5
<1>6. QED
  BY <1>1, <1>2, <1>3, <1>4, <1>5

\* A call of the page finds its method, and its invocation the worker's
\* branch.
LEMMA AccessStep ==
  ASSUME QueueTypeOK, NothingLost, AccessNext
  PROVE  QueueTypeOK' /\ NothingLost'
<1> USE DEF QueueTypeOK, NothingLost
<1>1. ASSUME NEW c \in Classes, NEW m \in Calls[c], CallMethod(c, m)
      PROVE  QueueTypeOK' /\ NothingLost'
  <2>1. NothingLost'
    BY <1>1, ListsInStep DEF CallMethod, Lose
  <2>2. queued' = queued \/ (c = "socket" /\ queued' = Append(queued, m))
    BY <1>1 DEF CallMethod
  <2>3. QED
    BY <2>1, <2>2
<1>2. CASE WorkerTakes
  <2>1. Head(queued) \in Calls["socket"] /\ queued' \in Seq(Calls["socket"])
    BY <1>2 DEF WorkerTakes
  <2>2. "socket" \in Classes
    BY DEF Classes
  <2>3. QED
    BY <1>2, <2>1, <2>2, ListsInStep DEF WorkerTakes, Lose
<1>3. CASE \/ \E c \in Classes : \E n \in Assigned[c], v \in Values : Assign(c, n, v)
           \/ \E c \in Classes : \E n \in Callbacks[c] : Deliver(c, n)
           \/ \E f \in Values, cb \in Values \cup {Void} : MakeWriteReq(f, cb)
           \/ \E f \in Values : MakeShutdownReq(f)
  BY <1>3 DEF Assign, Deliver, MakeWriteReq, MakeShutdownReq
<1>4. QED
  BY <1>1, <1>2, <1>3 DEF AccessNext

\* Every call of the page but for the four of Unserved finds its code
\* (ScriptAccess: NothingLost; tcp_wrap.cpp:55-69, 240-261).
THEOREM CallsFindTheirCode == Spec => []NothingLost
<1>1. Init => QueueTypeOK /\ NothingLost
  BY DEF Init, AccessInit, QueueTypeOK, NothingLost
<1>2. QueueTypeOK /\ NothingLost /\ [Next]_vars => QueueTypeOK' /\ NothingLost'
  <2>1. ASSUME QueueTypeOK, NothingLost, UNCHANGED accessVars
        PROVE  QueueTypeOK' /\ NothingLost'
    BY <2>1 DEF accessVars, QueueTypeOK, NothingLost
  <2>2. QED
    BY <2>1, AccessStep DEF Next, Access, vars
<1>3. QED
  BY <1>1, <1>2, PTL DEF Spec

-----------------------------------------------------------------------------
(* The handler the page has set is the one that is called.                 *)

FieldTypeOK ==
  /\ field \in [Slots -> Values \cup {Blank}]
  /\ asked \in [Slots -> Values \cup {Blank, Void}]

\* Every callback the plugin calls has a slot the page can set.
LEMMA SlotsOfCallbacks ==
  ASSUME NEW c \in Classes, NEW n \in Callbacks[c]
  PROVE  <<c, n>> \in Slots /\ n \in HasProperty[c]
<1> USE DEF Classes, Callbacks, Slots, HasProperty, SocketProperties,
            ParserProperties, RequestProperties
<1>1. CASE c = "socket"
  BY <1>1
<1>2. CASE c = "parser"
  BY <1>2
<1>3. CASE c = "write"
  BY <1>3
<1>4. CASE c \in {"plugin", "buffer", "end"}
  BY <1>4
<1>5. QED
  BY <1>1, <1>2, <1>3, <1>4

\* Before any assignment each slot holds what was last asked for.
LEMMA HandlersInit == Init => FieldTypeOK /\ HandlersReached
  BY SlotsOfCallbacks
  DEF Init, AccessInit, FieldTypeOK, HandlersReached, Slots, Classes,
      SocketGetProperty, SocketProperties, RequestProperties

\* An assignment reaches the slot of its name.
LEMMA AssignStep ==
  ASSUME FieldTypeOK, HandlersReached, NEW c \in Classes,
         NEW n \in Assigned[c], NEW v \in Values, Assign(c, n, v)
  PROVE  FieldTypeOK' /\ HandlersReached'
<1>1. asked' = [asked EXCEPT ![<<c, n>>] = v] /\ misled' = misled
  BY DEF Assign
<1>2. c \in {"socket", "parser"}
  BY DEF Assigned, Classes
<1>3. field' = IF n \in HasProperty[c] THEN [field EXCEPT ![<<c, n>>] = v]
               ELSE field
  BY <1>2 DEF Assign, SetProperty, SocketSetProperty, ParserSetProperty
<1>4. FieldTypeOK'
  BY <1>1, <1>3 DEF FieldTypeOK
<1>5. \A d \in Classes : \A m \in Callbacks[d] :
        field'[<<d, m>>] = asked'[<<d, m>>]
  BY <1>1, <1>3, SlotsOfCallbacks DEF FieldTypeOK, HandlersReached
<1>6. "socket" \in HasProperty["socket"] /\ <<"socket", "socket">> \in Slots
  BY DEF HasProperty, SocketProperties, Slots, Classes
<1>7. SocketGetProperty("socket")' = asked'[<<"socket", "socket">>]
  BY <1>1, <1>3, <1>6 DEF SocketGetProperty, FieldTypeOK, HandlersReached
<1>8. /\ asked'[<<"write", "cb">>] = asked[<<"write", "cb">>]
      /\ field'[<<"write", "cb">>] = field[<<"write", "cb">>]
  BY <1>1, <1>2, <1>3 DEF FieldTypeOK
<1>9. QED
  BY <1>1, <1>4, <1>5, <1>7, <1>8 DEF HandlersReached, WriteReqGetProperty

\* A request's handler is set when it is made.
LEMMA RequestStep ==
  ASSUME FieldTypeOK, HandlersReached,
         NEW f \in Values, NEW cb \in Values \cup {Void},
         MakeWriteReq(f, cb) \/ MakeShutdownReq(f)
  PROVE  FieldTypeOK' /\ HandlersReached'
<1>0. /\ <<"write", "oncomplete">> \in Slots /\ <<"write", "cb">> \in Slots
      /\ <<"end", "oncomplete">> \in Slots /\ <<"socket", "socket">> \in Slots
  BY DEF Slots, Classes, RequestProperties, SocketProperties
<1>1. Callbacks["write"] = {"oncomplete"} /\ Callbacks["end"] = {}
  BY DEF Callbacks, Classes
<1>2. CASE MakeWriteReq(f, cb)
  <2>1. FieldTypeOK'
    BY <1>2 DEF MakeWriteReq, FieldTypeOK
  <2>2. \A d \in Classes : \A m \in Callbacks[d] :
          field'[<<d, m>>] = asked'[<<d, m>>]
    BY <1>0, <1>1, <1>2, SlotsOfCallbacks
    DEF MakeWriteReq, FieldTypeOK, HandlersReached
  <2>3. QED
    BY <1>0, <1>2, <2>1, <2>2
    DEF MakeWriteReq, FieldTypeOK, HandlersReached, WriteReqGetProperty,
        SocketGetProperty
<1>3. CASE MakeShutdownReq(f)
  <2>1. FieldTypeOK'
    BY <1>3 DEF MakeShutdownReq, ShutdownReqSetProperty, FieldTypeOK
  <2>2. \A d \in Classes : \A m \in Callbacks[d] :
          field'[<<d, m>>] = asked'[<<d, m>>]
    BY <1>0, <1>1, <1>3, SlotsOfCallbacks
    DEF MakeShutdownReq, ShutdownReqSetProperty, FieldTypeOK, HandlersReached
  <2>3. QED
    BY <1>0, <1>3, <2>1, <2>2
    DEF MakeShutdownReq, ShutdownReqSetProperty, FieldTypeOK, HandlersReached,
        WriteReqGetProperty, SocketGetProperty
<1>4. QED
  BY <1>2, <1>3

\* A delivery reads the slots and changes none.
LEMMA DeliverStep ==
  ASSUME FieldTypeOK, HandlersReached, NEW c \in Classes, NEW n \in Callbacks[c],
         Deliver(c, n)
  PROVE  FieldTypeOK' /\ HandlersReached'
<1>1. c \in {"socket", "parser", "write"}
  BY DEF Callbacks, Classes
<1>2. misled' = (misled \/ field[<<c, n>>] # asked[<<c, n>>])
  BY <1>1 DEF Deliver, SocketHandler, ParserHandler, WriteReqHandler
<1>3. ~misled'
  BY <1>2 DEF HandlersReached
<1>4. QED
  BY <1>3 DEF Deliver, FieldTypeOK, HandlersReached, SocketGetProperty,
              WriteReqGetProperty

\* A handler the plugin calls is the one the page set last under its name, and
\* the page reads back what it has set (ScriptAccess: HandlersReached).
THEOREM HandlersAreReached == Spec => []HandlersReached
<1>1. ASSUME FieldTypeOK, HandlersReached, [Next]_vars
      PROVE  FieldTypeOK' /\ HandlersReached'
  <2>1. CASE UNCHANGED <<field, asked, misled>>
    BY <1>1, <2>1 DEF FieldTypeOK, HandlersReached, SocketGetProperty,
                      WriteReqGetProperty
  <2>2. CASE AccessNext
    <3>1. CASE \E c \in Classes : \E m \in Calls[c] : CallMethod(c, m)
      BY <2>1, <3>1 DEF CallMethod
    <3>2. CASE WorkerTakes
      BY <2>1, <3>2 DEF WorkerTakes
    <3>3. CASE \E c \in Classes :
                 \E n \in Assigned[c], v \in Values : Assign(c, n, v)
      BY <1>1, <3>3, AssignStep
    <3>4. CASE \E c \in Classes : \E n \in Callbacks[c] : Deliver(c, n)
      BY <1>1, <3>4, DeliverStep
    <3>5. CASE \/ \E f \in Values, cb \in Values \cup {Void} : MakeWriteReq(f, cb)
               \/ \E f \in Values : MakeShutdownReq(f)
      <4>1. ASSUME NEW f \in Values, MakeShutdownReq(f)
            PROVE  FieldTypeOK' /\ HandlersReached'
        BY <1>1, <4>1, RequestStep
      <4>2. QED
        BY <1>1, <3>5, <4>1, RequestStep
    <3>6. QED
      BY <2>2, <3>1, <3>2, <3>3, <3>4, <3>5 DEF AccessNext
  <2>3. QED
    BY <1>1, <2>1, <2>2 DEF Next, Access, accessVars, vars
<1>2. QED
  BY <1>1, HandlersInit, PTL DEF Spec

-----------------------------------------------------------------------------
(* TypeOK as a whole.                                                      *)

\* Every step keeps the types of the slots and queues.
LEMMA AccessTypeStep ==
  ASSUME AccessTypeOK, AccessNext
  PROVE  AccessTypeOK'
<1> DEFINE Fields == [Slots -> Values \cup {Blank}]
           Given == [Slots -> Values \cup {Blank, Void}]
<1>0. field \in Fields /\ wrapper \in Fields /\ asked \in Given /\ sets \in Nat
  BY DEF AccessTypeOK
<1>01. ASSUME field' \in Fields, wrapper' \in Fields, asked' \in Given,
              sets' \in Nat, UNCHANGED <<queued, misled, lost>>
       PROVE  AccessTypeOK'
  BY <1>01 DEF AccessTypeOK
<1>1. ASSUME NEW c \in Classes, NEW n \in Assigned[c], NEW v \in Values,
             Assign(c, n, v)
      PROVE  AccessTypeOK'
  <2>1. field' \in Fields
    BY <1>0, <1>1 DEF Assign, SetProperty, SocketSetProperty, ParserSetProperty,
                WriteReqSetProperty, ShutdownReqSetProperty
  <2>2. wrapper' \in Fields /\ asked' \in Given
    BY <1>0, <1>1 DEF Assign
  <2>3. sets' \in Nat /\ UNCHANGED <<queued, misled, lost>>
    BY <1>0, <1>1 DEF Assign
  <2>4. QED
    BY <1>01, <2>1, <2>2, <2>3
<1>2. ASSUME NEW c \in Classes, NEW m \in Calls[c], CallMethod(c, m)
      PROVE  AccessTypeOK'
  <2>1. lost' \subseteq {<<d, k>> : d \in Classes, k \in UNION {Calls[e] : e \in Classes}}
    BY <1>2 DEF CallMethod, Lose, AccessTypeOK
  <2>2. queued' = queued \/ (c = "socket" /\ queued' = Append(queued, m))
    BY <1>2 DEF CallMethod
  <2>3. queued' \in Seq(Calls["socket"])
    BY <2>2, SMTT(30) DEF AccessTypeOK
  <2>4. QED
    BY <1>2, <2>1, <2>3 DEF CallMethod, AccessTypeOK
<1>3. CASE WorkerTakes
  <2>1. Head(queued) \in Calls["socket"] /\ queued' \in Seq(Calls["socket"])
    BY <1>3 DEF WorkerTakes, AccessTypeOK
  <2>2. "socket" \in Classes
    BY DEF Classes
  <2>3. lost' \subseteq {<<d, k>> : d \in Classes, k \in UNION {Calls[e] : e \in Classes}}
    BY <1>3, <2>1, <2>2 DEF WorkerTakes, Lose, AccessTypeOK
  <2>4. QED
    BY <1>3, <2>1, <2>3 DEF WorkerTakes, AccessTypeOK
<1>4. ASSUME NEW c \in Classes, NEW n \in Callbacks[c], Deliver(c, n)
      PROVE  AccessTypeOK'
  BY <1>4 DEF Deliver, AccessTypeOK
<1>5. ASSUME NEW f \in Values, NEW cb \in Values \cup {Void}, MakeWriteReq(f, cb)
      PROVE  AccessTypeOK'
  <2>1. field' \in Fields /\ asked' \in Given
    BY <1>0, <1>5 DEF MakeWriteReq
  <2>2. /\ wrapper' \in Fields /\ sets' \in Nat
        /\ UNCHANGED <<queued, misled, lost>>
    BY <1>0, <1>5 DEF MakeWriteReq
  <2>3. QED
    BY <1>01, <2>1, <2>2
<1>6. ASSUME NEW f \in Values, MakeShutdownReq(f) PROVE AccessTypeOK'
  <2>1. field' \in Fields /\ asked' \in Given
    BY <1>0, <1>6 DEF MakeShutdownReq, ShutdownReqSetProperty
  <2>2. /\ wrapper' \in Fields /\ sets' \in Nat
        /\ UNCHANGED <<queued, misled, lost>>
    BY <1>0, <1>6 DEF MakeShutdownReq
  <2>3. QED
    BY <1>01, <2>1, <2>2
<1>7. QED
  BY <1>1, <1>2, <1>3, <1>4, <1>5, <1>6 DEF AccessNext

\* Every reachable state is type-correct (PluginLife: TypeOK).
THEOREM PluginTypeCorrect == Spec => []TypeOK
<1>1. Init => AccessTypeOK
  <2> SUFFICES ASSUME Init PROVE AccessTypeOK
    OBVIOUS
  <2>1. /\ field \in [Slots -> Values \cup {Blank}]
        /\ wrapper \in [Slots -> Values \cup {Blank}]
        /\ asked \in [Slots -> Values \cup {Blank, Void}]
    BY DEF Init, AccessInit
  <2>2. queued \in Seq(Calls["socket"]) /\ sets \in Nat
    BY DEF Init, AccessInit
  <2>3. misled \in BOOLEAN
    BY DEF Init, AccessInit
  <2>4. lost = {}
    BY DEF Init, AccessInit
  <2>5. QED
    BY <2>1, <2>2, <2>3, <2>4 DEF AccessTypeOK
<1>2. ASSUME AccessTypeOK, [Next]_vars PROVE AccessTypeOK'
  <2>1. CASE UNCHANGED accessVars
    BY <1>2, <2>1 DEF accessVars, AccessTypeOK
  <2>2. QED
    BY <1>2, <2>1, AccessTypeStep DEF Next, Access, vars
<1>3. LifeInv /\ AccessTypeOK => TypeOK
  BY DEF LifeInv, BrowserTypeOK, TypeOK
<1>4. QED
  BY <1>1, <1>2, <1>3, LifeInit, LifeStep, PTL DEF Spec
=============================================================================
