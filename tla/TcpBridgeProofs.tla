-------------------------- MODULE TcpBridgeProofs --------------------------
(***************************************************************************)
(* Theorems about TcpBridge for any number of sockets, calls and reads.    *)
(***************************************************************************)
EXTENDS TcpBridge, SequenceTheorems, WellFoundedInduction, TLAPS

-----------------------------------------------------------------------------
(* Sequences: induction over their length, in the form of sets of numbers. *)

\* A set of numbers that is not empty has a least one.
LEMMA LeastNumber ==
  ASSUME NEW S \in SUBSET Nat, NEW n \in S
  PROVE  \E m \in S : \A k \in S : m <= k
<1>1. \E m \in S : \A k \in S : <<k, m>> \notin OpToRel(<, Nat)
  BY WFMin, NatLessThanWellFounded
<1>2. \A k, m \in S : <<k, m>> \in OpToRel(<, Nat) <=> k < m
  BY DEF OpToRel
<1>3. \A k, m \in S : k \in Nat /\ m \in Nat /\ (~(k < m) <=> m <= k)
  OBVIOUS
<1>4. QED
  BY <1>1, <1>2, <1>3

\* Induction over the numbers, for the set of those that have a property.
LEMMA NatSetInduction ==
  ASSUME NEW S, 0 \in S, \A n \in Nat : n \in S => n + 1 \in S
  PROVE  \A n \in Nat : n \in S
<1> SUFFICES ASSUME NEW x \in Nat \ S PROVE FALSE
  OBVIOUS
<1>1. PICK m \in Nat \ S : \A k \in Nat \ S : m <= k
  BY LeastNumber
<1>2. m # 0 /\ m - 1 \in Nat /\ m - 1 \in S
  BY <1>1
<1>3. QED
  BY <1>1, <1>2

\* A sequence that is not empty is a shorter one and a last element.
LEMMA Front ==
  ASSUME NEW T, NEW u \in Seq(T), NEW n \in Nat, Len(u) = n + 1
  PROVE  \E v \in Seq(T), e \in T : u = Append(v, e) /\ Len(v) = n
<1> DEFINE v == [i \in 1 .. n |-> u[i]]
           e == u[n + 1]
<1>1. v \in Seq(T) /\ Len(v) = n /\ e \in T
  OBVIOUS
<1>2. u = Append(v, e)
  BY <1>1
<1>3. QED
  BY <1>1, <1>2

\* Appending to the second of two joined sequences appends to the result.
LEMMA ConcatAppend ==
  ASSUME NEW T, NEW s \in Seq(T), NEW t \in Seq(T), NEW e \in T
  PROVE  s \o t \in Seq(T) /\ s \o Append(t, e) = Append(s \o t, e)
OBVIOUS

-----------------------------------------------------------------------------
(* What Select does to a longer or a shorter sequence.                     *)

\* What is selected of the first i elements, by recursion over i.
Chosen(s, K, F, i) ==
  IF i = 0 THEN <<>> ELSE IF s[i] \in K THEN Append(F[i - 1], s[i]) ELSE F[i - 1]
IsChosen(s, K, n, F) == F = [i \in 0 .. n |-> Chosen(s, K, F, i)]

\* The recursion has a solution for every length, by induction over it.
LEMMA SelectExists ==
  ASSUME NEW s, NEW K, NEW n \in Nat
  PROVE  \E F : IsChosen(s, K, n, F)
<1> DEFINE S == {m \in Nat : \E F : IsChosen(s, K, m, F)}
<1>1. 0 \in S
  <2>1. IsChosen(s, K, 0, [i \in 0 .. 0 |-> <<>>])
    BY DEF IsChosen, Chosen
  <2>2. QED
    BY <2>1
<1>2. ASSUME NEW m \in Nat, m \in S PROVE m + 1 \in S
  <2>1. PICK F : IsChosen(s, K, m, F)
    BY <1>2
  <2> DEFINE G == [i \in 0 .. m + 1 |-> Chosen(s, K, F, i)]
  <2>2. \A i \in 0 .. m : F[i] = G[i]
    BY <2>1 DEF IsChosen
  <2>3. \A i \in 0 .. m + 1 : Chosen(s, K, F, i) = Chosen(s, K, G, i)
    <3> HIDE DEF G
    <3>1. \A i \in 0 .. m + 1 : i # 0 => i - 1 \in 0 .. m
      OBVIOUS
    <3>2. QED
      BY <2>2, <3>1 DEF Chosen
  <2>4. IsChosen(s, K, m + 1, G)
    BY <2>3 DEF IsChosen
  <2>5. QED
    BY <2>4
<1> HIDE DEF S
<1>3. n \in S
  BY <1>1, <1>2, NatSetInduction
<1>4. QED
  BY <1>3 DEF S

\* Select is the last value of a solution of its recursion.
LEMMA SelectUnfolds ==
  ASSUME NEW s, NEW K, Len(s) \in Nat
  PROVE  \E F : IsChosen(s, K, Len(s), F) /\ Select(s, K) = F[Len(s)]
<1> DEFINE Good(F) == F = [i \in 0 .. Len(s) |->
             IF i = 0 THEN <<>>
             ELSE IF s[i] \in K THEN Append(F[i - 1], s[i]) ELSE F[i - 1]]
           C == CHOOSE F : Good(F)
<1>1. IsChosen(s, K, Len(s), C)
  <2>1. \A F : IsChosen(s, K, Len(s), F) <=> Good(F)
    BY DEF IsChosen, Chosen
  <2>2. \E F : Good(F)
    BY <2>1, SelectExists
  <2>3. Good(C)
    BY <2>2, Zenon
  <2>4. QED
    BY <2>1, <2>3
<1>2. Select(s, K) = C[Len(s)]
  BY DEF Select
<1>3. QED
  BY <1>1, <1>2

\* Nothing is selected of the empty sequence.
LEMMA SelectEmpty ==
  ASSUME NEW K PROVE Select(<<>>, K) = <<>>
<1>1. PICK F : IsChosen(<<>>, K, 0, F) /\ Select(<<>>, K) = F[0]
  BY SelectUnfolds, EmptySeq
<1>2. QED
  BY <1>1 DEF IsChosen, Chosen

\* What a further element adds to the selection.
LEMMA SelectAppend ==
  ASSUME NEW T, NEW s \in Seq(T), NEW e \in T, NEW K
  PROVE  Select(Append(s, e), K) =
           IF e \in K THEN Append(Select(s, K), e) ELSE Select(s, K)
<1> DEFINE t == Append(s, e)
<1>1. /\ Len(s) \in Nat /\ Len(t) = Len(s) + 1 /\ t[Len(s) + 1] = e
      /\ \A i \in 1 .. Len(s) : t[i] = s[i]
  OBVIOUS
<1> HIDE DEF t
<1>2. PICK F : IsChosen(s, K, Len(s), F) /\ Select(s, K) = F[Len(s)]
  BY <1>1, SelectUnfolds
<1>3. PICK G : IsChosen(t, K, Len(t), G) /\ Select(t, K) = G[Len(t)]
  BY <1>1, SelectUnfolds
<1>4. \A i \in 0 .. Len(s) : F[i] = Chosen(s, K, F, i)
  BY <1>2 DEF IsChosen
<1>5. \A i \in 0 .. Len(t) : G[i] = Chosen(t, K, G, i)
  BY <1>3 DEF IsChosen
<1> DEFINE S == {i \in Nat : i <= Len(s) => F[i] = G[i]}
<1>6. 0 \in S
  BY <1>1, <1>4, <1>5 DEF Chosen
<1>7. ASSUME NEW i \in Nat, i \in S PROVE i + 1 \in S
  <2> SUFFICES ASSUME i + 1 <= Len(s) PROVE F[i + 1] = G[i + 1]
    OBVIOUS
  <2>1. F[i] = G[i] /\ i + 1 \in 1 .. Len(s) /\ i + 1 # 0 /\ (i + 1) - 1 = i
    BY <1>1, <1>7
  <2>2. F[i + 1] = Chosen(s, K, F, i + 1) /\ G[i + 1] = Chosen(t, K, G, i + 1)
    BY <1>1, <1>4, <1>5, <2>1
  <2>3. t[i + 1] = s[i + 1]
    BY <1>1, <2>1
  <2>4. QED
    BY <2>1, <2>2, <2>3 DEF Chosen
<1>8. F[Len(s)] = G[Len(s)]
  <2>1. Len(s) \in S
    BY <1>1, <1>6, <1>7, NatSetInduction
  <2>2. QED
    BY <1>1, <2>1
<1>9. G[Len(s) + 1] = IF e \in K THEN Append(G[Len(s)], e) ELSE G[Len(s)]
  <2>1. G[Len(s) + 1] = Chosen(t, K, G, Len(s) + 1) /\ (Len(s) + 1) - 1 = Len(s)
        /\ Len(s) + 1 # 0
    BY <1>1, <1>5
  <2>2. QED
    BY <1>1, <2>1 DEF Chosen
<1>10. QED
  BY <1>1, <1>2, <1>3, <1>8, <1>9 DEF t

\* The selection is a sequence of elements of K, by induction over the
\* length of s.
LEMMA SelectType ==
  ASSUME NEW T, NEW s \in Seq(T), NEW K
  PROVE  /\ Select(s, K) \in Seq(T)
         /\ Select(s, K) \in Seq(T \cap K)
         /\ Len(Select(s, K)) \in Nat
<1> DEFINE S == {n \in Nat : \A u \in Seq(T) : Len(u) = n => Select(u, K) \in Seq(T \cap K)}
<1>1. 0 \in S
  <2>1. ASSUME NEW u \in Seq(T), Len(u) = 0 PROVE Select(u, K) \in Seq(T \cap K)
    <3>1. u = <<>>
      BY <2>1, EmptySeq
    <3>2. QED
      BY <3>1, SelectEmpty, EmptySeq
  <2>2. QED
    BY <2>1
<1>2. ASSUME NEW n \in Nat, n \in S PROVE n + 1 \in S
  <2>1. ASSUME NEW u \in Seq(T), Len(u) = n + 1 PROVE Select(u, K) \in Seq(T \cap K)
    <3>1. PICK v \in Seq(T), e \in T : u = Append(v, e) /\ Len(v) = n
      BY <2>1, Front
    <3>2. Select(v, K) \in Seq(T \cap K)
      BY <1>2, <3>1
    <3>3. Select(u, K) = IF e \in K THEN Append(Select(v, K), e) ELSE Select(v, K)
      BY <3>1, SelectAppend
    <3>4. QED
      BY <3>2, <3>3, AppendProperties
  <2>2. QED
    BY <2>1
<1>3. Len(s) \in S
  <2> HIDE DEF S
  <2>1. QED
    BY <1>1, <1>2, NatSetInduction
<1>4. Select(s, K) \in Seq(T \cap K)
  BY <1>3
<1>5. Select(s, K) \in Seq(T) /\ Len(Select(s, K)) \in Nat
  BY <1>4, SeqMonotonic
<1>6. QED
  BY <1>4, <1>5

\* Select distributes over joining, by induction over the length of t.
LEMMA SelectConcat ==
  ASSUME NEW T, NEW s \in Seq(T), NEW t \in Seq(T), NEW K
  PROVE  Select(s \o t, K) = Select(s, K) \o Select(t, K)
<1> DEFINE P(u) == Select(s \o u, K) = Select(s, K) \o Select(u, K)
           S == {n \in Nat : \A u \in Seq(T) : Len(u) = n => P(u)}
<1>0. Select(s, K) \in Seq(T)
  BY SelectType
<1>1. 0 \in S
  <2>1. ASSUME NEW u \in Seq(T), Len(u) = 0 PROVE P(u)
    <3>1. u = <<>>
      BY <2>1, EmptySeq
    <3>2. s \o <<>> = s /\ Select(s, K) \o <<>> = Select(s, K)
      BY <1>0, ConcatEmptySeq
    <3>3. QED
      BY <3>1, <3>2, SelectEmpty
  <2>2. QED
    BY <2>1
<1>2. ASSUME NEW n \in Nat, n \in S PROVE n + 1 \in S
  <2>1. ASSUME NEW u \in Seq(T), Len(u) = n + 1 PROVE P(u)
    <3>1. PICK v \in Seq(T), e \in T : u = Append(v, e) /\ Len(v) = n
      BY <2>1, Front
    <3>2. P(v)
      BY <1>2, <3>1
    <3>3. s \o v \in Seq(T) /\ s \o u = Append(s \o v, e)
      BY <3>1, ConcatAppend
    <3>4. Select(v, K) \in Seq(T)
      BY SelectType
    <3>5. Select(s, K) \o Append(Select(v, K), e) = Append(Select(s, K) \o Select(v, K), e)
      BY <1>0, <3>4, ConcatAppend
    <3>6. Select(u, K) = IF e \in K THEN Append(Select(v, K), e) ELSE Select(v, K)
      BY <3>1, SelectAppend
    <3>7. Select(s \o u, K) = IF e \in K THEN Append(Select(s \o v, K), e) ELSE Select(s \o v, K)
      <4> DEFINE w == s \o v
                 x == s \o u
      <4>1. w \in Seq(T) /\ x = Append(w, e)
        BY <3>3
      <4> HIDE DEF w, x
      <4>2. Select(x, K) = IF e \in K THEN Append(Select(w, K), e) ELSE Select(w, K)
        BY <4>1, SelectAppend
      <4>3. QED
        BY <4>2 DEF w, x
    <3>8. QED
      BY <3>2, <3>5, <3>6, <3>7
  <2>2. QED
    BY <2>1
<1>3. Len(t) \in S
  <2> HIDE DEF S
  <2>1. QED
    BY <1>1, <1>2, NatSetInduction
<1>4. QED
  BY <1>3

\* Select from the front: the head is selected or not, then the tail.
LEMMA SelectHead ==
  ASSUME NEW T, NEW s \in Seq(T), s # <<>>, NEW K
  PROVE  Select(s, K) = IF Head(s) \in K THEN <<Head(s)>> \o Select(Tail(s), K)
                        ELSE Select(Tail(s), K)
<1> DEFINE h == Head(s)
           t == Tail(s)
<1>1. h \in T /\ t \in Seq(T) /\ <<h>> \in Seq(T) /\ s = <<h>> \o t
  BY HeadTailProperties
<1>2. <<h>> = Append(<<>>, h) /\ <<>> \in Seq(T)
  BY EmptySeq
<1>3. Select(t, K) \in Seq(T) /\ <<>> \o Select(t, K) = Select(t, K)
  BY <1>1, SelectType, ConcatEmptySeq
<1> HIDE DEF h, t
<1>4. Select(<<h>>, K) = IF h \in K THEN <<h>> ELSE <<>>
  <2>1. Select(Append(<<>>, h), K) =
          IF h \in K THEN Append(Select(<<>>, K), h) ELSE Select(<<>>, K)
    BY <1>1, <1>2, SelectAppend
  <2>2. QED
    BY <1>2, <2>1, SelectEmpty
<1>5. Select(s, K) = Select(<<h>>, K) \o Select(t, K)
  <2> DEFINE a == <<h>>
  <2>1. a \in Seq(T) /\ t \in Seq(T) /\ s = a \o t
    BY <1>1
  <2> HIDE DEF a
  <2>2. Select(a \o t, K) = Select(a, K) \o Select(t, K)
    BY <2>1, SelectConcat
  <2>3. QED
    BY <2>1, <2>2 DEF a
<1>6. QED
  BY <1>3, <1>4, <1>5 DEF h, t

-----------------------------------------------------------------------------
(* Types.                                                                  *)

\* The empty sequence has every type of a sequence.
LEMMA EmptyIsSeq == \A S : <<>> \in Seq(S)
OBVIOUS

\* The initial state is type-correct.
LEMMA InitTypeOK == Init => TypeOK
<1> SUFFICES ASSUME Init PROVE TypeOK
  OBVIOUS
<1>1. {"READING", "READ_PENDING"} \in SUBSET Flag
  BY DEF Flag
<1>2. /\ invokeQueue \in Seq(Invocation)
      /\ callbacks \in Seq(Callback)
  BY EmptyIsSeq DEF Init
<1>3. /\ writeRequests \in [Handles -> Seq(Nat)]
      /\ writing \in [Handles -> Seq(Nat)]
  BY EmptyIsSeq DEF Init
<1>4. flags \in [Handles -> SUBSET Flag]
  BY <1>1 DEF Init
<1>5. /\ writable \in [Handles -> BOOLEAN]
      /\ destroySoon \in [Handles -> BOOLEAN]
      /\ destroyed \in [Handles -> BOOLEAN]
      /\ broken \in [Handles -> BOOLEAN]
      /\ freed \in [Handles -> BOOLEAN]
  BY DEF Init
<1>6. /\ bytesRead \in [Handles -> Nat]
      /\ reqsPending \in [Handles -> Int]
  BY DEF Init
<1>7. /\ waking \in BOOLEAN /\ asyncSent \in BOOLEAN /\ wakeups \in Nat
      /\ draining \in BOOLEAN /\ calls \in Nat /\ reads \in Nat
      /\ crashed \in BOOLEAN
  BY DEF Init
<1>8. QED
  BY <1>2, <1>3, <1>4, <1>5, <1>6, <1>7 DEF TypeOK

\* Type, length and elements of a sequence with one element more.
LEMMA AppendType ==
  ASSUME NEW S, NEW s \in Seq(S), NEW e \in S
  PROVE  /\ Append(s, e) \in Seq(S)
         /\ Len(Append(s, e)) = Len(s) + 1
         /\ \A i \in 1 .. Len(s) : Append(s, e)[i] = s[i]
         /\ Append(s, e)[Len(s) + 1] = e
OBVIOUS

\* Type, length and elements of what is left without the first one.
LEMMA HeadTailType ==
  ASSUME NEW S, NEW s \in Seq(S), s # <<>>
  PROVE  /\ Head(s) \in S
         /\ Tail(s) \in Seq(S)
         /\ Len(Tail(s)) = Len(s) - 1
         /\ \A i \in 1 .. Len(Tail(s)) : Tail(s)[i] = s[i + 1]
OBVIOUS

\* Pushing an invocation keeps the queue's type.
LEMMA InvokeType ==
  ASSUME TypeOK, NEW m \in Methods, NEW h \in Handles, NEW r \in Nat,
         Invoke(m, h, r)
  PROVE  invokeQueue' \in Seq(Invocation) /\ waking' \in BOOLEAN
<1>1. [method |-> m, object |-> h, req |-> r] \in Invocation
  BY DEF Invocation
<1>2. QED
  BY <1>1, AppendType DEF Invoke, TypeOK

\* So does a write.
LEMMA WriteType ==
  ASSUME TypeOK, NEW h \in Handles, Write(h)
  PROVE  /\ invokeQueue' \in Seq(Invocation) /\ waking' \in BOOLEAN
         /\ writeRequests' \in [Handles -> Seq(Nat)]
<1>1. calls + 1 \in Nat /\ "write" \in Methods
  BY DEF TypeOK, Methods
<1>2. Append(writeRequests[h], calls + 1) \in Seq(Nat)
  BY <1>1, AppendType DEF TypeOK
<1>3. QED
  BY <1>1, <1>2, InvokeType DEF Write, TypeOK

\* So does destroy().
LEMMA DestroyType ==
  ASSUME TypeOK, NEW h \in Handles, Destroy(h)
  PROVE  /\ invokeQueue' \in Seq(Invocation) /\ waking' \in BOOLEAN
         /\ writable' \in [Handles -> BOOLEAN]
         /\ destroyed' \in [Handles -> BOOLEAN]
<1>1. 0 \in Nat /\ "close" \in Methods
  BY DEF Methods
<1>2. invokeQueue' \in Seq(Invocation) /\ waking' \in BOOLEAN
  BY <1>1, InvokeType DEF Destroy, TypeOK
<1>3. QED
  BY <1>2 DEF Destroy, TypeOK

\* Every step keeps the types.
LEMMA TypeStep == TypeOK /\ [Next]_vars => TypeOK'
<1> SUFFICES ASSUME TypeOK, [Next]_vars PROVE TypeOK'
  OBVIOUS
<1>1. ASSUME NEW h \in Handles, SocketWrite(h) PROVE TypeOK'
  BY <1>1, WriteType
  DEF TypeOK, SocketWrite, ScriptCall, wakeVars, uvVars
<1>2. ASSUME NEW h \in Handles, SocketEnd(h) PROVE TypeOK'
  BY <1>2, InvokeType
  DEF TypeOK, SocketEnd, ScriptCall, wakeVars, uvVars, Methods
<1>3. ASSUME NEW h \in Handles, SocketPause(h) PROVE TypeOK'
  BY <1>3, InvokeType
  DEF TypeOK, SocketPause, ScriptCall, wakeVars, uvVars, Methods
<1>4. ASSUME NEW h \in Handles, SocketResume(h) PROVE TypeOK'
  BY <1>4, InvokeType
  DEF TypeOK, SocketResume, ScriptCall, wakeVars, uvVars, Methods
<1>5. ASSUME NEW h \in Handles, SocketDestroy(h) PROVE TypeOK'
  BY <1>5, DestroyType, SMTT(30)
  DEF TypeOK, SocketDestroy, ScriptCall, wakeVars, uvVars
<1>6. ASSUME NEW h \in Handles, SocketDestroySoon(h) PROVE TypeOK'
  <2>1. destroySoon' \in [Handles -> BOOLEAN]
    BY <1>6 DEF TypeOK, SocketDestroySoon
  <2>2. /\ invokeQueue' \in Seq(Invocation) /\ waking' \in BOOLEAN
        /\ writable' \in [Handles -> BOOLEAN]
        /\ destroyed' \in [Handles -> BOOLEAN]
    BY <1>6, DestroyType DEF TypeOK, SocketDestroySoon
  <2>3. calls' \in Nat
    BY <1>6 DEF TypeOK, SocketDestroySoon, ScriptCall
  <2>4. QED
    BY <1>6, <2>1, <2>2, <2>3
    DEF TypeOK, SocketDestroySoon, ScriptCall, wakeVars, uvVars
<1>7. CASE AsyncSend
  <2>1. /\ waking' \in BOOLEAN /\ asyncSent' \in BOOLEAN
        /\ wakeups' = wakeups \/ wakeups' = wakeups + 1
    BY <1>7, Zenon DEF AsyncSend
  <2>2. wakeups' \in Nat
    BY <2>1 DEF TypeOK
  <2>3. QED
    BY <1>7, <2>1, <2>2 DEF TypeOK, AsyncSend, jsVars, uvVars, boundVars
<1>8. CASE OnreadCallback
  <2>1. /\ Head(callbacks) \in Callback
        /\ callbacks' \in Seq(Callback)
    BY <1>8, HeadTailType DEF TypeOK, OnreadCallback, TakeCallback
  <2>2. bytesRead' \in [Handles -> Nat]
    BY <1>8, <2>1 DEF TypeOK, OnreadCallback, Callback
  <2>3. QED
    BY <1>8, <2>1, <2>2
    DEF TypeOK, OnreadCallback, TakeCallback, wakeVars, uvVars
<1>9. CASE OncompleteCallback
  <2> DEFINE c == Head(callbacks)
             h == c.object
  <2>0. c \in Callback /\ callbacks' \in Seq(Callback)
    BY <1>9, HeadTailType DEF TypeOK, OncompleteCallback, TakeCallback
  <2>1. h \in Handles /\ c.req \in Nat
    BY <2>0 DEF Callback
  <2>2. ASSUME ~destroyed[h], writeRequests[h] # <<>>, Acknowledge(h, c.req)
        PROVE  /\ invokeQueue' \in Seq(Invocation) /\ waking' \in BOOLEAN
               /\ writable' \in [Handles -> BOOLEAN]
               /\ destroyed' \in [Handles -> BOOLEAN]
               /\ writeRequests' \in [Handles -> Seq(Nat)]
               /\ calls' \in Nat
    <3> DEFINE last == Len(writeRequests[h]) = 1
    <3>0. /\ Tail(writeRequests[h]) \in Seq(Nat) /\ <<>> \in Seq(Nat)
          /\ calls + 1 \in Nat /\ <<calls + 1>> \in Seq(Nat)
      BY <2>1, <2>2, HeadTailType DEF TypeOK
    <3>1. CASE /\ writeRequests' = [writeRequests EXCEPT ![h] = Tail(@)]
               /\ UNCHANGED <<writable, destroyed, invokeQueue, waking, calls>>
      BY <2>1, <3>0, <3>1 DEF TypeOK
    <3>2. CASE /\ writeRequests' = [writeRequests EXCEPT ![h] = <<>>]
               /\ Destroy(h)
               /\ UNCHANGED calls
      BY <2>1, <3>0, <3>2, DestroyType DEF TypeOK
    <3>3. CASE /\ calls' = calls + 1
               /\ Invoke("write", h, calls + 1)
               /\ writeRequests' = [writeRequests EXCEPT ![h] = <<calls + 1>>]
               /\ UNCHANGED <<writable, destroyed>>
      BY <2>1, <3>0, <3>3, InvokeType DEF TypeOK, Methods
    <3>4. QED
      BY <2>2, <3>1, <3>2, <3>3 DEF Acknowledge
  <2>3. /\ invokeQueue' \in Seq(Invocation) /\ waking' \in BOOLEAN
        /\ writable' \in [Handles -> BOOLEAN]
        /\ destroyed' \in [Handles -> BOOLEAN]
        /\ writeRequests' \in [Handles -> Seq(Nat)]
        /\ calls' \in Nat
    BY <1>9, <2>2 DEF TypeOK, OncompleteCallback
  <2>4. QED
    BY <1>9, <2>0, <2>3
    DEF TypeOK, OncompleteCallback, TakeCallback, wakeVars, uvVars
<1>10. CASE CallbackOnFreedObject
  BY <1>10 DEF TypeOK, CallbackOnFreedObject, jsVars, wakeVars, uvVars
<1>11. CASE AsyncWakeup
  <2>1. wakeups' \in Nat
    BY <1>11 DEF TypeOK, AsyncWakeup
  <2>2. QED
    BY <1>11, <2>1 DEF TypeOK, AsyncWakeup, Worker, jsVars, uvVars
<1>12. CASE WorkerReturn
  BY <1>12 DEF TypeOK, WorkerReturn, Worker, jsVars, uvVars
<1>13. CASE WorkerInvoke
  <2> DEFINE i == Head(invokeQueue)
             h == i.object
  <2>0. i \in Invocation /\ invokeQueue' \in Seq(Invocation)
    BY <1>13, HeadTailType DEF TypeOK, WorkerInvoke
  <2>1. h \in Handles /\ i.req \in Nat
    BY <2>0 DEF Invocation
  <2> DEFINE UvTypes == /\ flags' \in [Handles -> SUBSET Flag]
                        /\ reqsPending' \in [Handles -> Int]
                        /\ writing' \in [Handles -> Seq(Nat)]
                        /\ broken' \in [Handles -> BOOLEAN]
                        /\ freed' \in [Handles -> BOOLEAN]
  <2>2. UvReadStart(h) => UvTypes
    <3>1. {"READING", "READ_PENDING"} \in SUBSET Flag
      BY DEF Flag
    <3>2. ASSUME UvReadStart(h)
          PROVE  /\ flags' \in [Handles -> SUBSET Flag]
                 /\ reqsPending' \in [Handles -> Int]
      <4>1. CASE UNCHANGED <<flags, reqsPending>>
        BY <4>1 DEF TypeOK
      <4>2. CASE /\ flags' = [flags EXCEPT
                                ![h] = @ \cup {"READING", "READ_PENDING"}]
                 /\ reqsPending' = [reqsPending EXCEPT
                       ![h] = IF "READ_PENDING" \in flags[h] THEN @ ELSE @ + 1]
        BY <2>1, <3>1, <4>2 DEF TypeOK
      <4>3. QED
        BY <3>2, <4>1, <4>2 DEF UvReadStart
    <3>3. QED
      BY <3>2 DEF TypeOK, UvReadStart
  <2>3. UvReadStop(h) => UvTypes
    BY <2>1 DEF TypeOK, UvReadStop, Flag
  <2>4. UvWrite(h, i.req) => UvTypes
    <3>1. Append(writing[h], i.req) \in Seq(Nat)
      BY <2>1, AppendType DEF TypeOK
    <3>2. ASSUME UvWrite(h, i.req)
          PROVE  /\ writing' \in [Handles -> Seq(Nat)]
                 /\ reqsPending' \in [Handles -> Int]
                 /\ broken' \in [Handles -> BOOLEAN]
      <4>1. CASE /\ UNCHANGED <<writing, reqsPending>>
                 /\ broken' \in {broken, [broken EXCEPT ![h] = TRUE]}
        BY <4>1 DEF TypeOK
      <4>2. CASE /\ writing' = [writing EXCEPT ![h] = Append(@, i.req)]
                 /\ reqsPending' = [reqsPending EXCEPT ![h] = @ + 1]
                 /\ UNCHANGED broken
        BY <2>1, <3>1, <4>2 DEF TypeOK
      <4>3. QED
        BY <3>2, <4>1, <4>2 DEF UvWrite
    <3>3. QED
      BY <3>2 DEF TypeOK, UvWrite
  <2>5. UvShutdown(h) => UvTypes
    BY <2>1 DEF TypeOK, UvShutdown, Flag
  <2>6. UvClose(h) => UvTypes
    BY <2>1 DEF TypeOK, UvClose, Flag
  <2>7. UvTypes
    BY <1>13, <2>2, <2>3, <2>4, <2>5, <2>6 DEF WorkerInvoke
  <2>8. QED
    BY <1>13, <2>0, <2>7 DEF TypeOK, WorkerInvoke, Worker, jsVars, wakeVars
<1>14. ASSUME NEW h \in Handles, NEW f \in SUBSET Flag, DecreasePending(h, f)
       PROVE  /\ flags' \in [Handles -> SUBSET Flag]
              /\ reqsPending' \in [Handles -> Int]
  <2>1. f \cup {"ENDGAME_QUEUED"} \in SUBSET Flag
    BY DEF Flag
  <2>2. QED
    BY <1>14, <2>1 DEF TypeOK, DecreasePending
<1>15. ASSUME NEW name \in {"onread", "oncomplete"}, NEW h \in Handles,
              NEW r \in Nat, FireCallback(name, h, r)
       PROVE  callbacks' \in Seq(Callback)
  <2>1. [name |-> name, object |-> h, req |-> r] \in Callback
    BY DEF Callback
  <2>2. QED
    BY <1>15, <2>1, AppendType DEF TypeOK, FireCallback
<1>16. ASSUME NEW h \in Handles, ReadData(h) PROVE TypeOK'
  <2>1. callbacks' \in Seq(Callback) /\ reads' \in Nat
    BY <1>15, <1>16 DEF TypeOK, ReadData
  <2>2. QED
    BY <1>16, <2>1
    DEF TypeOK, ReadData, Loop, Worker, jsVars, wakeVars, uvVars
<1>17. ASSUME NEW h \in Handles, NEW eof \in {{}, {"EOF"}}, ReadEnd(h, eof)
       PROVE  TypeOK'
  <2>1. (flags[h] \ {"READ_PENDING", "READING"}) \cup eof \in SUBSET Flag
    BY DEF TypeOK, Flag
  <2>2. flags' \in [Handles -> SUBSET Flag] /\ reqsPending' \in [Handles -> Int]
    BY <1>14, <1>17, <2>1 DEF ReadEnd
  <2>3. QED
    BY <1>17, <2>2 DEF TypeOK, ReadEnd, Loop, Worker, jsVars, wakeVars
<1>18. ASSUME NEW h \in Handles, ReadIgnored(h) PROVE TypeOK'
  <2>1. flags[h] \ {"READ_PENDING"} \in SUBSET Flag
    BY DEF TypeOK
  <2>2. flags' \in [Handles -> SUBSET Flag] /\ reqsPending' \in [Handles -> Int]
    BY <1>14, <1>18, <2>1 DEF ReadIgnored
  <2>3. QED
    BY <1>18, <2>2 DEF TypeOK, ReadIgnored, Loop, Worker, jsVars, wakeVars
<1>19. ASSUME NEW h \in Handles, WriteDone(h) PROVE TypeOK'
  <2>1. /\ Head(writing[h]) \in Nat
        /\ Tail(writing[h]) \in Seq(Nat)
    BY <1>19, HeadTailType DEF TypeOK, WriteDone
  <2>2. flags[h] \cup {"ENDGAME_QUEUED"} \in SUBSET Flag /\ flags[h] \in SUBSET Flag
    BY DEF TypeOK, Flag
  <2>3. flags' \in [Handles -> SUBSET Flag] /\ reqsPending' \in [Handles -> Int]
    BY <1>14, <1>19, <2>2 DEF WriteDone
  <2>4. callbacks' \in Seq(Callback)
    BY <1>15, <1>19, <2>1 DEF WriteDone
  <2>5. writing' \in [Handles -> Seq(Nat)]
    BY <1>19, <2>1 DEF TypeOK, WriteDone
  <2>6. QED
    BY <1>19, <2>3, <2>4, <2>5
    DEF TypeOK, WriteDone, Loop, Worker, jsVars, wakeVars
<1>20. ASSUME NEW h \in Handles, Endgame(h) PROVE TypeOK'
  <2> DEFINE rest == flags[h] \ {"ENDGAME_QUEUED"}
  <2>1. /\ rest \in SUBSET Flag
        /\ \A shut \in {{}, {"SHUT"}} : rest \cup shut \in SUBSET Flag
    BY DEF TypeOK, Flag
  <2>2. /\ flags' \in [Handles -> SUBSET Flag]
        /\ reqsPending' \in [Handles -> Int]
        /\ freed' \in [Handles -> BOOLEAN]
    <3>1. CASE /\ \E shut \in {{}, {"SHUT"}} : DecreasePending(h, rest \cup shut)
               /\ UNCHANGED freed
      <4>1. PICK shut \in {{}, {"SHUT"}} : DecreasePending(h, rest \cup shut)
        BY <3>1
      <4>2. rest \cup shut \in SUBSET Flag
        BY <2>1, <4>1
      <4>3. QED
        BY <1>14, <3>1, <4>1, <4>2 DEF TypeOK
    <3>2. CASE /\ freed' = [freed EXCEPT ![h] = TRUE]
               /\ flags' = [flags EXCEPT ![h] = rest]
               /\ UNCHANGED reqsPending
      BY <2>1, <3>2 DEF TypeOK
    <3>3. CASE /\ flags' = [flags EXCEPT ![h] = rest]
               /\ UNCHANGED <<reqsPending, freed>>
      BY <2>1, <3>3 DEF TypeOK
    <3>4. QED
      BY <1>20, <3>1, <3>2, <3>3 DEF Endgame
  <2>3. QED
    BY <1>20, <2>2 DEF TypeOK, Endgame, Loop, Worker, jsVars, wakeVars
<1>21. CASE UNCHANGED vars
  BY <1>21 DEF TypeOK, vars, jsVars, wakeVars, uvVars, boundVars
<1>22. CASE Next
  BY <1>1, <1>2, <1>3, <1>4, <1>5, <1>6, <1>7, <1>8, <1>9, <1>10, <1>11,
     <1>12, <1>13, <1>16, <1>17, <1>18, <1>19, <1>20, <1>22, Zenon
  DEF Next, Script, Kernel
<1>23. QED
  BY <1>21, <1>22

\* Every variable keeps its type in every behaviour.
THEOREM TypeCorrect == Spec => []TypeOK
BY InitTypeOK, TypeStep, PTL DEF Spec

-----------------------------------------------------------------------------
(* The wake-up of the worker.                                              *)

\* All that a step of the main thread's script or of a posted callback does to
\* the queue: nothing, or one Invoke.
MainStep ==
  \/ UNCHANGED <<invokeQueue, waking>>
  \/ \E m \in Methods, h \in Handles, r \in Nat : Invoke(m, h, r)

\* A call of the script touches the main thread's side of the wake-up only.
LEMMA ScriptIsMainStep ==
  ASSUME TypeOK, NEW h \in Handles, Script(h)
  PROVE  MainStep /\ UNCHANGED <<wakeVars, callbacks, uvVars>>
<1> USE DEF MainStep, Methods, ScriptCall
<1>0. calls + 1 \in Nat /\ 0 \in Nat
  BY DEF TypeOK
<1>1. CASE SocketWrite(h)
  BY <1>0, <1>1 DEF SocketWrite, Write
<1>2. CASE SocketEnd(h)
  <2>1. /\ UNCHANGED <<wakeVars, callbacks, uvVars>>
        /\ Invoke("shutdown", h, 0) \/ UNCHANGED <<invokeQueue, waking>>
    BY <1>2 DEF SocketEnd
  <2>2. CASE Invoke("shutdown", h, 0)
    BY <1>0, <2>1, <2>2
  <2>3. CASE UNCHANGED <<invokeQueue, waking>>
    BY <2>1, <2>3
  <2>4. QED
    BY <2>1, <2>2, <2>3
<1>3. CASE SocketPause(h)
  BY <1>0, <1>3 DEF SocketPause
<1>4. CASE SocketResume(h)
  BY <1>0, <1>4 DEF SocketResume
<1>5. CASE SocketDestroy(h)
  BY <1>0, <1>5 DEF SocketDestroy, Destroy
<1>6. CASE SocketDestroySoon(h)
  BY <1>0, <1>6 DEF SocketDestroySoon, Destroy
<1>7. QED
  BY <1>1, <1>2, <1>3, <1>4, <1>5, <1>6 DEF Script

\* So does a posted call.
LEMMA CallbackIsMainStep ==
  ASSUME TypeOK, OnreadCallback \/ OncompleteCallback
  PROVE  MainStep /\ UNCHANGED <<wakeVars, uvVars>>
<1> USE DEF MainStep, Methods, TakeCallback
<1>1. CASE OnreadCallback
  BY <1>1 DEF OnreadCallback
<1>2. CASE OncompleteCallback
  <2>1. Head(callbacks).object \in Handles
    <3>1. Head(callbacks) \in Callback
      BY <1>2, HeadTailType DEF TypeOK, OncompleteCallback
    <3>2. QED
      BY <3>1 DEF Callback
  <2>2. calls + 1 \in Nat /\ 0 \in Nat
    BY DEF TypeOK
  <2>3. QED
    BY <1>2, <2>1, <2>2 DEF OncompleteCallback, Acknowledge, Destroy
<1>3. QED
  BY <1>1, <1>2

\* Completions and endgames leave the queue alone.
LEMMA KernelLeavesQueue ==
  ASSUME NEW h \in Handles, Kernel(h) \/ Endgame(h)
  PROVE  UNCHANGED <<jsVars, invokeQueue, waking, wakeVars>>
BY DEF Kernel, ReadData, ReadEnd, ReadIgnored, WriteDone, Endgame, Loop, Worker

WakeInv == NoLostWakeup /\ OneWakeupInFlight

\* Every step keeps the invariant of the wake-up.
LEMMA WakeStep == TypeOK /\ WakeInv /\ [Next]_vars => WakeInv'
<1> SUFFICES ASSUME TypeOK, WakeInv, [Next]_vars PROVE WakeInv'
  OBVIOUS
<1> USE DEF WakeInv, NoLostWakeup, OneWakeupInFlight
<1>1. ASSUME MainStep, UNCHANGED wakeVars PROVE WakeInv'
  BY <1>1 DEF MainStep, Invoke, wakeVars
<1>2. ASSUME NEW h \in Handles, Script(h) PROVE WakeInv'
  BY <1>1, <1>2, ScriptIsMainStep
<1>3. CASE OnreadCallback \/ OncompleteCallback
  BY <1>1, <1>3, CallbackIsMainStep
<1>4. ASSUME NEW h \in Handles, Kernel(h) \/ Endgame(h) PROVE WakeInv'
  BY <1>4, KernelLeavesQueue DEF wakeVars
<1>5. CASE AsyncSend
  BY <1>5 DEF AsyncSend
<1>6. CASE AsyncWakeup
  <2>1. asyncSent /\ wakeups = 1
    BY <1>6 DEF AsyncWakeup
  <2>2. QED
    BY <1>6, <2>1 DEF AsyncWakeup
<1>7. CASE WorkerInvoke
  BY <1>7 DEF WorkerInvoke, wakeVars
<1>8. CASE WorkerReturn
  BY <1>8 DEF WorkerReturn
<1>9. CASE CallbackOnFreedObject
  BY <1>9 DEF CallbackOnFreedObject, wakeVars
<1>10. CASE UNCHANGED vars
  BY <1>10 DEF vars, wakeVars
<1>11. QED
  BY <1>2, <1>3, <1>4, <1>5, <1>6, <1>7, <1>8, <1>9, <1>10 DEF Next

\* No invocation is left in the queue without a wake-up to come, and the
\* request of the async handle is never posted twice (TcpBridge: NoLostWakeup,
\* OneWakeupInFlight), for any number of sockets and calls.
THEOREM WakeupCorrect == Spec => [](NoLostWakeup /\ OneWakeupInFlight)
<1>1. Init => WakeInv
  BY DEF Init, WakeInv, NoLostWakeup, OneWakeupInFlight
<1>2. QED
  BY <1>1, WakeStep, TypeCorrect, PTL DEF Spec, WakeInv

\* async_req is on its way at most once, exactly while async_sent is set
\* (TcpBridge: OneWakeupInFlight; async.c:95-127).
THEOREM OneAsyncRequest == Spec => []OneWakeupInFlight
  BY WakeupCorrect, PTL

-----------------------------------------------------------------------------
(* The worker never dispatches to a deleted TCPWrap.                       *)

\* A step that leaves the sockets, the queue and the flags CloseIsLast reads.
LEMMA CloseIsLastFrame ==
  ASSUME CloseIsLast,
         UNCHANGED <<destroyed, writable, invokeQueue, freed>>,
         \A h \in Handles : "CLOSING" \in flags'[h] <=> "CLOSING" \in flags[h]
  PROVE  CloseIsLast'
BY DEF CloseIsLast

\* Pushing an invocation for a socket that is not destroyed.
LEMMA PushForLiveSocket ==
  ASSUME TypeOK, CloseIsLast, NEW m \in Methods, NEW h \in Handles,
         NEW r \in Nat, Invoke(m, h, r), ~destroyed[h], m # "close",
         UNCHANGED <<destroyed, flags, freed>>,
         \A g \in Handles : writable'[g] => writable[g]
  PROVE  CloseIsLast'
<1> DEFINE e == [method |-> m, object |-> h, req |-> r]
<1>1. e \in Invocation /\ invokeQueue \in Seq(Invocation)
  BY DEF Invocation, TypeOK
<1>2. /\ Len(invokeQueue') = Len(invokeQueue) + 1
      /\ \A i \in 1 .. Len(invokeQueue) : invokeQueue'[i] = invokeQueue[i]
      /\ invokeQueue'[Len(invokeQueue) + 1] = e
      /\ Len(invokeQueue) \in Nat
  BY <1>1, AppendType DEF Invoke
<1>3. \A g \in Handles : "CLOSING" \in flags[g] => g # h
  BY DEF CloseIsLast
<1>4. \A i \in 1 .. Len(invokeQueue) : invokeQueue[i].method = "close" =>
        invokeQueue[i].object # h
  BY DEF CloseIsLast
<1>5. QED
  BY <1>2, <1>3, <1>4 DEF CloseIsLast

\* destroy() on any socket.
LEMMA DestroyKeepsCloseLast ==
  ASSUME TypeOK, CloseIsLast, NEW h \in Handles, Destroy(h),
         UNCHANGED <<flags, freed>>
  PROVE  CloseIsLast'
<1>1. /\ destroyed' = [destroyed EXCEPT ![h] = TRUE]
      /\ writable' = [writable EXCEPT ![h] = FALSE]
  BY DEF Destroy
<1>2. CASE destroyed[h]
  <2>1. UNCHANGED invokeQueue /\ destroyed' = destroyed
    BY <1>1, <1>2 DEF Destroy, TypeOK
  <2>2. \A g \in Handles : writable'[g] => writable[g]
    BY <1>1 DEF TypeOK
  <2>3. QED
    BY <2>1, <2>2 DEF CloseIsLast
<1>3. CASE ~destroyed[h]
  <2> DEFINE e == [method |-> "close", object |-> h, req |-> 0]
  <2>1. e \in Invocation /\ invokeQueue \in Seq(Invocation)
    BY DEF Invocation, Methods, TypeOK
  <2>2. /\ Len(invokeQueue') = Len(invokeQueue) + 1
        /\ \A i \in 1 .. Len(invokeQueue) : invokeQueue'[i] = invokeQueue[i]
        /\ invokeQueue'[Len(invokeQueue) + 1] = e
        /\ Len(invokeQueue) \in Nat
    BY <1>3, <2>1, AppendType DEF Destroy, Invoke
  <2>3. \A g \in Handles : "CLOSING" \in flags[g] => g # h
    BY <1>3 DEF CloseIsLast
  <2>4. \A i \in 1 .. Len(invokeQueue) :
          /\ invokeQueue[i].object \in Handles
          /\ invokeQueue[i].method = "close" =>
               /\ invokeQueue[i].object # h
               /\ destroyed'[invokeQueue[i].object]
    <3>1. \A i \in 1 .. Len(invokeQueue) : invokeQueue[i] \in Invocation
      BY <2>1
    <3>2. \A i \in 1 .. Len(invokeQueue) : invokeQueue[i].object \in Handles
      BY <3>1 DEF Invocation
    <3>3. QED
      BY <1>1, <1>3, <3>2 DEF CloseIsLast, TypeOK
  <2>5. \A g \in Handles : /\ destroyed[g] => destroyed'[g]
                           /\ destroyed'[g] => ~writable'[g]
    BY <1>1 DEF CloseIsLast, TypeOK
  <2>6. destroyed'[h]
    BY <1>1 DEF TypeOK
  <2>7. ASSUME NEW g \in Handles
        PROVE  /\ freed'[g] => "CLOSING" \in flags'[g]
               /\ "CLOSING" \in flags'[g] =>
                    /\ destroyed'[g]
                    /\ \A i \in 1 .. Len(invokeQueue') :
                         invokeQueue'[i].object # g
    BY <2>2, <2>3, <2>5 DEF CloseIsLast
  <2>8. ASSUME NEW i \in 1 .. Len(invokeQueue'),
               invokeQueue'[i].method = "close"
        PROVE  /\ destroyed'[invokeQueue'[i].object]
               /\ \A j \in i + 1 .. Len(invokeQueue') :
                    invokeQueue'[j].object # invokeQueue'[i].object
    <3>1. CASE i = Len(invokeQueue) + 1
      BY <2>2, <2>6, <3>1
    <3>2. CASE i \in 1 .. Len(invokeQueue)
      <4>1. /\ destroyed'[invokeQueue[i].object]
            /\ invokeQueue[i].object # h
            /\ invokeQueue'[i] = invokeQueue[i]
        BY <2>2, <2>4, <2>8, <3>2
      <4>2. ASSUME NEW j \in i + 1 .. Len(invokeQueue')
            PROVE  invokeQueue'[j].object # invokeQueue'[i].object
        BY <2>2, <2>8, <3>2, <4>1 DEF CloseIsLast
      <4>3. QED
        BY <4>1, <4>2
    <3>3. i = Len(invokeQueue) + 1 \/ i \in 1 .. Len(invokeQueue)
      BY <2>2
    <3>4. QED
      BY <3>1, <3>2, <3>3
  <2>9. QED
    BY <2>5, <2>7, <2>8 DEF CloseIsLast
<1>4. QED
  BY <1>2, <1>3

\* The worker takes the oldest invocation away; f is what it does to flags.
LEMMA PopKeepsCloseLast ==
  ASSUME TypeOK, CloseIsLast, invokeQueue # <<>>,
         invokeQueue' = Tail(invokeQueue),
         UNCHANGED <<destroyed, writable, freed>>,
         \A g \in Handles : "CLOSING" \in flags'[g] =>
           \/ "CLOSING" \in flags[g]
           \/ Head(invokeQueue).method = "close" /\ Head(invokeQueue).object = g,
         \A g \in Handles : "CLOSING" \in flags[g] => "CLOSING" \in flags'[g]
  PROVE  CloseIsLast'
<1>1. /\ Len(invokeQueue') = Len(invokeQueue) - 1
      /\ \A i \in 1 .. Len(invokeQueue') : invokeQueue'[i] = invokeQueue[i + 1]
      /\ Head(invokeQueue) = invokeQueue[1]
      /\ Len(invokeQueue) \in Nat /\ Len(invokeQueue) >= 1
  BY HeadTailType DEF TypeOK
<1>2. ASSUME NEW g \in Handles, "CLOSING" \in flags'[g]
      PROVE  /\ destroyed'[g]
             /\ \A i \in 1 .. Len(invokeQueue') : invokeQueue'[i].object # g
  <2>1. CASE "CLOSING" \in flags[g]
    BY <1>1, <2>1 DEF CloseIsLast
  <2>2. CASE invokeQueue[1].method = "close" /\ invokeQueue[1].object = g
    BY <1>1, <2>2 DEF CloseIsLast
  <2>3. QED
    BY <1>1, <1>2, <2>1, <2>2
<1>3. ASSUME NEW i \in 1 .. Len(invokeQueue'), invokeQueue'[i].method = "close"
      PROVE  /\ destroyed'[invokeQueue'[i].object]
             /\ \A j \in i + 1 .. Len(invokeQueue') :
                  invokeQueue'[j].object # invokeQueue'[i].object
  BY <1>1, <1>3 DEF CloseIsLast
<1>4. QED
  BY <1>2, <1>3 DEF CloseIsLast

\* What a step that does not close a handle does to the CLOSING flags.
LEMMA FlagsFrame ==
  ASSUME TypeOK, NEW h \in Handles, NEW f,
         flags' = [flags EXCEPT ![h] = f],
         "CLOSING" \in f <=> "CLOSING" \in flags[h]
  PROVE  \A g \in Handles : "CLOSING" \in flags'[g] <=> "CLOSING" \in flags[g]
<1>1. \A g \in Handles : flags'[g] = IF g = h THEN f ELSE flags[g]
  BY DEF TypeOK
<1>2. QED
  BY <1>1

\* A completed request closes no handle.
LEMMA DecreaseFrame ==
  ASSUME TypeOK, NEW h \in Handles, NEW f, DecreasePending(h, f),
         "CLOSING" \in f <=> "CLOSING" \in flags[h]
  PROVE  \A g \in Handles : "CLOSING" \in flags'[g] <=> "CLOSING" \in flags[g]
<1> DEFINE f2 == IF "CLOSING" \in f /\ reqsPending[h] = 1
                 THEN f \cup {"ENDGAME_QUEUED"} ELSE f
<1>1. flags' = [flags EXCEPT ![h] = f2]
  BY DEF DecreasePending
<1>2. "CLOSING" \in f2 <=> "CLOSING" \in flags[h]
  OBVIOUS
<1>3. QED
  BY <1>1, <1>2, FlagsFrame

\* Nor does the kernel.
LEMMA KernelFrame ==
  ASSUME TypeOK, NEW h \in Handles, Kernel(h)
  PROVE  \A g \in Handles : "CLOSING" \in flags'[g] <=> "CLOSING" \in flags[g]
<1>1. CASE ReadData(h)
  BY <1>1 DEF ReadData, uvVars
<1>2. ASSUME NEW eof \in {{}, {"EOF"}}, ReadEnd(h, eof)
      PROVE  \A g \in Handles :
               "CLOSING" \in flags'[g] <=> "CLOSING" \in flags[g]
  <2> DEFINE f == (flags[h] \ {"READ_PENDING", "READING"}) \cup eof
  <2>1. DecreasePending(h, f)
    BY <1>2 DEF ReadEnd
  <2>2. "CLOSING" \in f <=> "CLOSING" \in flags[h]
    OBVIOUS
  <2>3. QED
    BY <2>1, <2>2, DecreaseFrame
<1>3. CASE ReadIgnored(h)
  <2> DEFINE f == flags[h] \ {"READ_PENDING"}
  <2>1. DecreasePending(h, f)
    BY <1>3 DEF ReadIgnored
  <2>2. "CLOSING" \in f <=> "CLOSING" \in flags[h]
    OBVIOUS
  <2>3. QED
    BY <2>1, <2>2, DecreaseFrame
<1>4. CASE WriteDone(h)
  <2> DEFINE f == IF "SHUTTING" \in flags[h] /\ Len(writing[h]) = 1
                  THEN flags[h] \cup {"ENDGAME_QUEUED"} ELSE flags[h]
  <2>1. DecreasePending(h, f)
    BY <1>4 DEF WriteDone
  <2>2. "CLOSING" \in f <=> "CLOSING" \in flags[h]
    OBVIOUS
  <2>3. QED
    BY <2>1, <2>2, DecreaseFrame
<1>5. QED
  BY <1>1, <1>2, <1>3, <1>4 DEF Kernel

\* Nor does the endgame.
LEMMA EndgameFrame ==
  ASSUME TypeOK, NEW h \in Handles, Endgame(h)
  PROVE  \A g \in Handles : "CLOSING" \in flags'[g] <=> "CLOSING" \in flags[g]
<1> DEFINE rest == flags[h] \ {"ENDGAME_QUEUED"}
<1>1. CASE \E shut \in {{}, {"SHUT"}} : DecreasePending(h, rest \cup shut)
  <2>1. PICK shut \in {{}, {"SHUT"}} : DecreasePending(h, rest \cup shut)
    BY <1>1
  <2>2. "CLOSING" \in rest \cup shut <=> "CLOSING" \in flags[h]
    BY <2>1
  <2>3. QED
    BY <2>1, <2>2, DecreaseFrame
<1>2. CASE flags' = [flags EXCEPT ![h] = rest]
  <2>1. "CLOSING" \in rest <=> "CLOSING" \in flags[h]
    OBVIOUS
  <2>2. QED
    BY <1>2, <2>1, FlagsFrame
<1>3. QED
  BY <1>1, <1>2 DEF Endgame

\* Nor does an invocation other than close.
LEMMA OpenInvokeFrame ==
  ASSUME TypeOK, WorkerInvoke, Head(invokeQueue).method # "close",
         Head(invokeQueue).object \in Handles
  PROVE  \A g \in Handles : "CLOSING" \in flags'[g] <=> "CLOSING" \in flags[g]
<1> DEFINE h == Head(invokeQueue).object
<1>1. CASE UNCHANGED flags
  BY <1>1
<1>2. CASE UvReadStart(h)
  <2>1. "CLOSING" \in flags[h] \cup {"READING", "READ_PENDING"} <=>
          "CLOSING" \in flags[h]
    OBVIOUS
  <2>2. CASE flags' = [flags EXCEPT ![h] = @ \cup {"READING", "READ_PENDING"}]
    BY <2>1, <2>2, FlagsFrame
  <2>3. QED
    BY <1>1, <1>2, <2>2 DEF UvReadStart
<1>3. CASE UvReadStop(h)
  <2>1. "CLOSING" \in flags[h] \ {"READING"} <=> "CLOSING" \in flags[h]
    OBVIOUS
  <2>2. flags' = [flags EXCEPT ![h] = @ \ {"READING"}]
    BY <1>3 DEF UvReadStop
  <2>3. QED
    BY <2>1, <2>2, FlagsFrame
<1>4. CASE UvShutdown(h)
  <2>1. "CLOSING" \in flags[h] \cup {"SHUTTING", "ENDGAME_QUEUED"} <=>
          "CLOSING" \in flags[h]
    OBVIOUS
  <2>2. flags' = [flags EXCEPT ![h] = @ \cup {"SHUTTING", "ENDGAME_QUEUED"}]
    BY <1>4 DEF UvShutdown
  <2>3. QED
    BY <2>1, <2>2, FlagsFrame
<1>5. \/ UvReadStart(h) \/ UvReadStop(h) \/ UvShutdown(h) \/ UNCHANGED flags
  BY DEF WorkerInvoke, UvWrite
<1>6. QED
  BY <1>1, <1>2, <1>3, <1>4, <1>5

\* Every step keeps a socket's close at the end.
LEMMA CloseIsLastStep == TypeOK /\ CloseIsLast /\ [Next]_vars => CloseIsLast'
<1> SUFFICES ASSUME TypeOK, CloseIsLast, [Next]_vars PROVE CloseIsLast'
  OBVIOUS
<1>0. calls + 1 \in Nat /\ 0 \in Nat
  BY DEF TypeOK
<1>1. ASSUME NEW h \in Handles, SocketWrite(h) PROVE CloseIsLast'
  BY <1>0, <1>1, PushForLiveSocket
  DEF SocketWrite, Write, ScriptCall, uvVars, Methods
<1>2. ASSUME NEW h \in Handles, SocketEnd(h) PROVE CloseIsLast'
  <2>1. ~destroyed[h]
    BY <1>2 DEF SocketEnd, CloseIsLast
  <2>2. \A g \in Handles : writable'[g] => writable[g]
    BY <1>2 DEF SocketEnd, TypeOK
  <2>3. CASE Invoke("shutdown", h, 0)
    BY <1>0, <1>2, <2>1, <2>2, <2>3, PushForLiveSocket
    DEF SocketEnd, ScriptCall, uvVars, Methods
  <2>4. CASE UNCHANGED <<invokeQueue, waking>>
    BY <1>2, <2>2, <2>4 DEF SocketEnd, ScriptCall, uvVars, CloseIsLast
  <2>5. QED
    BY <1>2, <2>3, <2>4 DEF SocketEnd
<1>3. ASSUME NEW h \in Handles, SocketPause(h) \/ SocketResume(h)
      PROVE  CloseIsLast'
  BY <1>0, <1>3, PushForLiveSocket
  DEF SocketPause, SocketResume, ScriptCall, uvVars, Methods
<1>4. ASSUME NEW h \in Handles, SocketDestroy(h) PROVE CloseIsLast'
  BY <1>4, DestroyKeepsCloseLast DEF SocketDestroy, ScriptCall, uvVars
<1>5. ASSUME NEW h \in Handles, SocketDestroySoon(h) PROVE CloseIsLast'
  <2>1. CASE Destroy(h)
    BY <1>5, <2>1, DestroyKeepsCloseLast DEF SocketDestroySoon, ScriptCall, uvVars
  <2>2. CASE /\ writable' = [writable EXCEPT ![h] = FALSE]
             /\ UNCHANGED <<destroyed, invokeQueue, waking>>
    <3>1. UNCHANGED <<flags, freed>>
      BY <1>5 DEF SocketDestroySoon, ScriptCall, uvVars
    <3>2. \A g \in Handles : writable'[g] => writable[g]
      BY <2>2 DEF TypeOK
    <3>3. QED
      BY <2>2, <3>1, <3>2 DEF CloseIsLast
  <2>3. QED
    BY <1>5, <2>1, <2>2 DEF SocketDestroySoon
<1>6. CASE OnreadCallback
  BY <1>6, CloseIsLastFrame DEF OnreadCallback, TakeCallback, uvVars
<1>7. CASE OncompleteCallback
  <2> DEFINE h == Head(callbacks).object
  <2>1. h \in Handles
    <3>1. Head(callbacks) \in Callback
      BY <1>7, HeadTailType DEF TypeOK, OncompleteCallback, TakeCallback
    <3>2. QED
      BY <3>1 DEF Callback
  <2>2. UNCHANGED <<flags, freed>>
    BY <1>7 DEF OncompleteCallback, TakeCallback, uvVars
  <2>3. CASE UNCHANGED <<writable, destroyed, invokeQueue>>
    BY <2>2, <2>3, CloseIsLastFrame
  <2>4. CASE Destroy(h)
    BY <2>1, <2>2, <2>4, DestroyKeepsCloseLast
  <2>5. CASE /\ ~destroyed[h]
             /\ Invoke("write", h, calls + 1)
             /\ UNCHANGED <<writable, destroyed>>
    BY <1>0, <2>1, <2>2, <2>5, PushForLiveSocket DEF Methods
  <2>6. QED
    BY <1>7, <2>3, <2>4, <2>5 DEF OncompleteCallback, Acknowledge
<1>8. CASE WorkerInvoke
  <2> DEFINE i == Head(invokeQueue)
  <2>0. i \in Invocation /\ invokeQueue # <<>> /\ invokeQueue' = Tail(invokeQueue)
    BY <1>8, HeadTailType DEF TypeOK, WorkerInvoke
  <2>1. i.object \in Handles
    BY <2>0 DEF Invocation
  <2>2. UNCHANGED <<destroyed, writable, freed>>
    BY <1>8
    DEF WorkerInvoke, Worker, jsVars, UvReadStart, UvReadStop, UvWrite,
        UvShutdown, UvClose
  <2>3. CASE i.method # "close"
    <3>1. \A g \in Handles : "CLOSING" \in flags'[g] <=> "CLOSING" \in flags[g]
      BY <1>8, <2>1, <2>3, OpenInvokeFrame
    <3>2. QED
      BY <2>0, <2>2, <3>1, PopKeepsCloseLast
  <2>4. CASE i.method = "close"
    <3>1. UvClose(i.object)
      BY <1>8, <2>4 DEF WorkerInvoke
    <3>2. \A g \in Handles :
            /\ g # i.object => flags'[g] = flags[g]
            /\ "CLOSING" \in flags[g] => "CLOSING" \in flags'[g]
      BY <2>1, <3>1 DEF TypeOK, UvClose
    <3>3. QED
      BY <2>0, <2>2, <2>4, <3>2, PopKeepsCloseLast
  <2>5. QED
    BY <2>3, <2>4
<1>9. ASSUME NEW h \in Handles, Kernel(h) PROVE CloseIsLast'
  <2>1. UNCHANGED <<destroyed, writable, invokeQueue>>
    BY <1>9, KernelLeavesQueue DEF jsVars
  <2>2. UNCHANGED freed
    BY <1>9 DEF Kernel, ReadData, ReadEnd, ReadIgnored, WriteDone, uvVars
  <2>3. \A g \in Handles : "CLOSING" \in flags'[g] <=> "CLOSING" \in flags[g]
    BY <1>9, KernelFrame
  <2>4. QED
    BY <2>1, <2>2, <2>3, CloseIsLastFrame
<1>10. ASSUME NEW h \in Handles, Endgame(h) PROVE CloseIsLast'
  <2>1. UNCHANGED <<destroyed, writable, invokeQueue>>
    BY <1>10, KernelLeavesQueue DEF jsVars
  <2>2. \A g \in Handles : "CLOSING" \in flags'[g] <=> "CLOSING" \in flags[g]
    BY <1>10, EndgameFrame
  <2>3. \A g \in Handles : freed'[g] => freed[g] \/ "CLOSING" \in flags[g]
    BY <1>10 DEF TypeOK, Endgame
  <2>4. QED
    BY <2>1, <2>2, <2>3 DEF CloseIsLast
<1>11. CASE AsyncSend \/ CallbackOnFreedObject \/ AsyncWakeup \/ WorkerReturn
  BY <1>11, CloseIsLastFrame
  DEF AsyncSend, CallbackOnFreedObject, AsyncWakeup, WorkerReturn, Worker,
      jsVars, uvVars
<1>12. CASE UNCHANGED vars
  BY <1>12, CloseIsLastFrame DEF vars, jsVars, uvVars
<1>13. QED
  BY <1>1, <1>2, <1>3, <1>4, <1>5, <1>6, <1>7, <1>8, <1>9, <1>10, <1>11, <1>12
  DEF Next, Script

\* CloseIsLast is inductive: whatever the number of sockets and calls, a
\* socket's close is pushed once and nothing follows it (tcp_wrap.cpp:218,
\* net.js:235-262).
THEOREM CloseStaysLast == Spec => []CloseIsLast
<1>1. Init => CloseIsLast
  BY DEF Init, CloseIsLast
<1>2. QED
  BY <1>1, CloseIsLastStep, TypeCorrect, PTL DEF Spec

\* TcpBridge: InvokeTargetAlive, for any number of sockets and calls.
THEOREM InvokeTargetIsAlive == Spec => []InvokeTargetAlive
<1>1. TypeOK /\ CloseIsLast => InvokeTargetAlive
  <2> SUFFICES ASSUME TypeOK, CloseIsLast, NEW i \in DOMAIN invokeQueue
               PROVE  ~freed[invokeQueue[i].object]
    BY DEF InvokeTargetAlive
  <2>1. i \in 1 .. Len(invokeQueue) /\ invokeQueue[i] \in Invocation
    BY DEF TypeOK
  <2>2. invokeQueue[i].object \in Handles
    BY <2>1 DEF Invocation
  <2>3. QED
    BY <2>1, <2>2 DEF CloseIsLast
<1>2. QED
  BY <1>1, CloseStaysLast, TypeCorrect, PTL

-----------------------------------------------------------------------------
(* The requests libuv counts.                                              *)

\* What a socket that is no longer writable cannot ask for.
AfterEnd == IF WriteAfterEnd THEN {"shutdown"} ELSE {"shutdown", "write"}

\* end() asks for a shutdown at most once and, unless the script writes on an
\* ended socket, nothing is written behind it.
ShutdownIsLast ==
  /\ \A h \in Handles : writable[h] =>
       /\ "SHUTTING" \notin flags[h]
       /\ \A i \in 1 .. Len(invokeQueue) :
            ~(invokeQueue[i].method = "shutdown" /\ invokeQueue[i].object = h)
  /\ \A h \in Handles : "SHUTTING" \in flags[h] =>
       \A i \in 1 .. Len(invokeQueue) :
         ~(invokeQueue[i].method \in AfterEnd /\ invokeQueue[i].object = h)
  /\ \A i \in 1 .. Len(invokeQueue) : invokeQueue[i].method = "shutdown" =>
       \A j \in i + 1 .. Len(invokeQueue) :
         ~(/\ invokeQueue[j].method \in AfterEnd
           /\ invokeQueue[j].object = invokeQueue[i].object)

\* A step of the main thread pushes at most one invocation, and for a socket
\* that is still writable when the invocation is one of AfterEnd.
Asking ==
  \/ UNCHANGED invokeQueue
  \/ \E m \in Methods, h \in Handles, r \in Nat :
       /\ Invoke(m, h, r)
       /\ m \in AfterEnd => writable[h]
       /\ m = "shutdown" => ~writable'[h]

\* Pushing writes and ends as Asking allows keeps a shutdown at the end.
LEMMA AskingKeepsShutdownLast ==
  ASSUME TypeOK, ShutdownIsLast, Asking, UNCHANGED flags,
         \A g \in Handles : writable'[g] => writable[g]
  PROVE  ShutdownIsLast'
<1>1. CASE UNCHANGED invokeQueue
  BY <1>1 DEF ShutdownIsLast
<1>2. CASE ~UNCHANGED invokeQueue
  <2>1. PICK m \in Methods, h \in Handles, r \in Nat :
          /\ Invoke(m, h, r)
          /\ m \in AfterEnd => writable[h]
          /\ m = "shutdown" => ~writable'[h]
    BY <1>2 DEF Asking
  <2> DEFINE e == [method |-> m, object |-> h, req |-> r]
             q == invokeQueue'
  <2>2. e \in Invocation /\ invokeQueue \in Seq(Invocation)
    BY DEF Invocation, TypeOK
  <2>3. /\ Len(q) = Len(invokeQueue) + 1
        /\ \A i \in 1 .. Len(invokeQueue) : q[i] = invokeQueue[i]
        /\ q[Len(invokeQueue) + 1] = e
        /\ Len(invokeQueue) \in Nat
    BY <2>1, <2>2, AppendType DEF Invoke
  <2> HIDE DEF q
  <2>4. e.method = m /\ e.object = h
    OBVIOUS
  <2> HIDE DEF e
  <2>5. \A i \in 1 .. Len(q) : i \in 1 .. Len(invokeQueue) \/ q[i] = e
    BY <2>3
  <2>6. ASSUME NEW g \in Handles, writable'[g]
        PROVE  /\ "SHUTTING" \notin flags'[g]
               /\ \A i \in 1 .. Len(q) : ~(q[i].method = "shutdown" /\ q[i].object = g)
    BY <2>1, <2>3, <2>4, <2>5, <2>6 DEF ShutdownIsLast
  <2>7. ASSUME NEW g \in Handles, "SHUTTING" \in flags'[g]
        PROVE  \A i \in 1 .. Len(q) : ~(q[i].method \in AfterEnd /\ q[i].object = g)
    BY <2>1, <2>3, <2>4, <2>5, <2>7 DEF ShutdownIsLast
  <2>8. ASSUME NEW i \in 1 .. Len(q), q[i].method = "shutdown",
               NEW j \in i + 1 .. Len(q),
               q[j].method \in AfterEnd, q[j].object = q[i].object
        PROVE  FALSE
    <3>1. i \in 1 .. Len(invokeQueue) /\ j \in 1 .. Len(q) /\ q[i] = invokeQueue[i]
      BY <2>3, <2>8
    <3>2. CASE j \in 1 .. Len(invokeQueue)
      BY <2>3, <2>8, <3>1, <3>2 DEF ShutdownIsLast
    <3>3. CASE q[j] = e
      BY <2>1, <2>4, <2>8, <3>1, <3>3 DEF ShutdownIsLast
    <3>4. QED
      BY <2>5, <3>1, <3>2, <3>3
  <2>9. QED
    BY <2>6, <2>7, <2>8 DEF ShutdownIsLast, q
<1>3. QED
  BY <1>1, <1>2

\* The worker takes the oldest invocation away.
LEMMA PopKeepsShutdownLast ==
  ASSUME TypeOK, ShutdownIsLast, invokeQueue # <<>>,
         invokeQueue' = Tail(invokeQueue), UNCHANGED writable,
         \A g \in Handles : "SHUTTING" \in flags'[g] =>
           \/ "SHUTTING" \in flags[g]
           \/ /\ Head(invokeQueue).method = "shutdown"
              /\ Head(invokeQueue).object = g
  PROVE  ShutdownIsLast'
<1> DEFINE q == invokeQueue'
<1>1. /\ Len(q) = Len(invokeQueue) - 1
      /\ \A i \in 1 .. Len(q) : q[i] = invokeQueue[i + 1]
      /\ Head(invokeQueue) = invokeQueue[1]
      /\ Len(invokeQueue) \in Nat /\ Len(invokeQueue) >= 1
  BY HeadTailType DEF TypeOK
<1> HIDE DEF q
<1>2. \A i \in 1 .. Len(q) : i + 1 \in 1 .. Len(invokeQueue)
  BY <1>1
<1>3. ASSUME NEW g \in Handles, writable[g]
      PROVE  /\ "SHUTTING" \notin flags'[g]
             /\ \A i \in 1 .. Len(q) : ~(q[i].method = "shutdown" /\ q[i].object = g)
  BY <1>1, <1>2, <1>3 DEF ShutdownIsLast
<1>4. ASSUME NEW g \in Handles, "SHUTTING" \in flags'[g]
      PROVE  \A i \in 1 .. Len(q) : ~(q[i].method \in AfterEnd /\ q[i].object = g)
  <2>1. CASE "SHUTTING" \in flags[g]
    BY <1>1, <1>2, <2>1 DEF ShutdownIsLast
  <2>2. CASE invokeQueue[1].method = "shutdown" /\ invokeQueue[1].object = g
    BY <1>1, <2>2 DEF ShutdownIsLast
  <2>3. QED
    BY <1>1, <1>4, <2>1, <2>2
<1>5. ASSUME NEW i \in 1 .. Len(q), q[i].method = "shutdown",
             NEW j \in i + 1 .. Len(q)
      PROVE  ~(q[j].method \in AfterEnd /\ q[j].object = q[i].object)
  BY <1>1, <1>5 DEF ShutdownIsLast
<1>6. QED
  BY <1>3, <1>4, <1>5 DEF ShutdownIsLast, q

-----------------------------------------------------------------------------
(* Asking, action by action.                                               *)

\* A call of the script pushes as Asking allows.
LEMMA ScriptAsks ==
  ASSUME TypeOK, NEW h \in Handles, Script(h)
  PROVE  /\ Asking /\ UNCHANGED uvVars
         /\ \A g \in Handles : writable'[g] => writable[g]
<1> USE DEF Asking, Methods, AfterEnd, ScriptCall
<1>0. calls + 1 \in Nat /\ 0 \in Nat
  BY DEF TypeOK
<1>1. CASE SocketWrite(h)
  BY <1>0, <1>1 DEF SocketWrite, Write
<1>2. CASE SocketEnd(h)
  <2>1. writable' = [writable EXCEPT ![h] = FALSE] /\ writable[h]
    BY <1>2 DEF SocketEnd
  <2>2. ~writable'[h] /\ \A g \in Handles : writable'[g] => writable[g]
    BY <2>1 DEF TypeOK
  <2>3. UNCHANGED uvVars
    BY <1>2 DEF SocketEnd
  <2>4. CASE Invoke("shutdown", h, 0)
    BY <1>0, <2>1, <2>2, <2>3, <2>4
  <2>5. CASE UNCHANGED invokeQueue
    BY <2>2, <2>3, <2>5
  <2>6. QED
    BY <1>2, <2>4, <2>5 DEF SocketEnd
<1>3. CASE SocketPause(h) \/ SocketResume(h)
  BY <1>0, <1>3 DEF SocketPause, SocketResume
<1>4. CASE SocketDestroy(h)
  BY <1>0, <1>4 DEF SocketDestroy, Destroy, TypeOK
<1>5. CASE SocketDestroySoon(h)
  <2>1. writable' = [writable EXCEPT ![h] = FALSE] /\ UNCHANGED uvVars
    BY <1>5 DEF SocketDestroySoon, Destroy
  <2>2. \A g \in Handles : writable'[g] => writable[g]
    BY <2>1 DEF TypeOK
  <2>3. Asking
    BY <1>0, <1>5 DEF SocketDestroySoon, Destroy
  <2>4. QED
    BY <2>1, <2>2, <2>3
<1>6. QED
  BY <1>1, <1>2, <1>3, <1>4, <1>5 DEF Script

\* So does a posted call.
LEMMA CallbackAsks ==
  ASSUME TypeOK, OnreadCallback \/ OncompleteCallback
  PROVE  /\ Asking /\ UNCHANGED uvVars
         /\ \A g \in Handles : writable'[g] => writable[g]
<1> USE DEF Asking, Methods, AfterEnd, TakeCallback
<1>1. CASE OnreadCallback
  BY <1>1 DEF OnreadCallback
<1>2. CASE OncompleteCallback
  <2> DEFINE h == Head(callbacks).object
             r == Head(callbacks).req
  <2>1. h \in Handles
    <3>1. Head(callbacks) \in Callback
      BY <1>2, HeadTailType DEF TypeOK, OncompleteCallback
    <3>2. QED
      BY <3>1 DEF Callback
  <2>2. calls + 1 \in Nat /\ 0 \in Nat
    BY DEF TypeOK
  <2>3. UNCHANGED uvVars
    BY <1>2 DEF OncompleteCallback
  <2>4. \/ UNCHANGED <<invokeQueue, writable>>
        \/ Destroy(h)
        \/ /\ Invoke("write", h, calls + 1)
           /\ writable[h] \/ WriteAfterEnd
           /\ UNCHANGED writable
    BY <1>2 DEF OncompleteCallback, Acknowledge
  <2> HIDE DEF h
  <2>5. CASE UNCHANGED <<invokeQueue, writable>>
    BY <2>3, <2>5
  <2>6. CASE Destroy(h)
    BY <2>1, <2>2, <2>3, <2>6 DEF Destroy, TypeOK
  <2>7. CASE /\ Invoke("write", h, calls + 1)
             /\ writable[h] \/ WriteAfterEnd
             /\ UNCHANGED writable
    BY <2>1, <2>2, <2>3, <2>7
  <2>8. QED
    BY <2>4, <2>5, <2>6, <2>7
<1>3. QED
  BY <1>1, <1>2

-----------------------------------------------------------------------------
(* What libuv does to one handle.                                          *)

\* A step that disturbs libuv's record of one handle at most.
OneHandle(h) ==
  \A g \in Handles : g # h =>
    /\ flags'[g] = flags[g]
    /\ reqsPending'[g] = reqsPending[g]
    /\ writing'[g] = writing[g]
    /\ freed'[g] = freed[g]

\* DECREASE_PENDING_REQ_COUNT: one request less, and the endgame for the last
\* one of a closing handle.
LEMMA DecreaseEffect ==
  ASSUME TypeOK, NEW h \in Handles, NEW f, DecreasePending(h, f)
  PROVE  /\ \A g \in Handles : g # h =>
              flags'[g] = flags[g] /\ reqsPending'[g] = reqsPending[g]
         /\ reqsPending'[h] = reqsPending[h] - 1
         /\ flags'[h] = IF "CLOSING" \in f /\ reqsPending[h] = 1
                        THEN f \cup {"ENDGAME_QUEUED"} ELSE f
BY DEF TypeOK, DecreasePending

\* What the completion of a read does to its handle.
LEMMA ReadEffect ==
  ASSUME TypeOK, NEW h \in Handles,
         ReadIgnored(h) \/ \E eof \in {{}, {"EOF"}} : ReadEnd(h, eof)
  PROVE  /\ OneHandle(h)
         /\ UNCHANGED <<writing, freed>>
         /\ reqsPending'[h] = reqsPending[h] - 1
         /\ "READ_PENDING" \in flags[h] /\ "READ_PENDING" \notin flags'[h]
         /\ \A x \in {"SHUTTING", "SHUT", "CLOSING"} : x \in flags'[h] <=> x \in flags[h]
         /\ "ENDGAME_QUEUED" \in flags'[h] =>
              "ENDGAME_QUEUED" \in flags[h] \/ "CLOSING" \in flags[h]
<1>1. PICK f : /\ DecreasePending(h, f)
               /\ "READ_PENDING" \in flags[h] /\ "READ_PENDING" \notin f
               /\ \A x \in {"SHUTTING", "SHUT", "CLOSING", "ENDGAME_QUEUED"} :
                    x \in f <=> x \in flags[h]
  <2>1. CASE ReadIgnored(h)
    <3> DEFINE f == flags[h] \ {"READ_PENDING"}
    <3>1. DecreasePending(h, f) /\ "READ_PENDING" \in flags[h]
      BY <2>1 DEF ReadIgnored
    <3>2. QED
      BY <3>1
  <2>2. ASSUME NEW eof \in {{}, {"EOF"}}, ReadEnd(h, eof)
        PROVE  \E f : /\ DecreasePending(h, f)
                      /\ "READ_PENDING" \in flags[h] /\ "READ_PENDING" \notin f
                      /\ \A x \in {"SHUTTING", "SHUT", "CLOSING", "ENDGAME_QUEUED"} :
                           x \in f <=> x \in flags[h]
    <3> DEFINE f == (flags[h] \ {"READ_PENDING", "READING"}) \cup eof
    <3>1. DecreasePending(h, f) /\ "READ_PENDING" \in flags[h]
      BY <2>2 DEF ReadEnd
    <3>2. QED
      BY <3>1
  <2>3. QED
    BY <2>1, <2>2
<1>2. UNCHANGED <<writing, freed>>
  BY DEF ReadIgnored, ReadEnd
<1>3. /\ \A g \in Handles : g # h =>
           flags'[g] = flags[g] /\ reqsPending'[g] = reqsPending[g]
      /\ reqsPending'[h] = reqsPending[h] - 1
      /\ \/ flags'[h] = f
         \/ "CLOSING" \in f /\ flags'[h] = f \cup {"ENDGAME_QUEUED"}
  <2>1. DecreasePending(h, f)
    BY <1>1
  <2>2. QED
    BY <2>1, DecreaseEffect
<1>4. OneHandle(h)
  BY <1>2, <1>3 DEF OneHandle
<1>5. QED
  BY <1>1, <1>2, <1>3, <1>4

\* What the completion of a send does to its handle.
LEMMA WriteDoneEffect ==
  ASSUME TypeOK, NEW h \in Handles, WriteDone(h)
  PROVE  /\ OneHandle(h)
         /\ UNCHANGED freed
         /\ writing[h] # <<>> /\ writing'[h] = Tail(writing[h])
         /\ reqsPending'[h] = reqsPending[h] - 1
         /\ \A x \in {"READ_PENDING", "SHUTTING", "SHUT", "CLOSING"} :
              x \in flags'[h] <=> x \in flags[h]
         /\ "ENDGAME_QUEUED" \in flags'[h] =>
              \/ "ENDGAME_QUEUED" \in flags[h]
              \/ "CLOSING" \in flags[h]
              \/ "SHUTTING" \in flags[h]
<1> DEFINE f == IF "SHUTTING" \in flags[h] /\ Len(writing[h]) = 1
                THEN flags[h] \cup {"ENDGAME_QUEUED"} ELSE flags[h]
<1>1. DecreasePending(h, f)
  BY DEF WriteDone
<1>2. \A x \in {"READ_PENDING", "SHUTTING", "SHUT", "CLOSING"} :
        x \in f <=> x \in flags[h]
  OBVIOUS
<1>3. "ENDGAME_QUEUED" \in f => "ENDGAME_QUEUED" \in flags[h] \/ "SHUTTING" \in flags[h]
  OBVIOUS
<1> HIDE DEF f
<1>4. /\ writing[h] # <<>> /\ UNCHANGED freed
      /\ writing' = [writing EXCEPT ![h] = Tail(@)]
  BY DEF WriteDone
<1>5. /\ \A g \in Handles : g # h =>
           flags'[g] = flags[g] /\ reqsPending'[g] = reqsPending[g]
      /\ reqsPending'[h] = reqsPending[h] - 1
      /\ \/ flags'[h] = f
         \/ "CLOSING" \in f /\ flags'[h] = f \cup {"ENDGAME_QUEUED"}
  BY <1>1, DecreaseEffect
<1>6. OneHandle(h) /\ writing'[h] = Tail(writing[h])
  BY <1>4, <1>5 DEF OneHandle, TypeOK
<1>7. QED
  BY <1>2, <1>3, <1>4, <1>5, <1>6

\* What the endgame does to its handle: a shutdown, or the end of a close.
LEMMA EndgameEffect ==
  ASSUME TypeOK, NEW h \in Handles, Endgame(h)
  PROVE  /\ OneHandle(h)
         /\ UNCHANGED writing
         /\ "ENDGAME_QUEUED" \in flags[h]
         /\ \A x \in {"READ_PENDING", "SHUTTING", "CLOSING"} :
              x \in flags'[h] <=> x \in flags[h]
         /\ "SHUT" \in flags[h] => "SHUT" \in flags'[h]
         /\ \/ /\ "SHUTTING" \in flags[h] /\ "SHUT" \notin flags[h]
               /\ writing[h] = <<>>
               /\ reqsPending'[h] = reqsPending[h] - 1
               /\ "ENDGAME_QUEUED" \in flags'[h] => "CLOSING" \in flags[h]
               /\ freed'[h] = freed[h]
            \/ /\ reqsPending'[h] = reqsPending[h]
               /\ "SHUT" \in flags'[h] <=> "SHUT" \in flags[h]
               /\ "ENDGAME_QUEUED" \notin flags'[h]
               /\ freed'[h] => \/ freed[h]
                               \/ "CLOSING" \in flags[h] /\ reqsPending[h] = 0
<1> DEFINE rest == flags[h] \ {"ENDGAME_QUEUED"}
<1>0. /\ "ENDGAME_QUEUED" \in flags[h] /\ UNCHANGED writing
      /\ \A x \in {"READ_PENDING", "SHUTTING", "CLOSING", "SHUT"} :
           x \in rest <=> x \in flags[h]
      /\ "ENDGAME_QUEUED" \notin rest
  BY DEF Endgame
<1>1. ASSUME NEW shut \in {{}, {"SHUT"}}, DecreasePending(h, rest \cup shut),
             "SHUTTING" \in rest, "SHUT" \notin rest, writing[h] = <<>>,
             UNCHANGED freed
      PROVE  /\ OneHandle(h)
             /\ \A x \in {"READ_PENDING", "SHUTTING", "CLOSING"} :
                  x \in flags'[h] <=> x \in flags[h]
             /\ "SHUTTING" \in flags[h] /\ "SHUT" \notin flags[h]
             /\ writing[h] = <<>>
             /\ reqsPending'[h] = reqsPending[h] - 1
             /\ "ENDGAME_QUEUED" \in flags'[h] => "CLOSING" \in flags[h]
             /\ UNCHANGED freed
  <2> DEFINE f == rest \cup shut
  <2>1. /\ \A x \in {"READ_PENDING", "SHUTTING", "CLOSING"} : x \in f <=> x \in flags[h]
        /\ "ENDGAME_QUEUED" \notin f
    BY <1>0
  <2>2. DecreasePending(h, f)
    BY <1>1
  <2> HIDE DEF f
  <2>3. QED
    BY <1>0, <1>1, <2>1, <2>2, DecreaseEffect DEF OneHandle
<1>2. ASSUME flags' = [flags EXCEPT ![h] = rest], UNCHANGED reqsPending,
             \/ UNCHANGED freed
             \/ /\ freed' = [freed EXCEPT ![h] = TRUE]
                /\ "CLOSING" \in rest /\ reqsPending[h] = 0
      PROVE  /\ OneHandle(h)
             /\ \A x \in {"READ_PENDING", "SHUTTING", "CLOSING", "SHUT"} :
                  x \in flags'[h] <=> x \in flags[h]
             /\ "ENDGAME_QUEUED" \notin flags'[h]
             /\ reqsPending'[h] = reqsPending[h]
             /\ freed'[h] => \/ freed[h]
                             \/ "CLOSING" \in flags[h] /\ reqsPending[h] = 0
  <2> HIDE DEF rest
  <2>1. flags'[h] = rest /\ \A g \in Handles : g # h => flags'[g] = flags[g]
    BY <1>2 DEF TypeOK
  <2>2. \A g \in Handles : g # h => freed'[g] = freed[g]
    BY <1>2 DEF TypeOK
  <2>3. QED
    BY <1>0, <1>2, <2>1, <2>2 DEF OneHandle
<1>3. QED
  BY <1>0, <1>1, <1>2 DEF Endgame

\* One invocation: reading started or stopped, a write, a shutdown, a close.
LEMMA InvokeEffect ==
  ASSUME TypeOK, WorkerInvoke
  PROVE  LET i == Head(invokeQueue)
             h == i.object
         IN /\ i \in Invocation /\ h \in Handles
            /\ OneHandle(h)
            /\ UNCHANGED freed
            /\ \/ /\ i.method \in {"readStart", "readStop"}
                  /\ UNCHANGED <<writing, broken>>
                  /\ \A x \in {"SHUTTING", "SHUT", "CLOSING", "ENDGAME_QUEUED"} :
                       x \in flags'[h] <=> x \in flags[h]
                  /\ \/ /\ "READ_PENDING" \in flags'[h] <=> "READ_PENDING" \in flags[h]
                        /\ reqsPending'[h] = reqsPending[h]
                     \/ /\ "READ_PENDING" \notin flags[h]
                        /\ reqsPending'[h] = reqsPending[h] + 1
               \/ /\ i.method = "write"
                  /\ UNCHANGED flags
                  /\ \/ /\ UNCHANGED writing
                        /\ reqsPending'[h] = reqsPending[h]
                        /\ \/ "SHUTTING" \in flags[h] /\ UNCHANGED broken
                           \/ /\ broken[h] \/ SendMayFail
                              /\ broken' = [broken EXCEPT ![h] = TRUE]
                     \/ /\ "SHUTTING" \notin flags[h] /\ ~broken[h]
                        /\ writing'[h] = Append(writing[h], i.req)
                        /\ reqsPending'[h] = reqsPending[h] + 1
                        /\ UNCHANGED broken
               \/ /\ i.method = "shutdown"
                  /\ UNCHANGED <<writing, broken>>
                  /\ \A x \in {"READ_PENDING", "SHUT", "CLOSING"} :
                       x \in flags'[h] <=> x \in flags[h]
                  /\ "SHUTTING" \in flags'[h]
                  /\ reqsPending'[h] = reqsPending[h] + 1
               \/ /\ i.method = "close"
                  /\ UNCHANGED <<writing, broken, reqsPending>>
                  /\ \A x \in {"READ_PENDING", "SHUTTING"} :
                       x \in flags'[h] <=> x \in flags[h]
                  /\ {"SHUT", "CLOSING"} \subseteq flags'[h]
<1> DEFINE i == Head(invokeQueue)
           h == i.object
<1>0. i \in Invocation
  BY HeadTailType DEF TypeOK, WorkerInvoke
<1>1. h \in Handles
  BY <1>0 DEF Invocation
<1>2. \/ i.method = "readStart" /\ UvReadStart(h)
      \/ i.method = "readStop" /\ UvReadStop(h)
      \/ i.method = "write" /\ UvWrite(h, i.req)
      \/ i.method = "shutdown" /\ UvShutdown(h)
      \/ i.method = "close" /\ UvClose(h)
  BY DEF WorkerInvoke
<1>3. UNCHANGED freed
  BY <1>2 DEF UvReadStart, UvReadStop, UvWrite, UvShutdown, UvClose
<1> HIDE DEF h, i
<1>4. ASSUME NEW f, flags' = [flags EXCEPT ![h] = f]
      PROVE  flags'[h] = f /\ \A g \in Handles : g # h => flags'[g] = flags[g]
  BY <1>1, <1>4 DEF TypeOK
<1>5. ASSUME NEW n, reqsPending' = [reqsPending EXCEPT ![h] = n]
      PROVE  /\ reqsPending'[h] = n
             /\ \A g \in Handles : g # h => reqsPending'[g] = reqsPending[g]
  BY <1>1, <1>5 DEF TypeOK
<1>6. CASE i.method = "readStart" /\ UvReadStart(h)
  <2>1. CASE UNCHANGED <<flags, reqsPending>>
    BY <1>0, <1>1, <1>3, <1>6, <2>1 DEF UvReadStart, OneHandle, h, i
  <2>2. CASE ~UNCHANGED <<flags, reqsPending>>
    <3> DEFINE f == flags[h] \cup {"READING", "READ_PENDING"}
               n == IF "READ_PENDING" \in flags[h] THEN reqsPending[h]
                                                   ELSE reqsPending[h] + 1
    <3>1. /\ flags' = [flags EXCEPT ![h] = f]
          /\ reqsPending' = [reqsPending EXCEPT ![h] = n]
      BY <1>6, <2>2 DEF UvReadStart
    <3>2. /\ \A x \in {"SHUTTING", "SHUT", "CLOSING", "ENDGAME_QUEUED"} :
               x \in f <=> x \in flags[h]
          /\ "READ_PENDING" \in f
      OBVIOUS
    <3>3. UNCHANGED <<writing, broken>>
      BY <1>6 DEF UvReadStart
    <3>4. flags'[h] = f /\ reqsPending'[h] = n /\ OneHandle(h)
      <4> HIDE DEF f, n
      <4>1. QED
        BY <1>3, <1>4, <1>5, <3>1, <3>3 DEF OneHandle
    <3>5. \/ /\ "READ_PENDING" \in flags'[h] <=> "READ_PENDING" \in flags[h]
             /\ reqsPending'[h] = reqsPending[h]
          \/ /\ "READ_PENDING" \notin flags[h]
             /\ reqsPending'[h] = reqsPending[h] + 1
      BY <3>2, <3>4
    <3> HIDE DEF f, n
    <3>6. QED
      BY <1>0, <1>1, <1>3, <1>6, <3>2, <3>3, <3>4, <3>5 DEF h, i
  <2>3. QED
    BY <2>1, <2>2
<1>7. CASE i.method = "readStop" /\ UvReadStop(h)
  <2>1. flags' = [flags EXCEPT ![h] = flags[h] \ {"READING"}]
        /\ UNCHANGED <<reqsPending, writing, broken>>
    BY <1>7 DEF UvReadStop
  <2>2. flags'[h] = flags[h] \ {"READING"} /\ OneHandle(h)
    BY <1>3, <1>4, <2>1 DEF OneHandle
  <2>3. QED
    BY <1>0, <1>1, <1>3, <1>7, <2>1, <2>2 DEF h, i
<1>8. CASE i.method = "write" /\ UvWrite(h, i.req)
  <2>1. UNCHANGED flags
    BY <1>8 DEF UvWrite
  <2>2. CASE UNCHANGED <<writing, reqsPending>>
    <3>1. \/ "SHUTTING" \in flags[h] /\ UNCHANGED broken
          \/ /\ broken[h] \/ SendMayFail
             /\ broken' = [broken EXCEPT ![h] = TRUE]
      BY <1>1, <1>8, <2>2, AppendType DEF UvWrite, TypeOK
    <3>2. QED
      BY <1>0, <1>1, <1>3, <1>8, <2>1, <2>2, <3>1 DEF OneHandle, h, i
  <2>3. CASE ~UNCHANGED <<writing, reqsPending>>
    <3>1. /\ "SHUTTING" \notin flags[h] /\ ~broken[h]
          /\ writing' = [writing EXCEPT ![h] = Append(@, i.req)]
          /\ reqsPending' = [reqsPending EXCEPT ![h] = reqsPending[h] + 1]
          /\ UNCHANGED broken
      BY <1>8, <2>3 DEF UvWrite
    <3>2. /\ writing'[h] = Append(writing[h], i.req)
          /\ \A g \in Handles : g # h => writing'[g] = writing[g]
      BY <1>1, <3>1 DEF TypeOK
    <3>3. reqsPending'[h] = reqsPending[h] + 1 /\ OneHandle(h)
      BY <1>3, <1>5, <2>1, <3>1, <3>2 DEF OneHandle
    <3>4. QED
      BY <1>0, <1>1, <1>3, <1>8, <2>1, <3>1, <3>2, <3>3 DEF h, i
  <2>4. QED
    BY <2>2, <2>3
<1>9. CASE i.method = "shutdown" /\ UvShutdown(h)
  <2>1. /\ flags' = [flags EXCEPT ![h] = flags[h] \cup {"SHUTTING", "ENDGAME_QUEUED"}]
        /\ reqsPending' = [reqsPending EXCEPT ![h] = reqsPending[h] + 1]
        /\ UNCHANGED <<writing, broken>>
    BY <1>9 DEF UvShutdown
  <2>2. /\ flags'[h] = flags[h] \cup {"SHUTTING", "ENDGAME_QUEUED"}
        /\ reqsPending'[h] = reqsPending[h] + 1 /\ OneHandle(h)
    BY <1>3, <1>4, <1>5, <2>1 DEF OneHandle
  <2>3. QED
    BY <1>0, <1>1, <1>3, <1>9, <2>1, <2>2 DEF h, i
<1>10. CASE i.method = "close" /\ UvClose(h)
  <2> DEFINE e == IF reqsPending[h] = 0 THEN {"ENDGAME_QUEUED"} ELSE {}
             f == (flags[h] \ {"READING"}) \cup {"CLOSING", "SHUT"} \cup e
  <2>1. flags' = [flags EXCEPT ![h] = f] /\ UNCHANGED <<reqsPending, writing, broken>>
    BY <1>10 DEF UvClose
  <2>2. /\ \A x \in {"READ_PENDING", "SHUTTING"} : x \in f <=> x \in flags[h]
        /\ {"SHUT", "CLOSING"} \subseteq f
    OBVIOUS
  <2> HIDE DEF f
  <2>3. flags'[h] = f /\ OneHandle(h)
    BY <1>3, <1>4, <2>1 DEF OneHandle
  <2>4. QED
    BY <1>0, <1>1, <1>3, <1>10, <2>1, <2>2, <2>3 DEF h, i
<1>11. QED
  BY <1>2, <1>6, <1>7, <1>8, <1>9, <1>10 DEF h, i

\* Every step keeps a shutdown at the end.
LEMMA ShutdownIsLastStep ==
  TypeOK /\ ShutdownIsLast /\ [Next]_vars => ShutdownIsLast'
<1> SUFFICES ASSUME TypeOK, ShutdownIsLast, [Next]_vars PROVE ShutdownIsLast'
  OBVIOUS
<1>1. ASSUME NEW h \in Handles, Script(h) PROVE ShutdownIsLast'
  BY <1>1, ScriptAsks, AskingKeepsShutdownLast DEF uvVars
<1>2. CASE OnreadCallback \/ OncompleteCallback
  BY <1>2, CallbackAsks, AskingKeepsShutdownLast DEF uvVars
<1>3. ASSUME NEW h \in Handles, Kernel(h) \/ Endgame(h) PROVE ShutdownIsLast'
  <2>1. UNCHANGED <<writable, invokeQueue>>
    BY <1>3, KernelLeavesQueue DEF jsVars
  <2>2. \A g \in Handles : "SHUTTING" \in flags'[g] <=> "SHUTTING" \in flags[g]
    <3>1. CASE ReadData(h)
      BY <3>1 DEF ReadData, uvVars
    <3>2. CASE ReadIgnored(h) \/ \E eof \in {{}, {"EOF"}} : ReadEnd(h, eof)
      BY <3>2, ReadEffect DEF OneHandle
    <3>3. CASE WriteDone(h)
      BY <3>3, WriteDoneEffect DEF OneHandle
    <3>4. CASE Endgame(h)
      BY <3>4, EndgameEffect DEF OneHandle
    <3>5. QED
      BY <1>3, <3>1, <3>2, <3>3, <3>4 DEF Kernel
  <2>3. QED
    BY <2>1, <2>2 DEF ShutdownIsLast
<1>4. CASE WorkerInvoke
  <2> DEFINE h == Head(invokeQueue).object
  <2>1. \A g \in Handles : "SHUTTING" \in flags'[g] =>
           \/ "SHUTTING" \in flags[g]
           \/ Head(invokeQueue).method = "shutdown" /\ h = g
    <3>1. /\ OneHandle(h)
          /\ \/ "SHUTTING" \in flags'[h] <=> "SHUTTING" \in flags[h]
             \/ Head(invokeQueue).method = "shutdown"
      BY <1>4, InvokeEffect
    <3> HIDE DEF h
    <3>2. QED
      BY <3>1 DEF OneHandle
  <2>2. invokeQueue # <<>> /\ invokeQueue' = Tail(invokeQueue) /\ UNCHANGED writable
    BY <1>4 DEF WorkerInvoke, Worker, jsVars
  <2>3. QED
    BY <2>1, <2>2, PopKeepsShutdownLast
<1>5. CASE \/ AsyncSend \/ CallbackOnFreedObject \/ AsyncWakeup \/ WorkerReturn
           \/ UNCHANGED vars
  <2>1. UNCHANGED <<writable, invokeQueue, flags>>
    BY <1>5
    DEF AsyncSend, CallbackOnFreedObject, AsyncWakeup, WorkerReturn, Worker,
        jsVars, uvVars, vars
  <2>2. QED
    BY <2>1 DEF ShutdownIsLast
<1>6. QED
  BY <1>1, <1>2, <1>3, <1>4, <1>5 DEF Next

\* Once end() has been called on a socket it asks libuv for one shutdown, which
\* uv_shutdown therefore never has to refuse, and, when the script keeps off
\* ended sockets, every write it issued is in the queue before that shutdown.
THEOREM ShutdownAskedOnce == Spec => []ShutdownIsLast
<1>1. Init => ShutdownIsLast
  BY DEF Init, ShutdownIsLast
<1>2. QED
  BY <1>1, ShutdownIsLastStep, TypeCorrect, PTL DEF Spec

-----------------------------------------------------------------------------
(* RequestsCounted.                                                        *)

Count(b) == IF b THEN 1 ELSE 0

\* A shutdown whose request has not come back: its endgame is queued, or will
\* be when the last write is done.
ShutdownOwed(f, w) ==
  /\ "SHUTTING" \in f
  /\ "SHUT" \notin f
  /\ "ENDGAME_QUEUED" \in f \/ w # <<>>

\* The requests of a handle with flags f and writes w that will still be
\* taken off reqs_pending.
Owed(f, w) == Len(w) + Count("READ_PENDING" \in f) + Count(ShutdownOwed(f, w))

\* Each of them has been added, and a handle is deleted with none left. (After
\* a close overtakes a shutdown reqs_pending stays above: the leak the README
\* tells of.)
CountedHandle(f, n, w, deleted) ==
  /\ "CLOSING" \in f => "SHUT" \in f
  /\ n >= Owed(f, w)
  /\ deleted => n = 0

RequestInv ==
  \A h \in Handles :
    CountedHandle(flags[h], reqsPending[h], writing[h], freed[h])

\* The conjuncts of CountedHandle, with the sum taken apart.
LEMMA CountedMeans ==
  ASSUME NEW f, NEW n \in Int, NEW w, NEW deleted, NEW l \in Nat, Len(w) = l
  PROVE  CountedHandle(f, n, w, deleted) <=>
           /\ "CLOSING" \in f => "SHUT" \in f
           /\ n >= l
           /\ "READ_PENDING" \in f => n >= l + 1
           /\ ShutdownOwed(f, w) => n >= l + 1
           /\ "READ_PENDING" \in f /\ ShutdownOwed(f, w) => n >= l + 2
           /\ deleted => n = 0
<1>1. Owed(f, w) = l + Count("READ_PENDING" \in f) + Count(ShutdownOwed(f, w))
  BY DEF Owed
<1> DEFINE a == Count("READ_PENDING" \in f)
           b == Count(ShutdownOwed(f, w))
<1>2. /\ "READ_PENDING" \in f => a = 1
      /\ "READ_PENDING" \notin f => a = 0
      /\ ShutdownOwed(f, w) => b = 1
      /\ ~ShutdownOwed(f, w) => b = 0
  BY DEF Count
<1>3. Owed(f, w) = l + a + b /\ a \in {0, 1} /\ b \in {0, 1}
  BY <1>1, <1>2
<1> HIDE DEF a, b
<1>4. n >= Owed(f, w) <=> n >= l + a + b
  BY <1>3
<1>5. n >= Owed(f, w) <=>
        /\ n >= l
        /\ "READ_PENDING" \in f => n >= l + 1
        /\ ShutdownOwed(f, w) => n >= l + 1
        /\ "READ_PENDING" \in f /\ ShutdownOwed(f, w) => n >= l + 2
  <2>1. CASE "READ_PENDING" \in f /\ ShutdownOwed(f, w)
    BY <1>2, <1>4, <2>1
  <2>2. CASE "READ_PENDING" \in f /\ ~ShutdownOwed(f, w)
    BY <1>2, <1>4, <2>2
  <2>3. CASE "READ_PENDING" \notin f /\ ShutdownOwed(f, w)
    BY <1>2, <1>4, <2>3
  <2>4. CASE "READ_PENDING" \notin f /\ ~ShutdownOwed(f, w)
    BY <1>2, <1>4, <2>4
  <2>5. QED
    BY <2>1, <2>2, <2>3, <2>4
<1>6. QED
  BY <1>5 DEF CountedHandle

\* A request comes back: that of the read, of a write, of the shutdown.
LEMMA ReadCounted ==
  ASSUME NEW f, NEW f2, NEW n \in Int, NEW w, Len(w) \in Nat, NEW d,
         CountedHandle(f, n, w, d),
         "READ_PENDING" \in f, "READ_PENDING" \notin f2,
         \A x \in {"SHUTTING", "SHUT", "CLOSING"} : x \in f2 <=> x \in f,
         "ENDGAME_QUEUED" \in f2 => "ENDGAME_QUEUED" \in f \/ "CLOSING" \in f
  PROVE  CountedHandle(f2, n - 1, w, d)
<1> DEFINE l == Len(w)
<1>1. l \in Nat /\ l = Len(w)
  OBVIOUS
<1> HIDE DEF l
<1>2. /\ "CLOSING" \in f => "SHUT" \in f
      /\ n >= l + 1
      /\ ShutdownOwed(f, w) => n >= l + 2
      /\ d => n = 0
  BY <1>1, CountedMeans
<1>3. ShutdownOwed(f2, w) => ShutdownOwed(f, w)
  BY <1>2 DEF ShutdownOwed
<1>4. /\ n - 1 >= l
      /\ ShutdownOwed(f2, w) => n - 1 >= l + 1
      /\ ~d
      /\ n - 1 \in Int
  BY <1>1, <1>2, <1>3
<1>5. QED
  BY <1>1, <1>2, <1>4, CountedMeans

\* A completed send is taken off the count and off what it counts.
LEMMA WriteDoneCounted ==
  ASSUME NEW f, NEW f2, NEW n \in Int, NEW w, NEW w2, NEW d,
         Len(w) \in Nat, w # <<>>, Len(w) >= 1, Len(w2) = Len(w) - 1,
         CountedHandle(f, n, w, d),
         \A x \in {"READ_PENDING", "SHUTTING", "SHUT", "CLOSING"} : x \in f2 <=> x \in f
  PROVE  CountedHandle(f2, n - 1, w2, d)
<1> DEFINE l == Len(w)
           k == Len(w2)
<1>1. l \in Nat /\ l = Len(w) /\ l >= 1 /\ k \in Nat /\ Len(w2) = k /\ k = l - 1
  OBVIOUS
<1> HIDE DEF l, k
<1>2. /\ "CLOSING" \in f => "SHUT" \in f
      /\ n >= l
      /\ "READ_PENDING" \in f => n >= l + 1
      /\ ShutdownOwed(f, w) => n >= l + 1
      /\ "READ_PENDING" \in f /\ ShutdownOwed(f, w) => n >= l + 2
      /\ d => n = 0
  BY <1>1, CountedMeans
<1>3. ShutdownOwed(f2, w2) => ShutdownOwed(f, w)
  BY DEF ShutdownOwed
<1>4. /\ n - 1 \in Int
      /\ n - 1 >= k
      /\ "READ_PENDING" \in f2 => n - 1 >= k + 1
      /\ ShutdownOwed(f2, w2) => n - 1 >= k + 1
      /\ "READ_PENDING" \in f2 /\ ShutdownOwed(f2, w2) => n - 1 >= k + 2
      /\ ~d
  BY <1>1, <1>2, <1>3
<1>5. "CLOSING" \in f2 => "SHUT" \in f2
  BY <1>2
<1>6. QED
  BY <1>1, <1>4, <1>5, CountedMeans

\* So is a completed shutdown.
LEMMA ShutdownCounted ==
  ASSUME NEW f, NEW f2, NEW n \in Int, NEW w, NEW d, Len(w) \in Nat,
         CountedHandle(f, n, w, d),
         "ENDGAME_QUEUED" \in f, "SHUTTING" \in f, "SHUT" \notin f, w = <<>>,
         \A x \in {"READ_PENDING", "SHUTTING", "CLOSING"} : x \in f2 <=> x \in f,
         "ENDGAME_QUEUED" \in f2 => "CLOSING" \in f
  PROVE  CountedHandle(f2, n - 1, w, d)
<1> DEFINE l == Len(w)
<1>1. l \in Nat /\ l = Len(w)
  OBVIOUS
<1> HIDE DEF l
<1>2. /\ "CLOSING" \in f => "SHUT" \in f
      /\ ShutdownOwed(f, w) => n >= l + 1
      /\ "READ_PENDING" \in f /\ ShutdownOwed(f, w) => n >= l + 2
      /\ d => n = 0
  BY <1>1, CountedMeans
<1>3. ShutdownOwed(f, w) /\ ~ShutdownOwed(f2, w) /\ "CLOSING" \notin f2
  BY <1>2 DEF ShutdownOwed
<1>4. /\ n - 1 \in Int /\ n - 1 >= l
      /\ "READ_PENDING" \in f2 => n - 1 >= l + 1
      /\ ~d
  BY <1>1, <1>2, <1>3
<1>5. QED
  BY <1>1, <1>3, <1>4, CountedMeans

\* An endgame without a shutdown to finish.
LEMMA EndgameCounted ==
  ASSUME NEW f, NEW f2, NEW n \in Int, NEW w, NEW d, NEW d2, Len(w) \in Nat,
         CountedHandle(f, n, w, d),
         \A x \in {"READ_PENDING", "SHUTTING", "CLOSING"} : x \in f2 <=> x \in f,
         "SHUT" \in f2 <=> "SHUT" \in f,
         "ENDGAME_QUEUED" \notin f2,
         d2 => d \/ n = 0
  PROVE  CountedHandle(f2, n, w, d2)
<1> DEFINE l == Len(w)
<1>1. l \in Nat /\ l = Len(w)
  OBVIOUS
<1> HIDE DEF l
<1>2. /\ "CLOSING" \in f => "SHUT" \in f
      /\ n >= l
      /\ "READ_PENDING" \in f => n >= l + 1
      /\ ShutdownOwed(f, w) => n >= l + 1
      /\ "READ_PENDING" \in f /\ ShutdownOwed(f, w) => n >= l + 2
      /\ d => n = 0
  BY <1>1, CountedMeans
<1>3. ShutdownOwed(f2, w) => ShutdownOwed(f, w)
  BY DEF ShutdownOwed
<1>4. d2 => n = 0
  BY <1>2
<1>5. QED
  BY <1>1, <1>2, <1>3, <1>4, CountedMeans

\* A request is added for every thing the worker starts.
LEMMA InvokeCounted ==
  ASSUME NEW f, NEW f2, NEW n \in Int, NEW n2, NEW w, NEW w2,
         Len(w) \in Nat,
         CountedHandle(f, n, w, FALSE),
         \/ /\ w2 = w
            /\ \A x \in {"SHUTTING", "SHUT", "CLOSING", "ENDGAME_QUEUED"} :
                 x \in f2 <=> x \in f
            /\ \/ n2 = n /\ ("READ_PENDING" \in f2 <=> "READ_PENDING" \in f)
               \/ n2 = n + 1 /\ "READ_PENDING" \notin f
         \/ /\ f2 = f
            /\ \/ w2 = w /\ n2 = n
               \/ /\ Len(w2) = Len(w) + 1 /\ n2 = n + 1
                  /\ "SHUTTING" \notin f
         \/ /\ w2 = w
            /\ \A x \in {"READ_PENDING", "SHUT", "CLOSING"} : x \in f2 <=> x \in f
            /\ n2 = n + 1
         \/ /\ w2 = w /\ n2 = n
            /\ \A x \in {"READ_PENDING", "SHUTTING"} : x \in f2 <=> x \in f
            /\ {"SHUT", "CLOSING"} \subseteq f2
  PROVE  CountedHandle(f2, n2, w2, FALSE)
<1> DEFINE l == Len(w)
           l2 == Len(w2)
<1>1. l \in Nat /\ l = Len(w) /\ l2 = Len(w2)
  OBVIOUS
<1> HIDE DEF l, l2
<1>2. /\ "CLOSING" \in f => "SHUT" \in f
      /\ n >= l
      /\ "READ_PENDING" \in f => n >= l + 1
      /\ ShutdownOwed(f, w) => n >= l + 1
      /\ "READ_PENDING" \in f /\ ShutdownOwed(f, w) => n >= l + 2
  BY <1>1, CountedMeans
<1>3. CASE /\ w2 = w
           /\ \A x \in {"SHUTTING", "SHUT", "CLOSING", "ENDGAME_QUEUED"} :
                x \in f2 <=> x \in f
           /\ \/ n2 = n /\ ("READ_PENDING" \in f2 <=> "READ_PENDING" \in f)
              \/ n2 = n + 1 /\ "READ_PENDING" \notin f
  <2>1. ShutdownOwed(f2, w) => ShutdownOwed(f, w)
    BY <1>3 DEF ShutdownOwed
  <2>2. /\ n2 \in Int /\ n2 >= l
        /\ "READ_PENDING" \in f2 => n2 >= l + 1
        /\ ShutdownOwed(f2, w) => n2 >= l + 1
        /\ "READ_PENDING" \in f2 /\ ShutdownOwed(f2, w) => n2 >= l + 2
    BY <1>1, <1>2, <1>3, <2>1
  <2>3. QED
    BY <1>1, <1>2, <1>3, <2>2, CountedMeans
<1>4. CASE f2 = f /\ w2 = w /\ n2 = n
  BY <1>4
<1>5. CASE f2 = f /\ l2 = l + 1 /\ n2 = n + 1 /\ "SHUTTING" \notin f
  <2>1. ~ShutdownOwed(f, w2)
    BY <1>5 DEF ShutdownOwed
  <2>2. /\ n2 \in Int /\ l2 \in Nat /\ n2 >= l2
        /\ "READ_PENDING" \in f2 => n2 >= l2 + 1
    BY <1>1, <1>2, <1>5
  <2>3. QED
    BY <1>1, <1>2, <1>5, <2>1, <2>2, CountedMeans
<1>6. CASE /\ w2 = w
           /\ \A x \in {"READ_PENDING", "SHUT", "CLOSING"} : x \in f2 <=> x \in f
           /\ n2 = n + 1
  <2>1. /\ n2 \in Int /\ n2 >= l + 1
        /\ "READ_PENDING" \in f2 => n2 >= l + 2
    BY <1>1, <1>2, <1>6
  <2>2. /\ n2 >= l
        /\ "READ_PENDING" \in f2 => n2 >= l + 1
    BY <1>1, <2>1
  <2>3. QED
    BY <1>1, <1>2, <1>6, <2>1, <2>2, CountedMeans
<1>7. CASE /\ w2 = w /\ n2 = n
           /\ \A x \in {"READ_PENDING", "SHUTTING"} : x \in f2 <=> x \in f
           /\ {"SHUT", "CLOSING"} \subseteq f2
  <2>1. ~ShutdownOwed(f2, w) /\ "SHUT" \in f2
    BY <1>7 DEF ShutdownOwed
  <2>2. /\ n2 >= l
        /\ "READ_PENDING" \in f2 => n2 >= l + 1
    BY <1>2, <1>7
  <2>3. QED
    BY <1>1, <1>2, <1>7, <2>1, <2>2, CountedMeans
<1>8. QED
  BY <1>1, <1>3, <1>4, <1>5, <1>6, <1>7

\* A step that touches one handle keeps the count of the others.
LEMMA OneHandleCounted ==
  ASSUME RequestInv, NEW h \in Handles, OneHandle(h),
         CountedHandle(flags'[h], reqsPending'[h], writing'[h], freed'[h])
  PROVE  RequestInv'
<1>1. ASSUME NEW g \in Handles
      PROVE  CountedHandle(flags'[g], reqsPending'[g], writing'[g], freed'[g])
  <2>1. CASE g = h
    BY <2>1
  <2>2. CASE g # h
    <3>1. /\ flags'[g] = flags[g] /\ reqsPending'[g] = reqsPending[g]
          /\ writing'[g] = writing[g] /\ freed'[g] = freed[g]
      BY <2>2 DEF OneHandle
    <3>2. CountedHandle(flags[g], reqsPending[g], writing[g], freed[g])
      BY DEF RequestInv
    <3>3. QED
      BY <3>1, <3>2
  <2>3. QED
    BY <2>1, <2>2
<1>2. QED
  BY <1>1 DEF RequestInv

\* Every step keeps the count.
LEMMA RequestStep ==
  TypeOK /\ InvokeTargetAlive /\ RequestInv /\ [Next]_vars => RequestInv'
<1> SUFFICES ASSUME TypeOK, InvokeTargetAlive, RequestInv, [Next]_vars
             PROVE  RequestInv'
  OBVIOUS
<1>1. CASE UNCHANGED uvVars
  BY <1>1 DEF RequestInv, uvVars
<1>2. ASSUME NEW h \in Handles, OneHandle(h),
             CountedHandle(flags[h], reqsPending[h], writing[h], freed[h]) =>
               CountedHandle(flags'[h], reqsPending'[h], writing'[h], freed'[h])
      PROVE  RequestInv'
  BY <1>2, OneHandleCounted DEF RequestInv
<1>3. \A h \in Handles : /\ reqsPending[h] \in Int /\ Len(writing[h]) \in Nat
                         /\ writing[h] \in Seq(Nat)
  BY DEF TypeOK
<1>4. ASSUME NEW h \in Handles,
             ReadIgnored(h) \/ \E eof \in {{}, {"EOF"}} : ReadEnd(h, eof)
      PROVE  RequestInv'
  <2>1. CountedHandle(flags[h], reqsPending[h], writing[h], freed[h]) =>
          CountedHandle(flags'[h], reqsPending'[h], writing'[h], freed'[h])
    <3>1. freed'[h] = freed[h] /\ writing'[h] = writing[h]
      BY <1>4, ReadEffect
    <3>2. QED
      BY <1>3, <1>4, <3>1, ReadEffect, ReadCounted
  <2>2. QED
    BY <1>2, <1>4, <2>1, ReadEffect
<1>5. ASSUME NEW h \in Handles, WriteDone(h) PROVE RequestInv'
  <2>1. Len(Tail(writing[h])) = Len(writing[h]) - 1 /\ Len(writing[h]) >= 1
    BY <1>3, <1>5, HeadTailType DEF WriteDone
  <2>2. CountedHandle(flags[h], reqsPending[h], writing[h], freed[h]) =>
          CountedHandle(flags'[h], reqsPending'[h], writing'[h], freed'[h])
    <3>1. freed'[h] = freed[h]
      BY <1>5, WriteDoneEffect
    <3>2. QED
      BY <1>3, <1>5, <2>1, <3>1, WriteDoneEffect, WriteDoneCounted
  <2>3. QED
    BY <1>2, <1>5, <2>2, WriteDoneEffect
<1>6. ASSUME NEW h \in Handles, Endgame(h) PROVE RequestInv'
  <2>1. CountedHandle(flags[h], reqsPending[h], writing[h], freed[h]) =>
          CountedHandle(flags'[h], reqsPending'[h], writing'[h], freed'[h])
    <3> DEFINE f == flags[h]
               f2 == flags'[h]
               n == reqsPending[h]
               n2 == reqsPending'[h]
               w == writing[h]
               d == freed[h]
               d2 == freed'[h]
    <3>1. /\ writing'[h] = w /\ n \in Int /\ Len(w) \in Nat
          /\ d \in BOOLEAN /\ d2 \in BOOLEAN
      BY <1>3, <1>6, EndgameEffect, TypeStep DEF TypeOK
    <3>2. /\ "ENDGAME_QUEUED" \in f
          /\ \A x \in {"READ_PENDING", "SHUTTING", "CLOSING"} : x \in f2 <=> x \in f
          /\ "SHUT" \in f => "SHUT" \in f2
      BY <1>6, EndgameEffect
    <3>3. \/ /\ "SHUTTING" \in f /\ "SHUT" \notin f
             /\ w = <<>>
             /\ n2 = n - 1
             /\ "ENDGAME_QUEUED" \in f2 => "CLOSING" \in f
             /\ d2 = d
          \/ /\ n2 = n
             /\ "SHUT" \in f2 <=> "SHUT" \in f
             /\ "ENDGAME_QUEUED" \notin f2
             /\ d2 => \/ d
                      \/ "CLOSING" \in f /\ n = 0
      BY <1>6, EndgameEffect, ZenonT(60)
    <3> HIDE DEF f, f2, n, n2, w, d, d2
    <3>4. ASSUME CountedHandle(f, n, w, d) PROVE CountedHandle(f2, n2, w, d2)
      <4>1. CASE /\ "SHUTTING" \in f /\ "SHUT" \notin f
                 /\ w = <<>>
                 /\ n2 = n - 1
                 /\ "ENDGAME_QUEUED" \in f2 => "CLOSING" \in f
                 /\ d2 = d
        <5>1. CountedHandle(f2, n - 1, w, d)
          BY <3>1, <3>2, <3>4, <4>1, ShutdownCounted
        <5>2. QED
          BY <4>1, <5>1
      <4>2. CASE /\ n2 = n
                 /\ "SHUT" \in f2 <=> "SHUT" \in f
                 /\ "ENDGAME_QUEUED" \notin f2
                 /\ d2 => d \/ n = 0
        <5>1. CountedHandle(f2, n, w, d2)
          BY <3>1, <3>2, <3>4, <4>2, EndgameCounted
        <5>2. QED
          BY <4>2, <5>1
      <4>3. QED
        BY <3>3, <4>1, <4>2
    <3>5. QED
      BY <3>1, <3>4 DEF f, f2, n, n2, w, d, d2
  <2>2. QED
    BY <1>2, <1>6, <2>1, EndgameEffect
<1>7. CASE WorkerInvoke
  <2> DEFINE i == Head(invokeQueue)
             h == i.object
  <2>1. ~freed[h]
    <3>1. 1 \in DOMAIN invokeQueue /\ Head(invokeQueue) = invokeQueue[1]
      BY <1>7, HeadTailType DEF WorkerInvoke, TypeOK
    <3>2. QED
      BY <3>1 DEF InvokeTargetAlive
  <2>2. h \in Handles /\ OneHandle(h)
    BY <1>7, InvokeEffect
  <2>3. Len(Append(writing[h], i.req)) = Len(writing[h]) + 1
    BY <1>3, <2>2
  <2>4. CountedHandle(flags[h], reqsPending[h], writing[h], freed[h]) =>
          CountedHandle(flags'[h], reqsPending'[h], writing'[h], freed'[h])
    <3>1. freed'[h] = FALSE /\ freed[h] = FALSE
      BY <1>7, <2>1, <2>2, InvokeEffect DEF TypeOK
    <3> DEFINE f == flags[h]
               f2 == flags'[h]
               n == reqsPending[h]
               n2 == reqsPending'[h]
               w == writing[h]
               w2 == writing'[h]
    <3>2. n \in Int /\ Len(w) \in Nat
      BY <1>3, <2>2
    <3>3. \/ /\ w2 = w
             /\ \A x \in {"SHUTTING", "SHUT", "CLOSING", "ENDGAME_QUEUED"} :
                  x \in f2 <=> x \in f
             /\ \/ n2 = n /\ ("READ_PENDING" \in f2 <=> "READ_PENDING" \in f)
                \/ n2 = n + 1 /\ "READ_PENDING" \notin f
          \/ /\ f2 = f
             /\ \/ w2 = w /\ n2 = n
                \/ /\ Len(w2) = Len(w) + 1 /\ n2 = n + 1
                   /\ "SHUTTING" \notin f
          \/ /\ w2 = w
             /\ \A x \in {"READ_PENDING", "SHUT", "CLOSING"} : x \in f2 <=> x \in f
             /\ n2 = n + 1
          \/ /\ w2 = w /\ n2 = n
             /\ \A x \in {"READ_PENDING", "SHUTTING"} : x \in f2 <=> x \in f
             /\ {"SHUT", "CLOSING"} \subseteq f2
      BY <1>7, <2>3, InvokeEffect
    <3> HIDE DEF f, f2, n, n2, w, w2
    <3>4. CountedHandle(f, n, w, FALSE) => CountedHandle(f2, n2, w2, FALSE)
      BY <3>2, <3>3, InvokeCounted
    <3>5. QED
      BY <3>1, <3>4 DEF f, f2, n, n2, w, w2
  <2>5. QED
    BY <1>2, <2>2, <2>4
<1>8. QED
  BY <1>1, <1>4, <1>5, <1>6, <1>7, ScriptIsMainStep, CallbackIsMainStep, Zenon
  DEF Next, Kernel, ReadData, AsyncSend, CallbackOnFreedObject, AsyncWakeup,
      WorkerReturn, vars

\* TcpBridge: RequestsCounted, for any number of sockets, calls and reads.
THEOREM RequestsAreCounted == Spec => []RequestsCounted
<1>1. Init => RequestInv
  <2> SUFFICES ASSUME Init, NEW h \in Handles
               PROVE  CountedHandle(flags[h], reqsPending[h], writing[h], freed[h])
    BY DEF RequestInv
  <2>1. /\ flags[h] = {"READING", "READ_PENDING"} /\ reqsPending[h] = 1
        /\ writing[h] = <<>> /\ ~freed[h]
    BY DEF Init
  <2>2. QED
    BY <2>1 DEF CountedHandle, Owed, Count, ShutdownOwed
<1>2. TypeOK /\ RequestInv => RequestsCounted
  <2> SUFFICES ASSUME TypeOK, RequestInv, NEW h \in Handles
               PROVE  /\ reqsPending[h] >= Len(writing[h]) +
                            (IF "READ_PENDING" \in flags[h] THEN 1 ELSE 0)
                      /\ freed[h] => reqsPending[h] = 0
    BY DEF RequestsCounted
  <2>1. /\ reqsPending[h] \in Int /\ Len(writing[h]) \in Nat
        /\ CountedHandle(flags[h], reqsPending[h], writing[h], freed[h])
    BY DEF TypeOK, RequestInv
  <2> DEFINE n == reqsPending[h]
             l == Len(writing[h])
  <2>2. n \in Int /\ l \in Nat /\ l = Len(writing[h])
    BY <2>1
  <2> HIDE DEF n, l
  <2>3. /\ n >= l
        /\ "READ_PENDING" \in flags[h] => n >= l + 1
        /\ freed[h] => n = 0
    BY <2>1, <2>2, CountedMeans DEF n
  <2>4. n >= l + (IF "READ_PENDING" \in flags[h] THEN 1 ELSE 0)
    <3>1. CASE "READ_PENDING" \in flags[h]
      BY <2>2, <2>3, <3>1
    <3>2. CASE "READ_PENDING" \notin flags[h]
      BY <2>2, <2>3, <3>2
    <3>3. QED
      BY <3>1, <3>2
  <2>5. QED
    BY <2>3, <2>4 DEF n, l
<1>3. QED
  BY <1>1, <1>2, RequestStep, CloseStaysLast, InvokeTargetIsAlive, TypeCorrect, PTL
  DEF Spec

-----------------------------------------------------------------------------
(* The three stages of a write.                                            *)

\* The requests of what Select takes from a sequence, and what happens to them
\* when an element is added at the end or taken away at the front.
LEMMA ReqsType ==
  ASSUME NEW T, \A e \in T : e.req \in Nat, NEW s \in Seq(T)
  PROVE  /\ Reqs(s) \in Seq(Nat)
         /\ Len(Reqs(s)) = Len(s)
         /\ \A i \in 1 .. Len(s) : Reqs(s)[i] = s[i].req
BY DEF Reqs

\* The requests selected from a sequence with one element more.
LEMMA ReqsOfAppend ==
  ASSUME NEW T, \A e \in T : e.req \in Nat, NEW s \in Seq(T), NEW e \in T, NEW K
  PROVE  /\ Reqs(Select(s, K)) \in Seq(Nat)
         /\ Reqs(Select(Append(s, e), K)) =
              IF e \in K THEN Append(Reqs(Select(s, K)), e.req) ELSE Reqs(Select(s, K))
<1> DEFINE t == Select(s, K)
<1>1. t \in Seq(T)
  BY SelectType
<1>2. Select(Append(s, e), K) = IF e \in K THEN Append(t, e) ELSE t
  BY SelectAppend
<1> HIDE DEF t
<1>3. Reqs(t) \in Seq(Nat) /\ Len(Reqs(t)) = Len(t)
  BY <1>1 DEF Reqs
<1>4. Reqs(Append(t, e)) = Append(Reqs(t), e.req)
  <2> DEFINE u == Append(t, e)
             v == Append(Reqs(t), e.req)
  <2>1. /\ Len(u) = Len(t) + 1 /\ u[Len(t) + 1] = e
        /\ \A i \in 1 .. Len(t) : u[i] = t[i]
        /\ u \in Seq(T) /\ Len(t) \in Nat
    BY <1>1
  <2>2. /\ Len(v) = Len(t) + 1 /\ v[Len(t) + 1] = e.req
        /\ \A i \in 1 .. Len(t) : v[i] = t[i].req
        /\ v \in Seq(Nat)
    BY <1>1, <1>3 DEF Reqs
  <2> HIDE DEF u, v
  <2>3. Reqs(u) \in Seq(Nat) /\ Len(Reqs(u)) = Len(u)
        /\ \A i \in 1 .. Len(u) : Reqs(u)[i] = u[i].req
    BY <2>1 DEF Reqs
  <2>4. \A i \in 1 .. Len(v) : Reqs(u)[i] = v[i]
    <3>1. \A i \in 1 .. Len(v) : i = Len(t) + 1 \/ i \in 1 .. Len(t)
      BY <2>1, <2>2
    <3>2. \A i \in 1 .. Len(v) : u[i].req = v[i]
      BY <2>1, <2>2, <3>1
    <3>3. QED
      BY <2>1, <2>2, <2>3, <3>2
  <2>5. Reqs(u) = v
    BY <2>1, <2>2, <2>3, <2>4, SeqEqual
  <2>6. QED
    BY <2>5 DEF u, v
<1>5. QED
  BY <1>2, <1>3, <1>4 DEF t

\* The requests selected from a sequence without its first element.
LEMMA ReqsOfTail ==
  ASSUME NEW T, \A e \in T : e.req \in Nat, NEW s \in Seq(T), s # <<>>, NEW K
  PROVE  /\ Reqs(Select(Tail(s), K)) \in Seq(Nat)
         /\ Reqs(Select(s, K)) =
              IF Head(s) \in K
              THEN <<Head(s).req>> \o Reqs(Select(Tail(s), K))
              ELSE Reqs(Select(Tail(s), K))
<1> DEFINE e == Head(s)
           t == Select(Tail(s), K)
<1>1. e \in T /\ Tail(s) \in Seq(T)
  BY HeadTailType
<1>2. t \in Seq(T)
  BY <1>1, SelectType
<1>3. Select(s, K) = IF e \in K THEN <<e>> \o t ELSE t
  BY SelectHead
<1> HIDE DEF t, e
<1>4. Reqs(t) \in Seq(Nat) /\ Len(Reqs(t)) = Len(t)
  BY <1>2 DEF Reqs
<1>5. Reqs(<<e>> \o t) = <<e.req>> \o Reqs(t)
  <2> DEFINE u == <<e>> \o t
             v == <<e.req>> \o Reqs(t)
  <2>1. /\ Len(u) = Len(t) + 1 /\ u[1] = e
        /\ \A i \in 1 .. Len(t) : u[i + 1] = t[i]
        /\ u \in Seq(T) /\ Len(t) \in Nat
    BY <1>1, <1>2
  <2>2. /\ Len(v) = Len(t) + 1 /\ v[1] = e.req
        /\ \A i \in 1 .. Len(t) : v[i + 1] = t[i].req
        /\ v \in Seq(Nat)
    <3>1. e.req \in Nat
      BY <1>1
    <3>2. \A i \in 1 .. Len(t) : Reqs(t)[i] = t[i].req
      BY <1>2 DEF Reqs
    <3> DEFINE r == e.req
               x == Reqs(t)
    <3>3. r \in Nat /\ x \in Seq(Nat) /\ Len(x) = Len(t)
      BY <1>4, <3>1
    <3> HIDE DEF r, x
    <3>4. LET y == <<r>> \o x
          IN /\ Len(y) = Len(x) + 1 /\ y[1] = r /\ y \in Seq(Nat)
             /\ \A i \in 1 .. Len(x) : y[i + 1] = x[i]
      BY <3>3
    <3>5. QED
      BY <3>2, <3>3, <3>4 DEF r, x
  <2> HIDE DEF u, v
  <2>3. Reqs(u) \in Seq(Nat) /\ Len(Reqs(u)) = Len(u)
        /\ \A i \in 1 .. Len(u) : Reqs(u)[i] = u[i].req
    BY <2>1 DEF Reqs
  <2>4. \A i \in 1 .. Len(v) : Reqs(u)[i] = v[i]
    <3>1. \A i \in 1 .. Len(v) : i = 1 \/ (i - 1 \in 1 .. Len(t) /\ (i - 1) + 1 = i)
      BY <2>1, <2>2
    <3>2. \A i \in 1 .. Len(t) : u[i + 1].req = v[i + 1]
      BY <2>1, <2>2
    <3>3. \A i \in 1 .. Len(v) : u[i].req = v[i]
      BY <2>1, <2>2, <3>1, <3>2
    <3>4. QED
      BY <2>1, <2>2, <2>3, <3>3
  <2>5. Reqs(u) = v
    BY <2>1, <2>2, <2>3, <2>4, SeqEqual
  <2>6. QED
    BY <2>5 DEF u, v
<1>6. QED
  BY <1>3, <1>4, <1>5 DEF t, e

\* The stages of a write are sequences of requests.
LEMMA StagesType ==
  ASSUME TypeOK, NEW h \in Handles
  PROVE  Acked(h) \in Seq(Nat) /\ Queued(h) \in Seq(Nat)
<1>1. /\ Select(callbacks, Completions(h)) \in Seq(Callback)
      /\ Select(invokeQueue, QueuedWrites(h)) \in Seq(Invocation)
  BY SelectType DEF TypeOK
<1>2. (\A e \in Callback : e.req \in Nat) /\ (\A e \in Invocation : e.req \in Nat)
  BY DEF Callback, Invocation
<1>3. QED
  BY <1>1, <1>2, ReqsType DEF Acked, Queued

\* A call posted by the worker, and one taken by the main thread.
LEMMA AckedPosted ==
  ASSUME TypeOK, NEW name \in {"onread", "oncomplete"}, NEW g \in Handles,
         NEW r \in Nat, FireCallback(name, g, r), NEW h \in Handles
  PROVE  Acked(h)' = IF name = "oncomplete" /\ g = h THEN Append(Acked(h), r)
                                                     ELSE Acked(h)
<1> DEFINE e == [name |-> name, object |-> g, req |-> r]
<1>1. /\ e \in Callback /\ callbacks \in Seq(Callback) /\ e.req = r
      /\ e \in Completions(h) <=> name = "oncomplete" /\ g = h
  BY DEF Callback, TypeOK, Completions
<1>2. callbacks' = Append(callbacks, e)
  BY DEF FireCallback
<1>3. \A c \in Callback : c.req \in Nat
  BY DEF Callback
<1> HIDE DEF e
<1>4. Reqs(Select(Append(callbacks, e), Completions(h))) =
        IF e \in Completions(h) THEN Append(Reqs(Select(callbacks, Completions(h))), e.req)
                                ELSE Reqs(Select(callbacks, Completions(h)))
  BY <1>1, <1>3, ReqsOfAppend
<1>5. QED
  BY <1>1, <1>2, <1>4 DEF Acked

\* Taking a posted call takes its request off the acknowledged ones.
LEMMA AckedTaken ==
  ASSUME TypeOK, callbacks # <<>>, callbacks' = Tail(callbacks), NEW h \in Handles
  PROVE  LET c == Head(callbacks)
         IN Acked(h) = IF c.name = "oncomplete" /\ c.object = h
                       THEN <<c.req>> \o Acked(h)' ELSE Acked(h)'
<1> DEFINE c == Head(callbacks)
<1>1. callbacks \in Seq(Callback) /\ c \in Callback
  BY HeadTailType DEF TypeOK
<1>2. c \in Completions(h) <=> c.name = "oncomplete" /\ c.object = h
  BY <1>1 DEF Callback, Completions
<1>3. \A x \in Callback : x.req \in Nat
  BY DEF Callback
<1>4. Reqs(Select(callbacks, Completions(h))) =
        IF c \in Completions(h)
        THEN <<c.req>> \o Reqs(Select(Tail(callbacks), Completions(h)))
        ELSE Reqs(Select(Tail(callbacks), Completions(h)))
  BY <1>1, <1>3, ReqsOfTail
<1>5. QED
  BY <1>2, <1>4 DEF Acked

\* An invocation pushed by the main thread, and one taken by the worker.
LEMMA QueuedPushed ==
  ASSUME TypeOK, NEW m \in Methods, NEW g \in Handles, NEW r \in Nat,
         Invoke(m, g, r), NEW h \in Handles
  PROVE  Queued(h)' = IF m = "write" /\ g = h THEN Append(Queued(h), r)
                                              ELSE Queued(h)
<1> DEFINE e == [method |-> m, object |-> g, req |-> r]
<1>1. /\ e \in Invocation /\ invokeQueue \in Seq(Invocation) /\ e.req = r
      /\ e \in QueuedWrites(h) <=> m = "write" /\ g = h
  BY DEF Invocation, TypeOK, QueuedWrites
<1>2. invokeQueue' = Append(invokeQueue, e)
  BY DEF Invoke
<1>3. \A c \in Invocation : c.req \in Nat
  BY DEF Invocation
<1> HIDE DEF e
<1>4. Reqs(Select(Append(invokeQueue, e), QueuedWrites(h))) =
        IF e \in QueuedWrites(h)
        THEN Append(Reqs(Select(invokeQueue, QueuedWrites(h))), e.req)
        ELSE Reqs(Select(invokeQueue, QueuedWrites(h)))
  BY <1>1, <1>3, ReqsOfAppend
<1>5. QED
  BY <1>1, <1>2, <1>4 DEF Queued

\* Taking an invocation takes its request off the queued ones.
LEMMA QueuedTaken ==
  ASSUME TypeOK, invokeQueue # <<>>, invokeQueue' = Tail(invokeQueue),
         NEW h \in Handles
  PROVE  LET i == Head(invokeQueue)
         IN Queued(h) = IF i.method = "write" /\ i.object = h
                        THEN <<i.req>> \o Queued(h)' ELSE Queued(h)'
<1> DEFINE i == Head(invokeQueue)
<1>1. invokeQueue \in Seq(Invocation) /\ i \in Invocation
  BY HeadTailType DEF TypeOK
<1>2. i \in QueuedWrites(h) <=> i.method = "write" /\ i.object = h
  BY <1>1 DEF Invocation, QueuedWrites
<1>3. \A x \in Invocation : x.req \in Nat
  BY DEF Invocation
<1>4. Reqs(Select(invokeQueue, QueuedWrites(h))) =
        IF i \in QueuedWrites(h)
        THEN <<i.req>> \o Reqs(Select(Tail(invokeQueue), QueuedWrites(h)))
        ELSE Reqs(Select(Tail(invokeQueue), QueuedWrites(h)))
  BY <1>1, <1>3, ReqsOfTail
<1>5. QED
  BY <1>2, <1>4 DEF Queued

-----------------------------------------------------------------------------
(* CompletionsMatchRequests.                                               *)

\* The requests wr of a socket are those acknowledged (a), in the kernel (w)
\* and behind them some that have not got there: the ones still queued (q),
\* unless libuv drops writes by now (not intact).
InOrder(wr, a, w, q, intact) ==
  \E rest \in Seq(Nat) : wr = (a \o w) \o rest /\ (intact => rest = q)

\* No write of the socket is dropped: its sends have not failed, and none is
\* asked for behind a shutdown.
Intact(h) ==
  /\ ~broken[h]
  /\ "SHUTTING" \in flags[h] => ~WriteAfterEnd

OrderInv ==
  \A h \in Handles : ~destroyed[h] =>
    InOrder(writeRequests[h], Acked(h), writing[h], Queued(h), Intact(h))

\* Joining sequences of requests is associative.
LEMMA WritesAssociative ==
  \A x, y, z \in Seq(Nat) : (x \o y) \o z = x \o (y \o z)
  BY ConcatAssociative, SMTT(30)

\* A write pushed behind the others keeps the order.
LEMMA PushedInOrder ==
  ASSUME NEW wr, NEW a \in Seq(Nat), NEW w \in Seq(Nat), NEW q, NEW i,
         NEW r \in Nat, InOrder(wr, a, w, q, i)
  PROVE  InOrder(Append(wr, r), a, w, Append(q, r), i)
<1>1. PICK rest \in Seq(Nat) : wr = (a \o w) \o rest /\ (i => rest = q)
  BY DEF InOrder
<1>2. a \o w \in Seq(Nat)
  OBVIOUS
<1> DEFINE aw == a \o w
<1>3. aw \in Seq(Nat) /\ wr = aw \o rest
  BY <1>1, <1>2
<1> HIDE DEF aw
<1>4. Append(wr, r) = aw \o Append(rest, r) /\ Append(rest, r) \in Seq(Nat)
  BY <1>1, <1>3, ConcatAppend, AppendType
<1>5. i => Append(rest, r) = Append(q, r)
  BY <1>1
<1>6. QED
  BY <1>4, <1>5 DEF InOrder, aw

\* So does a send that completes,
LEMMA CompletedInOrder ==
  ASSUME NEW wr, NEW a \in Seq(Nat), NEW w \in Seq(Nat), NEW q, NEW i,
         w # <<>>, InOrder(wr, a, w, q, i)
  PROVE  InOrder(wr, Append(a, Head(w)), Tail(w), q, i)
<1> DEFINE x == Head(w)
           t == Tail(w)
<1>1. x \in Nat /\ t \in Seq(Nat) /\ w = <<x>> \o t /\ <<x>> \in Seq(Nat)
  BY HeadTailProperties
<1> HIDE DEF x, t
<1>2. a \o (<<x>> \o t) = (a \o <<x>>) \o t
  BY <1>1, WritesAssociative
<1>3. Append(a, x) = a \o <<x>>
  BY <1>1
<1>4. QED
  BY <1>1, <1>2, <1>3 DEF InOrder, x, t

\* a write that the worker hands to the kernel,
LEMMA AcceptedInOrder ==
  ASSUME NEW wr, NEW a \in Seq(Nat), NEW w \in Seq(Nat), NEW q \in Seq(Nat),
         NEW r \in Nat, InOrder(wr, a, w, <<r>> \o q, TRUE)
  PROVE  InOrder(wr, a, Append(w, r), q, TRUE)
<1>1. wr = (a \o w) \o (<<r>> \o q)
  BY DEF InOrder
<1>2. <<r>> \in Seq(Nat) /\ a \o w \in Seq(Nat) /\ Append(w, r) = w \o <<r>>
  OBVIOUS
<1>3. (a \o w) \o (<<r>> \o q) = ((a \o w) \o <<r>>) \o q
  <2> DEFINE aw == a \o w
             rr == <<r>>
  <2>1. aw \in Seq(Nat) /\ rr \in Seq(Nat)
    BY <1>2
  <2> HIDE DEF aw, rr
  <2>2. (aw \o rr) \o q = aw \o (rr \o q)
    BY <2>1, WritesAssociative
  <2>3. QED
    BY <2>2 DEF aw, rr
<1>4. (a \o w) \o <<r>> = a \o (w \o <<r>>)
  BY <1>2, WritesAssociative
<1>5. QED
  BY <1>1, <1>2, <1>3, <1>4 DEF InOrder

\* and an acknowledgement, which is that of the oldest write.
LEMMA AcknowledgedInOrder ==
  ASSUME NEW wr, NEW a \in Seq(Nat), NEW w \in Seq(Nat), NEW q, NEW i,
         NEW r \in Nat, InOrder(wr, <<r>> \o a, w, q, i)
  PROVE  Head(wr) = r /\ InOrder(Tail(wr), a, w, q, i)
<1>1. PICK rest \in Seq(Nat) : wr = ((<<r>> \o a) \o w) \o rest /\ (i => rest = q)
  BY DEF InOrder
<1> DEFINE aw == a \o w
           s == aw \o rest
<1>2. <<r>> \in Seq(Nat) /\ aw \in Seq(Nat) /\ s \in Seq(Nat)
  OBVIOUS
<1>3. (<<r>> \o a) \o w = <<r>> \o aw
  BY <1>2, WritesAssociative
<1>4. (<<r>> \o aw) \o rest = <<r>> \o s
  <2> HIDE DEF aw
  <2>1. QED
    BY <1>2, WritesAssociative
<1>5. wr = <<r>> \o s
  BY <1>1, <1>3, <1>4
<1>6. Head(<<r>> \o s) = r /\ Tail(<<r>> \o s) = s
  <2> HIDE DEF s
  <2>1. QED
    BY <1>2
<1>7. QED
  BY <1>1, <1>5, <1>6 DEF InOrder

\* A socket whose writes a step leaves where they are.
LEMMA SameStages ==
  ASSUME OrderInv, NEW h \in Handles, ~destroyed[h],
         writeRequests'[h] = writeRequests[h], writing'[h] = writing[h],
         Acked(h)' = Acked(h), Queued(h)' = Queued(h), Intact(h)' => Intact(h)
  PROVE  InOrder(writeRequests'[h], Acked(h)', writing'[h], Queued(h)', Intact(h)')
<1>1. InOrder(writeRequests[h], Acked(h), writing[h], Queued(h), Intact(h))
  BY DEF OrderInv
<1>2. QED
  BY <1>1 DEF InOrder

\* A step that moves no write between the stages keeps the order.
LEMMA OrderFrame ==
  ASSUME OrderInv, UNCHANGED <<writeRequests, writing>>,
         \A h \in Handles : /\ ~destroyed'[h] => ~destroyed[h]
                            /\ Acked(h)' = Acked(h)
                            /\ ~destroyed'[h] => Queued(h)' = Queued(h)
                            /\ Intact(h)' => Intact(h)
  PROVE  OrderInv'
<1>1. ASSUME NEW h \in Handles, ~destroyed'[h]
      PROVE  InOrder(writeRequests'[h], Acked(h)', writing'[h], Queued(h)', Intact(h)')
  BY <1>1, SameStages
<1>2. QED
  BY <1>1 DEF OrderInv

\* The main thread pushes something that is not a write, or nothing.
LEMMA NoWritePushed ==
  ASSUME TypeOK, NEW h \in Handles,
         \/ UNCHANGED invokeQueue
         \/ \E m \in Methods \ {"write"}, r \in Nat : Invoke(m, h, r)
  PROVE  \A g \in Handles : Queued(g)' = Queued(g)
<1>1. CASE UNCHANGED invokeQueue
  BY <1>1 DEF Queued
<1>2. ASSUME NEW m \in Methods \ {"write"}, NEW r \in Nat, Invoke(m, h, r),
             NEW g \in Handles
      PROVE  Queued(g)' = Queued(g)
  <2>1. m \in Methods /\ m # "write"
    OBVIOUS
  <2>2. QED
    BY <1>2, <2>1, QueuedPushed
<1>3. QED
  BY <1>1, <1>2

\* destroy() queues no write.
LEMMA DestroyPushes ==
  ASSUME TypeOK, NEW h \in Handles, Destroy(h)
  PROVE  /\ \A g \in Handles : Queued(g)' = Queued(g)
         /\ destroyed' = [destroyed EXCEPT ![h] = TRUE]
<1>1. \/ UNCHANGED invokeQueue
      \/ \E m \in Methods \ {"write"}, r \in Nat : Invoke(m, h, r)
  <2>1. "close" \in Methods \ {"write"} /\ 0 \in Nat
    BY DEF Methods
  <2>2. QED
    BY <2>1 DEF Destroy
<1>2. QED
  BY <1>1, NoWritePushed DEF Destroy

\* A write of r pushed for a live socket, whose requests become wr.
LEMMA WritePushed ==
  ASSUME TypeOK, NEW h \in Handles, NEW r \in Nat, Invoke("write", h, r)
  PROVE  /\ Queued(h)' = Append(Queued(h), r)
         /\ \A g \in Handles : g # h => Queued(g)' = Queued(g)
<1>1. "write" \in Methods
  BY DEF Methods
<1>2. QED
  BY <1>1, QueuedPushed

\* A call of the script keeps the order.
LEMMA ScriptKeepsOrder ==
  ASSUME TypeOK, OrderInv, NEW h \in Handles, Script(h)
  PROVE  OrderInv'
<1>1. UNCHANGED <<callbacks, writing, flags, broken>>
  BY ScriptIsMainStep DEF uvVars
<1>2. \A g \in Handles : Acked(g)' = Acked(g) /\ Intact(g)' = Intact(g)
  BY <1>1 DEF Acked, Intact
<1>3. CASE SocketWrite(h)
  <2> DEFINE r == calls + 1
  <2>1. r \in Nat /\ Invoke("write", h, r) /\ UNCHANGED destroyed
        /\ writeRequests' = [writeRequests EXCEPT ![h] = Append(@, r)]
    BY <1>3 DEF TypeOK, SocketWrite, Write
  <2> HIDE DEF r
  <2>2. /\ Queued(h)' = Append(Queued(h), r)
        /\ \A g \in Handles : g # h => Queued(g)' = Queued(g)
    BY <2>1, WritePushed
  <2>3. /\ writeRequests'[h] = Append(writeRequests[h], r)
        /\ \A g \in Handles : g # h => writeRequests'[g] = writeRequests[g]
    BY <2>1 DEF TypeOK
  <2>4. ASSUME NEW g \in Handles, ~destroyed'[g]
        PROVE  InOrder(writeRequests'[g], Acked(g)', writing'[g], Queued(g)', Intact(g)')
    <3>1. ~destroyed[g] /\ writing'[g] = writing[g]
      BY <1>1, <2>1, <2>4
    <3>2. CASE g # h
      BY <1>2, <2>2, <2>3, <3>1, <3>2, SameStages
    <3>3. CASE g = h
      <4>1. InOrder(writeRequests[h], Acked(h), writing[h], Queued(h), Intact(h))
        BY <3>1, <3>3 DEF OrderInv
      <4>2. Acked(h) \in Seq(Nat) /\ writing[h] \in Seq(Nat)
        BY StagesType DEF TypeOK
      <4>3. InOrder(Append(writeRequests[h], r), Acked(h), writing[h],
                    Append(Queued(h), r), Intact(h))
        BY <2>1, <4>1, <4>2, PushedInOrder
      <4>4. QED
        BY <1>2, <2>2, <2>3, <3>1, <3>3, <4>3
    <3>4. QED
      BY <3>2, <3>3
  <2>5. QED
    BY <2>4 DEF OrderInv
<1>4. ASSUME \A g \in Handles : Queued(g)' = Queued(g),
             \A g \in Handles : ~destroyed'[g] => ~destroyed[g],
             UNCHANGED writeRequests
      PROVE  OrderInv'
  BY <1>1, <1>2, <1>4, OrderFrame
<1>5. CASE SocketEnd(h) \/ SocketPause(h) \/ SocketResume(h)
  <2>1. /\ \/ UNCHANGED invokeQueue
           \/ \E m \in Methods \ {"write"}, r \in Nat : Invoke(m, h, r)
        /\ UNCHANGED <<destroyed, writeRequests>>
    <3>1. {"shutdown", "readStop", "readStart"} \subseteq Methods \ {"write"} /\ 0 \in Nat
      BY DEF Methods
    <3>2. QED
      BY <1>5, <3>1 DEF SocketEnd, SocketPause, SocketResume
  <2>2. QED
    BY <1>4, <2>1, NoWritePushed
<1>6. CASE SocketDestroy(h) \/ SocketDestroySoon(h)
  <2>1. UNCHANGED writeRequests
    BY <1>6 DEF SocketDestroy, SocketDestroySoon
  <2>2. CASE Destroy(h)
    <3>1. \A g \in Handles : ~destroyed'[g] => ~destroyed[g]
      BY <2>2, DestroyPushes DEF TypeOK
    <3>2. QED
      BY <1>4, <2>1, <2>2, <3>1, DestroyPushes
  <2>3. CASE UNCHANGED <<destroyed, invokeQueue, waking>>
    BY <1>4, <2>1, <2>3, NoWritePushed
  <2>4. QED
    BY <1>6, <2>2, <2>3 DEF SocketDestroy, SocketDestroySoon
<1>7. QED
  BY <1>3, <1>5, <1>6 DEF Script

\* afterWrite: what the oldest posted completion does to its socket.
LEMMA AcknowledgeKeepsOrder ==
  ASSUME TypeOK, OrderInv, OncompleteCallback, NEW h \in Handles, NEW r \in Nat,
         h = Head(callbacks).object, r = Head(callbacks).req
  PROVE  OrderInv'
<1>1. /\ callbacks # <<>> /\ callbacks' = Tail(callbacks)
      /\ Head(callbacks).name = "oncomplete" /\ UNCHANGED <<writing, flags, broken>>
  BY DEF OncompleteCallback, TakeCallback, uvVars
<1>2. \A g \in Handles : /\ Intact(g)' = Intact(g)
                         /\ writing'[g] = writing[g]
                         /\ Acked(g) = IF h = g THEN <<r>> \o Acked(g)' ELSE Acked(g)'
  <2> SUFFICES ASSUME NEW g \in Handles
               PROVE  /\ Intact(g)' = Intact(g)
                      /\ writing'[g] = writing[g]
                      /\ Acked(g) = IF h = g THEN <<r>> \o Acked(g)' ELSE Acked(g)'
    OBVIOUS
  <2>1. Acked(g) = IF h = g THEN <<r>> \o Acked(g)' ELSE Acked(g)'
    BY <1>1, AckedTaken
  <2>2. QED
    BY <1>1, <2>1 DEF Intact
<1>3. CASE /\ destroyed[h]
           /\ UNCHANGED <<destroyed, writeRequests, invokeQueue>>
  <2>1. ASSUME NEW g \in Handles, ~destroyed'[g]
        PROVE  InOrder(writeRequests'[g], Acked(g)', writing'[g], Queued(g)', Intact(g)')
    <3>1. g # h /\ ~destroyed[g] /\ writeRequests'[g] = writeRequests[g]
      BY <1>3, <2>1
    <3>2. Queued(g)' = Queued(g)
      BY <1>3 DEF Queued
    <3>3. QED
      BY <1>2, <3>1, <3>2, SameStages
  <2>2. QED
    BY <2>1 DEF OrderInv
<1>4. CASE ~destroyed[h] /\ writeRequests[h] # <<>> /\ Acknowledge(h, r)
  <2> DEFINE a == Acked(h)'
             n == calls + 1
  <2>0. /\ a \in Seq(Nat) /\ writing[h] \in Seq(Nat) /\ n \in Nat
        /\ writeRequests[h] \in Seq(Nat)
    <3>1. OncompleteCallback => [Next]_vars
      BY DEF Next
    <3>2. TypeOK'
      BY <3>1, TypeStep
    <3>3. a \in Seq(Nat)
      <4>1. Select(callbacks', Completions(h)) \in Seq(Callback)
        BY <3>2, SelectType DEF TypeOK
      <4>2. \A e \in Callback : e.req \in Nat
        BY DEF Callback
      <4>3. Reqs(Select(callbacks', Completions(h))) \in Seq(Nat)
        BY <4>1, <4>2, ReqsType
      <4>4. QED
        BY <4>3 DEF Acked
    <3>4. QED
      BY <3>3 DEF TypeOK
  <2>1. /\ Head(writeRequests[h]) = r
        /\ InOrder(Tail(writeRequests[h]), a, writing[h], Queued(h), Intact(h))
    <3>1. InOrder(writeRequests[h], <<r>> \o a, writing[h], Queued(h), Intact(h))
      BY <1>2, <1>4 DEF OrderInv
    <3> HIDE DEF a
    <3>2. QED
      BY <2>0, <3>1, AcknowledgedInOrder
  <2>2. ASSUME NEW g \in Handles, g # h, ~destroyed'[g],
               ~destroyed'[g] => ~destroyed[g],
               writeRequests'[g] = writeRequests[g], Queued(g)' = Queued(g)
        PROVE  InOrder(writeRequests'[g], Acked(g)', writing'[g], Queued(g)', Intact(g)')
    BY <1>2, <2>2, SameStages
  <2>3. CASE /\ writeRequests' = [writeRequests EXCEPT ![h] = Tail(@)]
             /\ UNCHANGED <<destroyed, invokeQueue>>
    <3>1. \A g \in Handles : Queued(g)' = Queued(g)
      BY <2>3 DEF Queued
    <3>2. /\ writeRequests'[h] = Tail(writeRequests[h])
          /\ \A g \in Handles : g # h => writeRequests'[g] = writeRequests[g]
      BY <2>3 DEF TypeOK
    <3>3. InOrder(writeRequests'[h], Acked(h)', writing'[h], Queued(h)', Intact(h)')
      BY <1>2, <2>1, <3>1, <3>2
    <3>4. QED
      BY <2>2, <2>3, <3>1, <3>2, <3>3 DEF OrderInv
  <2>4. CASE /\ writeRequests' = [writeRequests EXCEPT ![h] = <<>>]
             /\ Destroy(h)
    <3>1. /\ \A g \in Handles : Queued(g)' = Queued(g)
          /\ destroyed'[h] /\ \A g \in Handles : g # h => destroyed'[g] = destroyed[g]
      BY <2>4, DestroyPushes DEF TypeOK
    <3>2. \A g \in Handles : g # h => writeRequests'[g] = writeRequests[g]
      BY <2>4 DEF TypeOK
    <3>3. QED
      BY <2>2, <3>1, <3>2 DEF OrderInv
  <2>5. CASE /\ Len(writeRequests[h]) = 1
             /\ Invoke("write", h, n)
             /\ writeRequests' = [writeRequests EXCEPT ![h] = <<n>>]
             /\ UNCHANGED destroyed
    <3> HIDE DEF n, a
    <3>1. /\ Queued(h)' = Append(Queued(h), n)
          /\ \A g \in Handles : g # h => Queued(g)' = Queued(g)
      BY <2>0, <2>5, WritePushed
    <3>2. /\ writeRequests'[h] = <<n>>
          /\ \A g \in Handles : g # h => writeRequests'[g] = writeRequests[g]
      BY <2>5 DEF TypeOK
    <3>3. Tail(writeRequests[h]) = <<>> /\ Append(<<>>, n) = <<n>>
      <4>1. Tail(writeRequests[h]) \in Seq(Nat) /\ Len(Tail(writeRequests[h])) = 0
        BY <1>4, <2>0, <2>5, HeadTailType
      <4>2. Tail(writeRequests[h]) = <<>>
        BY <4>1, EmptySeq
      <4>3. QED
        BY <4>2
    <3>4. InOrder(Append(<<>>, n), a, writing[h], Append(Queued(h), n), Intact(h))
      BY <2>0, <2>1, <3>3, PushedInOrder
    <3>5. InOrder(writeRequests'[h], Acked(h)', writing'[h], Queued(h)', Intact(h)')
      BY <1>2, <3>1, <3>2, <3>3, <3>4 DEF a
    <3>6. QED
      BY <2>2, <2>5, <3>1, <3>2, <3>5 DEF OrderInv
  <2>6. QED
    BY <1>4, <2>3, <2>4, <2>5 DEF Acknowledge
<1>5. QED
  BY <1>3, <1>4 DEF OncompleteCallback

\* So does a completed send.
LEMMA WriteDoneKeepsOrder ==
  ASSUME TypeOK, OrderInv, NEW h \in Handles, WriteDone(h)
  PROVE  OrderInv'
<1> DEFINE r == Head(writing[h])
<1>1. /\ writing[h] \in Seq(Nat) /\ writing[h] # <<>> /\ r \in Nat
      /\ FireCallback("oncomplete", h, r)
      /\ UNCHANGED <<destroyed, writeRequests, invokeQueue, broken>>
  BY HeadTailType DEF TypeOK, WriteDone, Loop, Worker, jsVars
<1>2. /\ writing'[h] = Tail(writing[h])
      /\ \A g \in Handles : g # h => writing'[g] = writing[g]
      /\ \A g \in Handles : "SHUTTING" \in flags'[g] <=> "SHUTTING" \in flags[g]
  BY WriteDoneEffect DEF OneHandle
<1>3. ASSUME NEW g \in Handles
      PROVE  /\ Queued(g)' = Queued(g)
             /\ Intact(g)' => Intact(g)
             /\ Acked(g)' = IF g = h THEN Append(Acked(g), r) ELSE Acked(g)
  <2>1. Queued(g)' = Queued(g) /\ (Intact(g)' => Intact(g))
    BY <1>1, <1>2 DEF Queued, Intact
  <2> HIDE DEF r
  <2>2. Acked(g)' = IF g = h THEN Append(Acked(g), r) ELSE Acked(g)
    BY <1>1, AckedPosted
  <2>3. QED
    BY <2>1, <2>2
<1>4. ASSUME NEW g \in Handles, ~destroyed'[g]
      PROVE  InOrder(writeRequests'[g], Acked(g)', writing'[g], Queued(g)', Intact(g)')
  <2>1. ~destroyed[g] /\ writeRequests'[g] = writeRequests[g]
    BY <1>1, <1>4
  <2>2. CASE g # h
    BY <1>2, <1>3, <2>1, <2>2, SameStages
  <2>3. CASE g = h
    <3>1. InOrder(writeRequests[h], Acked(h), writing[h], Queued(h), Intact(h))
      BY <2>1, <2>3 DEF OrderInv
    <3>2. InOrder(writeRequests[h], Append(Acked(h), r), Tail(writing[h]), Queued(h),
                  Intact(h))
      BY <1>1, <3>1, StagesType, CompletedInOrder
    <3>3. InOrder(writeRequests'[h], Acked(h)', writing'[h], Queued(h)', Intact(h))
      BY <1>2, <1>3, <2>1, <2>3, <3>2
    <3>4. QED
      BY <1>3, <2>3, <3>3 DEF InOrder
  <2>4. QED
    BY <2>2, <2>3
<1>5. QED
  BY <1>4 DEF OrderInv

\* So do all completions and endgames.
LEMMA LoopKeepsOrder ==
  ASSUME TypeOK, OrderInv, NEW h \in Handles, Kernel(h) \/ Endgame(h)
  PROVE  OrderInv'
<1>1. UNCHANGED <<destroyed, writeRequests, invokeQueue>>
  BY KernelLeavesQueue DEF jsVars
<1>2. ASSUME UNCHANGED <<writing, broken>>,
             \A g \in Handles : Acked(g)' = Acked(g),
             \A g \in Handles : "SHUTTING" \in flags'[g] <=> "SHUTTING" \in flags[g]
      PROVE  OrderInv'
  <2>1. \A g \in Handles : Queued(g)' = Queued(g) /\ (Intact(g)' => Intact(g))
    BY <1>1, <1>2 DEF Queued, Intact
  <2>2. QED
    BY <1>1, <1>2, <2>1, OrderFrame
<1>3. CASE ReadData(h)
  <2>1. FireCallback("onread", h, 0) /\ UNCHANGED uvVars /\ 0 \in Nat
    BY <1>3 DEF ReadData
  <2>2. \A g \in Handles : Acked(g)' = Acked(g)
    BY <2>1, AckedPosted
  <2>3. QED
    BY <1>2, <2>1, <2>2 DEF uvVars
<1>4. CASE ReadIgnored(h) \/ \E eof \in {{}, {"EOF"}} : ReadEnd(h, eof)
  <2>1. UNCHANGED <<callbacks, writing, broken>>
    BY <1>4 DEF ReadIgnored, ReadEnd
  <2>2. \A g \in Handles : Acked(g)' = Acked(g)
    BY <2>1 DEF Acked
  <2>3. \A g \in Handles : "SHUTTING" \in flags'[g] <=> "SHUTTING" \in flags[g]
    BY <1>4, ReadEffect DEF OneHandle
  <2>4. QED
    BY <1>2, <2>1, <2>2, <2>3
<1>5. CASE Endgame(h)
  <2>1. UNCHANGED <<callbacks, writing, broken>>
    BY <1>5 DEF Endgame
  <2>2. \A g \in Handles : Acked(g)' = Acked(g)
    BY <2>1 DEF Acked
  <2>3. \A g \in Handles : "SHUTTING" \in flags'[g] <=> "SHUTTING" \in flags[g]
    BY <1>5, EndgameEffect DEF OneHandle
  <2>4. QED
    BY <1>2, <2>1, <2>2, <2>3
<1>6. QED
  BY <1>3, <1>4, <1>5, WriteDoneKeepsOrder DEF Kernel

\* So does a turn of the worker's loop.
LEMMA InvokeKeepsOrder ==
  ASSUME TypeOK, ShutdownIsLast, OrderInv, WorkerInvoke,
         NEW h \in Handles, NEW r \in Nat, NEW m,
         m = Head(invokeQueue).method, h = Head(invokeQueue).object,
         r = Head(invokeQueue).req
  PROVE  OrderInv'
<1>1. /\ invokeQueue # <<>> /\ invokeQueue' = Tail(invokeQueue)
      /\ UNCHANGED <<destroyed, writeRequests, callbacks>>
  BY DEF WorkerInvoke, Worker, jsVars
<1>2. ASSUME NEW g \in Handles
      PROVE  /\ Acked(g)' = Acked(g)
             /\ m = "write" /\ h = g => Queued(g) = <<r>> \o Queued(g)'
             /\ ~(m = "write" /\ h = g) => Queued(g)' = Queued(g)
  <2>1. Acked(g)' = Acked(g)
    BY <1>1 DEF Acked
  <2>2. QED
    BY <1>1, <2>1, QueuedTaken
<1>3. /\ OneHandle(h)
      /\ \/ /\ m # "write"
            /\ UNCHANGED <<writing, broken>>
            /\ "SHUTTING" \in flags[h] => "SHUTTING" \in flags'[h]
         \/ /\ m = "write"
            /\ UNCHANGED flags
            /\ \/ /\ UNCHANGED writing
                  /\ \/ "SHUTTING" \in flags[h] /\ UNCHANGED broken
                     \/ broken' = [broken EXCEPT ![h] = TRUE]
               \/ /\ "SHUTTING" \notin flags[h] /\ ~broken[h]
                  /\ writing'[h] = Append(writing[h], r)
                  /\ UNCHANGED broken
  BY InvokeEffect
<1>4. \A g \in Handles : g # h => /\ writing'[g] = writing[g]
                                  /\ Intact(g)' => Intact(g)
  BY <1>3 DEF OneHandle, Intact, TypeOK
<1>5. ASSUME NEW g \in Handles, ~destroyed'[g]
      PROVE  InOrder(writeRequests'[g], Acked(g)', writing'[g], Queued(g)', Intact(g)')
  <2>1. ~destroyed[g] /\ writeRequests'[g] = writeRequests[g]
    BY <1>1, <1>5
  <2>2. CASE g # h
    BY <1>2, <1>4, <2>1, <2>2, SameStages
  <2>3. CASE g = h /\ m # "write"
    <3>1. Intact(h)' => Intact(h)
      BY <1>3, <2>3 DEF Intact
    <3>2. QED
      BY <1>2, <1>3, <2>1, <2>3, <3>1, SameStages
  <2>4. CASE g = h /\ m = "write" /\ UNCHANGED writing
    <3>1. ~Intact(h)' \/ writing'[h] = Append(writing[h], r)
      <4>1. ASSUME "SHUTTING" \in flags[h] PROVE WriteAfterEnd
        <5>1. 1 \in 1 .. Len(invokeQueue) /\ Head(invokeQueue) = invokeQueue[1]
          BY <1>1, HeadTailType DEF TypeOK
        <5>2. m \notin AfterEnd
          BY <4>1, <5>1 DEF ShutdownIsLast
        <5>3. QED
          BY <2>4, <5>2 DEF AfterEnd
      <4>2. QED
        BY <1>3, <2>4, <4>1 DEF Intact, TypeOK
    <3>2. writing'[h] # Append(writing[h], r)
      <4>1. Len(Append(writing[h], r)) = Len(writing[h]) + 1 /\ Len(writing[h]) \in Nat
        BY AppendType DEF TypeOK
      <4>2. Len(Append(writing[h], r)) # Len(writing[h])
        BY <4>1
      <4>3. QED
        BY <2>4, <4>2
    <3>3. InOrder(writeRequests[h], Acked(h), writing[h], Queued(h), Intact(h))
      BY <2>1, <2>4 DEF OrderInv
    <3>4. QED
      BY <1>2, <2>1, <2>4, <3>1, <3>2, <3>3 DEF InOrder
  <2>5. CASE /\ g = h /\ m = "write"
             /\ "SHUTTING" \notin flags[h] /\ ~broken[h]
             /\ writing'[h] = Append(writing[h], r)
             /\ UNCHANGED broken
    <3>1. Intact(h) /\ Intact(h)'
      BY <1>3, <2>5 DEF Intact
    <3>2. InOrder(writeRequests[h], Acked(h), writing[h], Queued(h), TRUE)
      BY <2>1, <2>5, <3>1 DEF OrderInv, InOrder
    <3> DEFINE q == Queued(h)'
    <3>3. Queued(h) = <<r>> \o q
      BY <1>2, <2>5
    <3>4. q \in Seq(Nat)
      <4>1. TypeOK'
        BY TypeStep DEF Next
      <4>2. Select(invokeQueue', QueuedWrites(h)) \in Seq(Invocation)
        BY <4>1, SelectType DEF TypeOK
      <4>3. \A e \in Invocation : e.req \in Nat
        BY DEF Invocation
      <4>4. Reqs(Select(invokeQueue', QueuedWrites(h))) \in Seq(Nat)
        BY <4>2, <4>3, ReqsType
      <4>5. QED
        BY <4>4 DEF Queued
    <3> HIDE DEF q
    <3>5. Acked(h) \in Seq(Nat) /\ writing[h] \in Seq(Nat)
      BY StagesType DEF TypeOK
    <3>6. InOrder(writeRequests[h], Acked(h), Append(writing[h], r), q, TRUE)
      BY <3>2, <3>3, <3>4, <3>5, AcceptedInOrder
    <3>7. QED
      BY <1>2, <2>1, <2>5, <3>1, <3>6 DEF q, InOrder
  <2>6. QED
    BY <1>3, <2>2, <2>3, <2>4, <2>5
<1>6. QED
  BY <1>5 DEF OrderInv

\* So does every step.
LEMMA OrderStep ==
  TypeOK /\ ShutdownIsLast /\ OrderInv /\ [Next]_vars => OrderInv'
<1> SUFFICES ASSUME TypeOK, ShutdownIsLast, OrderInv, [Next]_vars PROVE OrderInv'
  OBVIOUS
<1>1. ASSUME UNCHANGED <<jsVars, invokeQueue, uvVars>>,
             \A g \in Handles : Acked(g)' = Acked(g)
      PROVE  OrderInv'
  <2>1. \A g \in Handles : Queued(g)' = Queued(g) /\ (Intact(g)' => Intact(g))
    BY <1>1 DEF Queued, Intact, uvVars
  <2>2. QED
    BY <1>1, <2>1, OrderFrame DEF jsVars, uvVars
<1>2. CASE OnreadCallback
  <2>1. /\ callbacks # <<>> /\ callbacks' = Tail(callbacks)
        /\ Head(callbacks).name = "onread"
        /\ UNCHANGED <<destroyed, writeRequests, invokeQueue, uvVars>>
    BY <1>2 DEF OnreadCallback, TakeCallback
  <2>2. \A g \in Handles : Acked(g)' = Acked(g)
    BY <2>1, AckedTaken
  <2>3. \A g \in Handles : Queued(g)' = Queued(g) /\ (Intact(g)' => Intact(g))
    BY <2>1 DEF Queued, Intact, uvVars
  <2>4. QED
    BY <2>1, <2>2, <2>3, OrderFrame DEF uvVars
<1>3. CASE OncompleteCallback
  <2>1. Head(callbacks) \in Callback
    BY <1>3, HeadTailType DEF TypeOK, OncompleteCallback, TakeCallback
  <2>2. Head(callbacks).object \in Handles /\ Head(callbacks).req \in Nat
    BY <2>1 DEF Callback
  <2>3. QED
    BY <1>3, <2>2, AcknowledgeKeepsOrder
<1>4. CASE WorkerInvoke
  <2>1. Head(invokeQueue) \in Invocation
    BY <1>4, InvokeEffect
  <2>2. Head(invokeQueue).object \in Handles /\ Head(invokeQueue).req \in Nat
    BY <2>1 DEF Invocation
  <2>3. QED
    BY <1>4, <2>2, InvokeKeepsOrder
<1>5. CASE \/ AsyncSend \/ CallbackOnFreedObject \/ AsyncWakeup \/ WorkerReturn
           \/ UNCHANGED vars
  <2>1. UNCHANGED <<jsVars, invokeQueue, uvVars, callbacks>>
    BY <1>5
    DEF AsyncSend, CallbackOnFreedObject, AsyncWakeup, WorkerReturn, Worker, vars
  <2>2. \A g \in Handles : Acked(g)' = Acked(g)
    BY <2>1 DEF Acked
  <2>3. QED
    BY <1>1, <2>1, <2>2
<1>6. QED
  BY <1>2, <1>3, <1>4, <1>5, ScriptKeepsOrder, LoopKeepsOrder DEF Next

\* Nothing is out of order in the initial state.
LEMMA InitInOrder == Init => OrderInv
  <1> SUFFICES ASSUME Init, NEW h \in Handles
               PROVE  InOrder(writeRequests[h], Acked(h), writing[h], Queued(h), Intact(h))
    BY DEF OrderInv
  <1>1. Acked(h) = <<>> /\ Queued(h) = <<>>
    BY SelectEmpty DEF Init, Acked, Queued, Reqs
  <1>2. writeRequests[h] = <<>> /\ writing[h] = <<>>
    BY DEF Init
  <1>3. <<>> = (<<>> \o <<>>) \o <<>> /\ <<>> \in Seq(Nat)
    OBVIOUS
  <1>4. QED
    BY <1>1, <1>2, <1>3 DEF InOrder

\* For each socket, acknowledged, sent and queued writes joined are
\* _writeRequests.
LEMMA OrderIsKept == Spec => []OrderInv
  BY InitInOrder, OrderStep, ShutdownAskedOnce, TypeCorrect, PTL DEF Spec

\* The completions of a live socket answer the oldest of its _writeRequests, in
\* their order, whatever breaks and whatever the script does after end(): the
\* assertion of afterWrite (net.js:399) cannot fail. TcpBridge:
\* CompletionsMatchRequests.
THEOREM CompletionsMatch == Spec => []CompletionsMatchRequests
<1>1. TypeOK /\ OrderInv => CompletionsMatchRequests
  <2> SUFFICES ASSUME TypeOK, OrderInv, NEW h \in Handles, ~destroyed[h]
               PROVE  LET due == Acked(h) \o writing[h]
                      IN /\ Len(due) <= Len(writeRequests[h])
                         /\ due = SubSeq(writeRequests[h], 1, Len(due))
    BY DEF CompletionsMatchRequests
  <2> DEFINE due == Acked(h) \o writing[h]
  <2>1. PICK rest \in Seq(Nat) : writeRequests[h] = due \o rest
    BY DEF OrderInv, InOrder
  <2>2. due \in Seq(Nat)
    BY StagesType DEF TypeOK
  <2> HIDE DEF due
  <2>3. Len(due) <= Len(due \o rest) /\ due = SubSeq(due \o rest, 1, Len(due))
    BY <2>2
  <2>4. QED
    BY <2>1, <2>3 DEF due
<1>2. QED
  BY <1>1, OrderIsKept, TypeCorrect, PTL

-----------------------------------------------------------------------------
(* The bridge implements WriteChannel.                                     *)

NoneBroken == \A h \in Handles : ~broken[h]

\* Where no send may fail, no socket is broken.
LEMMA NoneBreaks ==
  ASSUME ~SendMayFail
  PROVE  Spec => []NoneBroken
<1>1. Init => NoneBroken
  BY DEF Init, NoneBroken
<1>2. TypeOK /\ NoneBroken /\ [Next]_vars => NoneBroken'
  <2> SUFFICES ASSUME TypeOK, NoneBroken, [Next]_vars PROVE NoneBroken'
    OBVIOUS
  <2>1. CASE UNCHANGED broken
    BY <2>1 DEF NoneBroken
  <2>2. CASE WorkerInvoke
    <3>1. UNCHANGED broken
      BY <2>2, InvokeEffect DEF NoneBroken
    <3>2. QED
      BY <2>1, <3>1
  <2>3. ASSUME NEW h \in Handles, Script(h) PROVE UNCHANGED broken
    BY <2>3, ScriptIsMainStep DEF uvVars
  <2>4. ASSUME OnreadCallback \/ OncompleteCallback PROVE UNCHANGED broken
    BY <2>4, CallbackIsMainStep DEF uvVars
  <2>5. ASSUME NEW h \in Handles, Kernel(h) \/ Endgame(h) PROVE UNCHANGED broken
    BY <2>5 DEF Kernel, ReadData, ReadEnd, ReadIgnored, WriteDone, Endgame, uvVars
  <2>6. CASE \/ AsyncSend \/ CallbackOnFreedObject \/ AsyncWakeup \/ WorkerReturn
             \/ UNCHANGED vars
    <3>1. UNCHANGED broken
      BY <2>6
      DEF AsyncSend, CallbackOnFreedObject, AsyncWakeup, WorkerReturn, vars, uvVars
    <3>2. QED
      BY <2>1, <3>1
  <2>7. QED
    BY <2>1, <2>2, <2>3, <2>4, <2>5, <2>6 DEF Next
<1>3. QED
  BY <1>1, <1>2, TypeCorrect, PTL DEF Spec

\* With no write dropped, the three stages of the bridge hold exactly the
\* requests of a live socket.
LEMMA OutstandingIsRequests ==
  ASSUME TypeOK, OrderInv, NoneBroken, ~WriteAfterEnd, NEW h \in Handles
  PROVE  Outstanding(h) = IF destroyed[h] THEN <<>> ELSE writeRequests[h]
<1>1. CASE ~destroyed[h]
  <2>1. Intact(h)
    BY DEF Intact, NoneBroken
  <2>2. writeRequests[h] = (Acked(h) \o writing[h]) \o Queued(h)
    BY <1>1, <2>1 DEF OrderInv, InOrder
  <2>3. QED
    BY <1>1, <2>2 DEF Outstanding
<1>2. QED
  BY <1>1 DEF Outstanding

\* What the channel sees of the bridge.
Requests == [h \in Handles |-> IF destroyed[h] THEN <<>> ELSE writeRequests[h]]
Open == [h \in Handles |-> ~destroyed[h]]

\* The actions of WriteChannel in these terms.
ChannelIssue(h) ==
  /\ ~destroyed[h]
  /\ \E r \in 1 .. MaxCalls : Requests' = [Requests EXCEPT ![h] = Append(@, r)]
  /\ Open' = Open /\ crashed' = crashed

ChannelAcknowledge(h) ==
  /\ ~crashed /\ ~destroyed[h]
  /\ Requests[h] # <<>>
  /\ Requests' = [Requests EXCEPT ![h] = Tail(@)]
  /\ Open' = Open /\ crashed' = crashed

ChannelReissue(h) ==
  /\ ~crashed /\ ~destroyed[h]
  /\ Len(Requests[h]) = 1
  /\ \E r \in 1 .. MaxCalls : Requests' = [Requests EXCEPT ![h] = <<r>>]
  /\ Open' = Open /\ crashed' = crashed

ChannelClose(h) ==
  /\ ~destroyed[h]
  /\ Open' = [Open EXCEPT ![h] = FALSE]
  /\ Requests' = [Requests EXCEPT ![h] = <<>>]
  /\ crashed' = crashed

ChannelStep ==
  \/ \E h \in Handles : \/ ChannelIssue(h)
                        \/ ChannelAcknowledge(h)
                        \/ ChannelReissue(h)
                        \/ ChannelClose(h)
  \/ crashed' = TRUE /\ Requests' = Requests /\ Open' = Open
  \/ Requests' = Requests /\ Open' = Open /\ crashed' = crashed

\* The mapped state of the channel depends on two variables only.
LEMMA RequestsFrame ==
  ASSUME UNCHANGED <<destroyed, writeRequests>>
  PROVE  Requests' = Requests /\ Open' = Open
BY DEF Requests, Open

\* destroy() closes the channel of a socket, or does nothing to it when the
\* socket is destroyed already; wr is what becomes of the requests.
LEMMA DestroyCloses ==
  ASSUME TypeOK, NEW h \in Handles, Destroy(h), UNCHANGED crashed,
         \A g \in Handles : g # h => writeRequests'[g] = writeRequests[g]
  PROVE  ChannelStep
<1>1. destroyed' = [destroyed EXCEPT ![h] = TRUE]
  BY DEF Destroy
<1>2. CASE destroyed[h]
  <2>1. destroyed' = destroyed
    BY <1>1, <1>2 DEF TypeOK
  <2>2. Requests' = Requests /\ Open' = Open
    BY <1>2, <2>1 DEF Requests, Open
  <2>3. QED
    BY <2>2 DEF ChannelStep
<1>3. CASE ~destroyed[h]
  <2>1. \A g \in Handles : destroyed'[g] = IF g = h THEN TRUE ELSE destroyed[g]
    BY <1>1 DEF TypeOK
  <2>2. Open' = [Open EXCEPT ![h] = FALSE]
    BY <2>1 DEF Open
  <2>3. Requests' = [Requests EXCEPT ![h] = <<>>]
    BY <2>1 DEF Requests
  <2>4. QED
    BY <1>3, <2>2, <2>3 DEF ChannelStep, ChannelClose
<1>4. QED
  BY <1>2, <1>3

\* A call of the script is a step of the channel, or none.
LEMMA ScriptImplementsChannel ==
  ASSUME TypeOK, NEW h \in Handles, Script(h)
  PROVE  ChannelStep
<1>1. CASE SocketWrite(h)
  <2>1. /\ ~destroyed[h] /\ UNCHANGED <<destroyed, crashed>>
        /\ calls + 1 \in 1 .. MaxCalls
        /\ writeRequests' = [writeRequests EXCEPT ![h] = Append(@, calls + 1)]
    BY <1>1, BridgeAssumption DEF TypeOK, SocketWrite, ScriptCall, Write
  <2> DEFINE r == calls + 1
  <2>2. \A g \in Handles : writeRequests'[g] = IF g = h THEN Append(writeRequests[h], r)
                                                       ELSE writeRequests[g]
    BY <2>1 DEF TypeOK
  <2> HIDE DEF r
  <2>3. Requests' = [Requests EXCEPT ![h] = Append(@, r)]
    BY <2>1, <2>2 DEF Requests
  <2>4. Open' = Open /\ r \in 1 .. MaxCalls
    BY <2>1 DEF Open, r
  <2>5. QED
    BY <2>1, <2>3, <2>4 DEF ChannelStep, ChannelIssue
<1>2. CASE SocketEnd(h) \/ SocketPause(h) \/ SocketResume(h)
  <2>1. UNCHANGED <<destroyed, writeRequests, crashed>>
    BY <1>2 DEF SocketEnd, SocketPause, SocketResume, ScriptCall
  <2>2. QED
    BY <2>1, RequestsFrame DEF ChannelStep
<1>3. CASE SocketDestroy(h) \/ SocketDestroySoon(h)
  <2>1. UNCHANGED <<writeRequests, crashed>>
    BY <1>3 DEF SocketDestroy, SocketDestroySoon, ScriptCall
  <2>2. CASE Destroy(h)
    BY <2>1, <2>2, DestroyCloses
  <2>3. CASE UNCHANGED destroyed
    BY <2>1, <2>3, RequestsFrame DEF ChannelStep
  <2>4. QED
    BY <1>3, <2>2, <2>3 DEF SocketDestroy, SocketDestroySoon
<1>4. QED
  BY <1>1, <1>2, <1>3 DEF Script

\* So is an acknowledgement.
LEMMA AcknowledgeImplementsChannel ==
  ASSUME TypeOK, OncompleteCallback, NEW h \in Handles,
         h = Head(callbacks).object
  PROVE  ChannelStep
<1> DEFINE r == Head(callbacks).req
<1>1. ~crashed /\ UNCHANGED crashed
  BY DEF OncompleteCallback, TakeCallback, JsIdle
<1>2. CASE UNCHANGED <<destroyed, writeRequests>>
  BY <1>1, <1>2, RequestsFrame DEF ChannelStep
<1>3. CASE ~destroyed[h] /\ writeRequests[h] # <<>> /\ Acknowledge(h, r)
  <2>1. Requests[h] = writeRequests[h]
    BY <1>3 DEF Requests
  <2>2. CASE /\ writeRequests' = [writeRequests EXCEPT ![h] = Tail(@)]
             /\ UNCHANGED destroyed
    <3>1. \A g \in Handles : writeRequests'[g] = IF g = h THEN Tail(writeRequests[h])
                                                         ELSE writeRequests[g]
      BY <2>2 DEF TypeOK
    <3>2. Requests' = [Requests EXCEPT ![h] = Tail(@)] /\ Open' = Open
      BY <1>3, <2>2, <3>1 DEF Requests, Open
    <3>3. QED
      BY <1>1, <1>3, <2>1, <3>2 DEF ChannelStep, ChannelAcknowledge
  <2>3. CASE /\ writeRequests' = [writeRequests EXCEPT ![h] = <<>>]
             /\ Destroy(h)
    <3>1. \A g \in Handles : g # h => writeRequests'[g] = writeRequests[g]
      BY <2>3 DEF TypeOK
    <3>2. QED
      BY <1>1, <2>3, <3>1, DestroyCloses
  <2>4. CASE /\ Len(writeRequests[h]) = 1
             /\ calls < MaxCalls
             /\ writeRequests' = [writeRequests EXCEPT ![h] = <<calls + 1>>]
             /\ UNCHANGED destroyed
    <3> DEFINE n == calls + 1
    <3>1. \A g \in Handles : writeRequests'[g] = IF g = h THEN <<n>>
                                                         ELSE writeRequests[g]
      BY <2>4 DEF TypeOK
    <3>2. n \in 1 .. MaxCalls
      BY <2>4, BridgeAssumption DEF TypeOK
    <3> HIDE DEF n
    <3>3. Requests' = [Requests EXCEPT ![h] = <<n>>] /\ Open' = Open
      BY <1>3, <2>4, <3>1 DEF Requests, Open
    <3>4. QED
      BY <1>1, <1>3, <2>1, <2>4, <3>2, <3>3 DEF ChannelStep, ChannelReissue
  <2>5. QED
    BY <1>3, <2>2, <2>3, <2>4 DEF Acknowledge
<1>4. QED
  BY <1>2, <1>3 DEF OncompleteCallback

\* So is every step.
LEMMA NextImplementsChannel ==
  ASSUME TypeOK, [Next]_vars
  PROVE  ChannelStep
<1>1. CASE OncompleteCallback
  <2>1. Head(callbacks) \in Callback
    BY <1>1, HeadTailType DEF TypeOK, OncompleteCallback, TakeCallback
  <2>2. Head(callbacks).object \in Handles
    BY <2>1 DEF Callback
  <2>3. QED
    BY <1>1, <2>2, AcknowledgeImplementsChannel
<1>2. CASE CallbackOnFreedObject
  <2>1. UNCHANGED <<destroyed, writeRequests>> /\ crashed' = TRUE
    BY <1>2 DEF CallbackOnFreedObject, jsVars
  <2>2. QED
    BY <2>1, RequestsFrame DEF ChannelStep
<1>3. CASE UNCHANGED <<destroyed, writeRequests, crashed>>
  BY <1>3, RequestsFrame DEF ChannelStep
<1>4. ASSUME NEW h \in Handles, Kernel(h) \/ Endgame(h)
      PROVE  UNCHANGED <<destroyed, writeRequests, crashed>>
  BY <1>4
  DEF Kernel, ReadData, ReadEnd, ReadIgnored, WriteDone, Endgame, Loop, Worker, jsVars
<1>5. ASSUME \/ OnreadCallback \/ AsyncSend \/ AsyncWakeup \/ WorkerInvoke
             \/ WorkerReturn \/ UNCHANGED vars
      PROVE  UNCHANGED <<destroyed, writeRequests, crashed>>
  BY <1>5
  DEF OnreadCallback, TakeCallback, AsyncSend, AsyncWakeup, WorkerInvoke,
      WorkerReturn, Worker, jsVars, boundVars, vars
<1>6. QED
  BY <1>1, <1>2, <1>3, <1>4, <1>5, ScriptImplementsChannel DEF Next

\* When sends do not fail and the script does not write on an ended socket, the
\* bridge keeps the safety part of what net.js relies on: writes are
\* acknowledged one by one, each once, in the order of the calls of
\* Socket.write, until the socket is destroyed. (That they are acknowledged at
\* all, the fairness part of WritesAcknowledgedInOrder, is left to TLC.)
THEOREM BridgeImplementsChannel ==
  ASSUME ~SendMayFail, ~WriteAfterEnd
  PROVE  Spec => Channel!Safety
<1> DEFINE Inv == TypeOK /\ OrderInv /\ NoneBroken
<1>1. Inv => [h \in Handles |-> Outstanding(h)] = Requests
  BY OutstandingIsRequests DEF Requests
<1>2. (Inv => [h \in Handles |-> Outstanding(h)] = Requests)'
  BY <1>1, PTL
<1>3. Init => Channel!Init
  <2> SUFFICES ASSUME Init PROVE Channel!Init
    OBVIOUS
  <2>1. Inv
    BY InitTypeOK, InitInOrder DEF Init, NoneBroken
  <2>2. /\ Requests = [h \in Handles |-> <<>>]
        /\ [h \in Handles |-> ~destroyed[h]] = [h \in Handles |-> TRUE]
        /\ crashed = FALSE
    BY DEF Init, Requests
  <2>3. QED
    BY <1>1, <2>1, <2>2 DEF Channel!Init
<1>4. Inv /\ Inv' /\ [Next]_vars => [Channel!Next]_(Channel!channelVars)
  <2> SUFFICES ASSUME Inv, Inv', [Next]_vars
               PROVE  [Channel!Next]_(Channel!channelVars)
    OBVIOUS
  <2>1. /\ [h \in Handles |-> Outstanding(h)] = Requests
        /\ [h \in Handles |-> Outstanding(h)]' = Requests'
    BY <1>1, <1>2
  <2>2. ChannelStep
    BY NextImplementsChannel
  <2>3. ASSUME NEW h \in Handles, ChannelIssue(h) PROVE Channel!Issue(h)
    BY <2>1, <2>3 DEF ChannelIssue, Channel!Issue, Open
  <2>4. ASSUME NEW h \in Handles, ChannelAcknowledge(h) PROVE Channel!Acknowledge(h)
    BY <2>1, <2>4 DEF ChannelAcknowledge, Channel!Acknowledge, Open
  <2>5. ASSUME NEW h \in Handles, ChannelReissue(h) PROVE Channel!AcknowledgeAndIssue(h)
    BY <2>1, <2>5 DEF ChannelReissue, Channel!AcknowledgeAndIssue, Open
  <2>6. ASSUME NEW h \in Handles, ChannelClose(h) PROVE Channel!Close(h)
    BY <2>1, <2>6 DEF ChannelClose, Channel!Close, Open
  <2>7. CASE crashed' = TRUE /\ Requests' = Requests /\ Open' = Open
    BY <2>1, <2>7 DEF Channel!Crash, Channel!Next, Open
  <2>8. CASE Requests' = Requests /\ Open' = Open /\ crashed' = crashed
    BY <2>1, <2>8 DEF Channel!channelVars, Open
  <2>9. QED
    BY <2>2, <2>3, <2>4, <2>5, <2>6, <2>7, <2>8 DEF ChannelStep, Channel!Next
<1>5. QED
  BY <1>3, <1>4, OrderIsKept, NoneBreaks, TypeCorrect, PTL DEF Spec, Channel!Safety
=============================================================================
