------------------------- MODULE HttpPipelineProofs -------------------------
(* Proofs about HttpPipeline, for any number of requests and writes.       *)
EXTENDS HttpPipeline, SequenceTheorems, WellFoundedInduction, TLAPS

-----------------------------------------------------------------------------
(* Sequences: induction over their length, in the form of sets of numbers. *)

\* A set of numbers that is not empty has a least one.
LEMMA LeastNumber ==
  ASSUME NEW S \in SUBSET Nat, NEW n \in S
  PROVE  \E m \in S : \A k \in S : m <= k
<1>1. \E m \in S : \A k \in S : <<k, m>> \notin OpToRel(<, Nat)
  BY WFMin, NatLessThanWellFounded
<1>2. \A k, m \in S : <<k, m>> \in OpToRel(<, Nat) <=> k < m
  BY DEF OpToRel
<1>3. \A k, m \in S : k \in Nat /\ m \in Nat /\ (~(k < m) <=> m <= k)
  OBVIOUS
<1>4. QED
  BY <1>1, <1>2, <1>3

\* Induction over the numbers, for the set of those that have a property.
LEMMA NatSetInduction ==
  ASSUME NEW S, 0 \in S, \A n \in Nat : n \in S => n + 1 \in S
  PROVE  \A n \in Nat : n \in S
<1> SUFFICES ASSUME NEW x \in Nat \ S PROVE FALSE
  OBVIOUS
<1>1. PICK m \in Nat \ S : \A k \in Nat \ S : m <= k
  BY LeastNumber
<1>2. m # 0 /\ m - 1 \in Nat /\ m - 1 \in S
  BY <1>1
<1>3. QED
  BY <1>1, <1>2

\* A sequence that is not empty is a shorter one and a last element.
LEMMA Front ==
  ASSUME NEW T, NEW u \in Seq(T), NEW n \in Nat, Len(u) = n + 1
  PROVE  \E v \in Seq(T), e \in T : u = Append(v, e) /\ Len(v) = n
<1> DEFINE v == [i \in 1 .. n |-> u[i]]
           e == u[n + 1]
<1>1. v \in Seq(T) /\ Len(v) = n /\ e \in T
  OBVIOUS
<1>2. u = Append(v, e)
  BY <1>1
<1>3. QED
  BY <1>1, <1>2

\* Appending to the second of two joined sequences appends to the result.
LEMMA ConcatAppend ==
  ASSUME NEW T, NEW s \in Seq(T), NEW t \in Seq(T), NEW e \in T
  PROVE  s \o t \in Seq(T) /\ s \o Append(t, e) = Append(s \o t, e)
OBVIOUS

\* A pair, as an appended sequence.
LEMMA PairIsAppend ==
  ASSUME NEW x, NEW y
  PROVE  Append(<<x>>, y) = <<x, y>>
<1> DEFINE s == <<x>>
           t == <<x, y>>
           S == {x, y}
<1>1. s \in Seq(S) /\ Len(s) = 1 /\ s[1] = x
  OBVIOUS
<1>2. t \in Seq(S) /\ Len(t) = 2 /\ t[1] = x /\ t[2] = y
  OBVIOUS
<1> HIDE DEF s, t
<1>3. /\ Append(s, y) \in Seq(S) /\ Len(Append(s, y)) = 2
      /\ Append(s, y)[1] = x /\ Append(s, y)[2] = y
  <2>1. y \in S /\ s \in Seq(S)
    BY <1>1
  <2>2. /\ Append(s, y) \in Seq(S) /\ Len(Append(s, y)) = Len(s) + 1
        /\ \A i \in 1 .. Len(s) : Append(s, y)[i] = s[i]
        /\ Append(s, y)[Len(s) + 1] = y
    BY <2>1, AppendProperties
  <2>3. 1 \in 1 .. Len(s) /\ Len(s) + 1 = 2
    BY <1>1
  <2>4. QED
    BY <1>1, <2>2, <2>3
<1>4. Append(s, y) = t
  BY <1>2, <1>3, SeqEqual
<1>5. QED
  BY <1>4 DEF s, t

-----------------------------------------------------------------------------
(* What Select does to a longer or a shorter sequence.                     *)

\* What is selected of the first i elements, by recursion over i.
Chosen(s, K, F, i) ==
  IF i = 0 THEN <<>> ELSE IF s[i] \in K THEN Append(F[i - 1], s[i]) ELSE F[i - 1]
IsChosen(s, K, n, F) == F = [i \in 0 .. n |-> Chosen(s, K, F, i)]

\* The recursion has a solution for every length, by induction over it.
LEMMA SelectExists ==
  ASSUME NEW s, NEW K, NEW n \in Nat
  PROVE  \E F : IsChosen(s, K, n, F)
<1> DEFINE S == {m \in Nat : \E F : IsChosen(s, K, m, F)}
<1>1. 0 \in S
  <2>1. IsChosen(s, K, 0, [i \in 0 .. 0 |-> <<>>])
    BY DEF IsChosen, Chosen
  <2>2. QED
    BY <2>1
<1>2. ASSUME NEW m \in Nat, m \in S PROVE m + 1 \in S
  <2>1. PICK F : IsChosen(s, K, m, F)
    BY <1>2
  <2> DEFINE G == [i \in 0 .. m + 1 |-> Chosen(s, K, F, i)]
  <2>2. \A i \in 0 .. m : F[i] = G[i]
    BY <2>1 DEF IsChosen
  <2>3. \A i \in 0 .. m + 1 : Chosen(s, K, F, i) = Chosen(s, K, G, i)
    <3> HIDE DEF G
    <3>1. \A i \in 0 .. m + 1 : i # 0 => i - 1 \in 0 .. m
      OBVIOUS
    <3>2. QED
      BY <2>2, <3>1 DEF Chosen
  <2>4. IsChosen(s, K, m + 1, G)
    BY <2>3 DEF IsChosen
  <2>5. QED
    BY <2>4
<1> HIDE DEF S
<1>3. n \in S
  BY <1>1, <1>2, NatSetInduction
<1>4. QED
  BY <1>3 DEF S

\* Select is the last value of a solution of its recursion.
LEMMA SelectUnfolds ==
  ASSUME NEW s, NEW K, Len(s) \in Nat
  PROVE  \E F : IsChosen(s, K, Len(s), F) /\ Select(s, K) = F[Len(s)]
<1> DEFINE Good(F) == F = [i \in 0 .. Len(s) |->
             IF i = 0 THEN <<>>
             ELSE IF s[i] \in K THEN Append(F[i - 1], s[i]) ELSE F[i - 1]]
           C == CHOOSE F : Good(F)
<1>1. IsChosen(s, K, Len(s), C)
  <2>1. \A F : IsChosen(s, K, Len(s), F) <=> Good(F)
    BY DEF IsChosen, Chosen
  <2>2. \E F : Good(F)
    BY <2>1, SelectExists
  <2>3. Good(C)
    BY <2>2, Zenon
  <2>4. QED
    BY <2>1, <2>3
<1>2. Select(s, K) = C[Len(s)]
  BY DEF Select
<1>3. QED
  BY <1>1, <1>2

\* Nothing is selected of the empty sequence.
LEMMA SelectEmpty ==
  ASSUME NEW K PROVE Select(<<>>, K) = <<>>
<1>1. PICK F : IsChosen(<<>>, K, 0, F) /\ Select(<<>>, K) = F[0]
  BY SelectUnfolds, EmptySeq
<1>2. QED
  BY <1>1 DEF IsChosen, Chosen

\* What a further element adds to the selection.
LEMMA SelectAppend ==
  ASSUME NEW T, NEW s \in Seq(T), NEW e \in T, NEW K
  PROVE  Select(Append(s, e), K) =
           IF e \in K THEN Append(Select(s, K), e) ELSE Select(s, K)
<1> DEFINE t == Append(s, e)
<1>1. /\ Len(s) \in Nat /\ Len(t) = Len(s) + 1 /\ t[Len(s) + 1] = e
      /\ \A i \in 1 .. Len(s) : t[i] = s[i]
  OBVIOUS
<1> HIDE DEF t
<1>2. PICK F : IsChosen(s, K, Len(s), F) /\ Select(s, K) = F[Len(s)]
  BY <1>1, SelectUnfolds
<1>3. PICK G : IsChosen(t, K, Len(t), G) /\ Select(t, K) = G[Len(t)]
  BY <1>1, SelectUnfolds
<1>4. \A i \in 0 .. Len(s) : F[i] = Chosen(s, K, F, i)
  BY <1>2 DEF IsChosen
<1>5. \A i \in 0 .. Len(t) : G[i] = Chosen(t, K, G, i)
  BY <1>3 DEF IsChosen
<1> DEFINE S == {i \in Nat : i <= Len(s) => F[i] = G[i]}
<1>6. 0 \in S
  BY <1>1, <1>4, <1>5 DEF Chosen
<1>7. ASSUME NEW i \in Nat, i \in S PROVE i + 1 \in S
  <2> SUFFICES ASSUME i + 1 <= Len(s) PROVE F[i + 1] = G[i + 1]
    OBVIOUS
  <2>1. F[i] = G[i] /\ i + 1 \in 1 .. Len(s) /\ i + 1 # 0 /\ (i + 1) - 1 = i
    BY <1>1, <1>7
  <2>2. F[i + 1] = Chosen(s, K, F, i + 1) /\ G[i + 1] = Chosen(t, K, G, i + 1)
    BY <1>1, <1>4, <1>5, <2>1
  <2>3. t[i + 1] = s[i + 1]
    BY <1>1, <2>1
  <2>4. QED
    BY <2>1, <2>2, <2>3 DEF Chosen
<1>8. F[Len(s)] = G[Len(s)]
  <2>1. Len(s) \in S
    BY <1>1, <1>6, <1>7, NatSetInduction
  <2>2. QED
    BY <1>1, <2>1
<1>9. G[Len(s) + 1] = IF e \in K THEN Append(G[Len(s)], e) ELSE G[Len(s)]
  <2>1. G[Len(s) + 1] = Chosen(t, K, G, Len(s) + 1) /\ (Len(s) + 1) - 1 = Len(s)
        /\ Len(s) + 1 # 0
    BY <1>1, <1>5
  <2>2. QED
    BY <1>1, <2>1 DEF Chosen
<1>10. QED
  BY <1>1, <1>2, <1>3, <1>8, <1>9 DEF t

\* The selection is a sequence of elements of K, by induction over the
\* length of s.
LEMMA SelectType ==
  ASSUME NEW T, NEW s \in Seq(T), NEW K
  PROVE  /\ Select(s, K) \in Seq(T)
         /\ Select(s, K) \in Seq(T \cap K)
         /\ Len(Select(s, K)) \in Nat
<1> DEFINE S == {n \in Nat : \A u \in Seq(T) : Len(u) = n => Select(u, K) \in Seq(T \cap K)}
<1>1. 0 \in S
  <2>1. ASSUME NEW u \in Seq(T), Len(u) = 0 PROVE Select(u, K) \in Seq(T \cap K)
    <3>1. u = <<>>
      BY <2>1, EmptySeq
    <3>2. QED
      BY <3>1, SelectEmpty, EmptySeq
  <2>2. QED
    BY <2>1
<1>2. ASSUME NEW n \in Nat, n \in S PROVE n + 1 \in S
  <2>1. ASSUME NEW u \in Seq(T), Len(u) = n + 1 PROVE Select(u, K) \in Seq(T \cap K)
    <3>1. PICK v \in Seq(T), e \in T : u = Append(v, e) /\ Len(v) = n
      BY <2>1, Front
    <3>2. Select(v, K) \in Seq(T \cap K)
      BY <1>2, <3>1
    <3>3. Select(u, K) = IF e \in K THEN Append(Select(v, K), e) ELSE Select(v, K)
      BY <3>1, SelectAppend
    <3>4. QED
      BY <3>2, <3>3, AppendProperties
  <2>2. QED
    BY <2>1
<1>3. Len(s) \in S
  <2> HIDE DEF S
  <2>1. QED
    BY <1>1, <1>2, NatSetInduction
<1>4. Select(s, K) \in Seq(T \cap K)
  BY <1>3
<1>5. Select(s, K) \in Seq(T) /\ Len(Select(s, K)) \in Nat
  BY <1>4, SeqMonotonic
<1>6. QED
  BY <1>4, <1>5

\* Select distributes over joining, by induction over the length of t.
LEMMA SelectConcat ==
  ASSUME NEW T, NEW s \in Seq(T), NEW t \in Seq(T), NEW K
  PROVE  Select(s \o t, K) = Select(s, K) \o Select(t, K)
<1> DEFINE P(u) == Select(s \o u, K) = Select(s, K) \o Select(u, K)
           S == {n \in Nat : \A u \in Seq(T) : Len(u) = n => P(u)}
<1>0. Select(s, K) \in Seq(T)
  BY SelectType
<1>1. 0 \in S
  <2>1. ASSUME NEW u \in Seq(T), Len(u) = 0 PROVE P(u)
    <3>1. u = <<>>
      BY <2>1, EmptySeq
    <3>2. s \o <<>> = s /\ Select(s, K) \o <<>> = Select(s, K)
      BY <1>0, ConcatEmptySeq
    <3>3. QED
      BY <3>1, <3>2, SelectEmpty
  <2>2. QED
    BY <2>1
<1>2. ASSUME NEW n \in Nat, n \in S PROVE n + 1 \in S
  <2>1. ASSUME NEW u \in Seq(T), Len(u) = n + 1 PROVE P(u)
    <3>1. PICK v \in Seq(T), e \in T : u = Append(v, e) /\ Len(v) = n
      BY <2>1, Front
    <3>2. P(v)
      BY <1>2, <3>1
    <3>3. s \o v \in Seq(T) /\ s \o u = Append(s \o v, e)
      BY <3>1, ConcatAppend
    <3>4. Select(v, K) \in Seq(T)
      BY SelectType
    <3>5. Select(s, K) \o Append(Select(v, K), e) = Append(Select(s, K) \o Select(v, K), e)
      BY <1>0, <3>4, ConcatAppend
    <3>6. Select(u, K) = IF e \in K THEN Append(Select(v, K), e) ELSE Select(v, K)
      BY <3>1, SelectAppend
    <3>7. Select(s \o u, K) = IF e \in K THEN Append(Select(s \o v, K), e) ELSE Select(s \o v, K)
      <4> DEFINE w == s \o v
                 x == s \o u
      <4>1. w \in Seq(T) /\ x = Append(w, e)
        BY <3>3
      <4> HIDE DEF w, x
      <4>2. Select(x, K) = IF e \in K THEN Append(Select(w, K), e) ELSE Select(w, K)
        BY <4>1, SelectAppend
      <4>3. QED
        BY <4>2 DEF w, x
    <3>8. QED
      BY <3>2, <3>5, <3>6, <3>7
  <2>2. QED
    BY <2>1
<1>3. Len(t) \in S
  <2> HIDE DEF S
  <2>1. QED
    BY <1>1, <1>2, NatSetInduction
<1>4. QED
  BY <1>3

\* A sequence of elements of K is selected whole, by induction over its length.
LEMMA SelectAll ==
  ASSUME NEW K, NEW s \in Seq(K)
  PROVE  Select(s, K) = s
<1> DEFINE S == {n \in Nat : \A u \in Seq(K) : Len(u) = n => Select(u, K) = u}
<1>1. 0 \in S
  <2>1. ASSUME NEW u \in Seq(K), Len(u) = 0 PROVE Select(u, K) = u
    <3>1. u = <<>>
      BY <2>1, EmptySeq
    <3>2. QED
      BY <3>1, SelectEmpty
  <2>2. QED
    BY <2>1
<1>2. ASSUME NEW n \in Nat, n \in S PROVE n + 1 \in S
  <2>1. ASSUME NEW u \in Seq(K), Len(u) = n + 1 PROVE Select(u, K) = u
    <3>1. PICK v \in Seq(K), e \in K : u = Append(v, e) /\ Len(v) = n
      BY <2>1, Front
    <3>2. Select(v, K) = v
      BY <1>2, <3>1
    <3>3. Select(u, K) = IF e \in K THEN Append(Select(v, K), e) ELSE Select(v, K)
      BY <3>1, SelectAppend
    <3>4. QED
      BY <3>1, <3>2, <3>3
  <2>2. QED
    BY <2>1
<1>3. Len(s) \in S
  <2> HIDE DEF S
  <2>1. QED
    BY <1>1, <1>2, NatSetInduction
<1>4. QED
  BY <1>3

\* A sequence without elements of K leaves nothing.
LEMMA SelectNone ==
  ASSUME NEW T, NEW s \in Seq(T), NEW K, T \cap K = {}
  PROVE  Select(s, K) = <<>>
<1>1. Select(s, K) \in Seq({})
  BY SelectType
<1>2. \A t \in Seq({}) : t = <<>>
  <2>1. ASSUME NEW t \in Seq({}), t # <<>> PROVE FALSE
    <3>1. Head(t) \in {}
      BY <2>1
    <3>2. QED
      BY <3>1
  <2>2. QED
    BY <2>1
<1>3. QED
  BY <1>1, <1>2

-----------------------------------------------------------------------------
(* The entries of the wire.                                                *)

WireEntry == [res : Requests, part : Part]

-----------------------------------------------------------------------------
(* What the actions do, with the strings and buffers left out.             *)

\* The parts of a response as entries of the wire.
LEMMA OfParts ==
  ASSUME NEW r \in Requests, NEW parts \in Seq(Part)
  PROVE  /\ Of(r, parts) \in Seq(WireEntry)
         /\ Len(Of(r, parts)) = Len(parts)
         /\ \A i \in 1 .. Len(parts) : Of(r, parts)[i].res = r
<1>1. Of(r, parts) \in [1 .. Len(parts) -> WireEntry] /\ Len(parts) \in Nat
  BY DEF Of, WireEntry
<1>2. Of(r, parts) \in Seq(WireEntry) /\ Len(Of(r, parts)) = Len(parts)
  <2> DEFINE s == Of(r, parts)
             n == Len(parts)
  <2>1. s \in [1 .. n -> WireEntry] /\ n \in Nat
    BY <1>1
  <2> HIDE DEF s, n
  <2>2. s \in Seq(WireEntry) /\ Len(s) = n
    BY <2>1
  <2>3. QED
    BY <2>2 DEF s, n
<1>3. ASSUME NEW i \in 1 .. Len(parts) PROVE Of(r, parts)[i].res = r
  BY DEF Of
<1>4. QED
  BY <1>2, <1>3

\* What write() and end() of response r do to the output: with the socket, all
\* of parts is written and the output empty; without it, o is kept, and an
\* output that was begun but not written is never empty.
Emitted(r, parts, o) ==
  /\ output' = [output EXCEPT ![r] = o]
  /\ headerSent' = [headerSent EXCEPT ![r] = TRUE]
  /\ \/ /\ httpMessage = r /\ sockWritable
        /\ o = <<>> /\ wire' = wire \o Of(r, parts)
     \/ /\ ~(httpMessage = r /\ sockWritable)
        /\ wire' = wire
        /\ ~headerSent[r] \/ output[r] # <<>> => o # <<>>

AppStep(r, parts, o) ==
  /\ finishing = 0 /\ r <= requests /\ ~finished[r]
  /\ UNCHANGED <<listVars, sockVars>>
  /\ \E l \in BOOLEAN : last' = [last EXCEPT ![r] = l]
  /\ Emitted(r, parts, o)
  /\ \/ finished' = finished /\ finishing' = 0
     \/ /\ finished' = [finished EXCEPT ![r] = TRUE]
        /\ \/ finishing' = 0
           \/ finishing' = r /\ httpMessage = r /\ o = <<>>

\* _writeRaw puts parts of r on the wire or keeps them in its output.
LEMMA WriteRawParts ==
  ASSUME TypeOK, NEW r \in Requests, NEW out \in Seq(Part), NEW parts \in Seq(Part),
         headerSent' = [headerSent EXCEPT ![r] = TRUE],
         ~headerSent[r] \/ output[r] # <<>> => out \o parts # <<>>,
         WriteRaw(r, out, parts)
  PROVE  \E all, o \in Seq(Part) : Emitted(r, all, o)
<1>1. out \o parts \in Seq(Part) /\ <<>> \in Seq(Part)
  OBVIOUS
<1>2. CASE httpMessage = r /\ sockWritable
  <2>1. Emitted(r, out \o parts, <<>>)
    BY <1>2 DEF WriteRaw, Emitted
  <2>2. QED
    BY <1>1, <2>1
<1>3. CASE ~(httpMessage = r /\ sockWritable)
  <2>1. Emitted(r, <<>>, out \o parts)
    BY <1>3 DEF WriteRaw, Emitted
  <2>2. QED
    BY <1>1, <2>1
<1>4. QED
  BY <1>2, <1>3

\* Type and length of a concatenation of three.
LEMMA Concatenated ==
  ASSUME NEW S, NEW a \in Seq(S), NEW b \in Seq(S), NEW c \in Seq(S)
  PROVE  /\ a \o b \in Seq(S)
         /\ Len((a \o b) \o c) = Len(a) + Len(b) + Len(c)
         /\ Len(b \o (a \o c)) = Len(a) + Len(b) + Len(c)
         /\ Len(a) \in Nat /\ Len(b) \in Nat /\ Len(c) \in Nat
  OBVIOUS

\* So does _send, which may put the head in front.
LEMMA SendParts ==
  ASSUME TypeOK, NEW r \in Requests, NEW buffer \in BOOLEAN, NEW parts \in Seq(Part),
         Send(r, buffer, parts)
  PROVE  \E all, o \in Seq(Part) : Emitted(r, all, o)
<1> DEFINE head == IF headerSent[r] THEN <<>> ELSE <<"head">>
<1>1. /\ head \in Seq(Part) /\ output[r] \in Seq(Part)
      /\ ~headerSent[r] => Len(head) = 1
  <2>1. output[r] \in Seq(Part)
    BY DEF TypeOK
  <2>2. CASE headerSent[r]
    BY <2>1, <2>2
  <2>3. CASE ~headerSent[r]
    <3>1. head = <<"head">> /\ "head" \in Part
      BY <2>3 DEF Part
    <3>2. head \in Seq(Part) /\ Len(head) = 1
      BY <3>1
    <3>3. QED
      BY <2>1, <3>2
  <2>4. QED
    BY <2>2, <2>3
<1>2. headerSent' = [headerSent EXCEPT ![r] = TRUE]
  BY DEF Send
<1> HIDE DEF head
<1>3. /\ head \o output[r] \in Seq(Part) /\ head \o parts \in Seq(Part)
      /\ Len((head \o output[r]) \o parts) = Len(head) + Len(output[r]) + Len(parts)
      /\ Len(output[r] \o (head \o parts)) = Len(head) + Len(output[r]) + Len(parts)
      /\ Len(head) \in Nat /\ Len(output[r]) \in Nat /\ Len(parts) \in Nat
  <2> DEFINE out == output[r]
  <2>1. out \in Seq(Part)
    BY <1>1
  <2> HIDE DEF out
  <2>2. head \o out \in Seq(Part) /\ head \o parts \in Seq(Part)
    BY <1>1, <2>1
  <2>3. /\ Len((head \o out) \o parts) = Len(head) + Len(out) + Len(parts)
        /\ Len(out \o (head \o parts)) = Len(head) + Len(out) + Len(parts)
        /\ Len(head) \in Nat /\ Len(out) \in Nat /\ Len(parts) \in Nat
    BY <1>1, <2>1, Concatenated
  <2>4. QED
    BY <2>2, <2>3 DEF out
<1>4. \/ WriteRaw(r, head \o output[r], parts)
      \/ WriteRaw(r, output[r], head \o parts)
  BY DEF Send, head
<1>5. output[r] # <<>> => Len(output[r]) > 0
  BY <1>1
<1>6. ~headerSent[r] \/ output[r] # <<>> =>
        Len(head) + Len(output[r]) + Len(parts) > 0
  BY <1>1, <1>3, <1>5, SMTT(30)
<1>7. ASSUME NEW s \in Seq(Part), Len(s) > 0 PROVE s # <<>>
  BY <1>7
<1>8. CASE WriteRaw(r, head \o output[r], parts)
  <2>1. ~headerSent[r] \/ output[r] # <<>> => (head \o output[r]) \o parts # <<>>
    BY <1>3, <1>6
  <2>2. QED
    BY <1>1, <1>2, <1>3, <1>8, <2>1, WriteRawParts
<1>9. CASE WriteRaw(r, output[r], head \o parts)
  <2>1. ~headerSent[r] \/ output[r] # <<>> => output[r] \o (head \o parts) # <<>>
    BY <1>3, <1>6
  <2>2. QED
    BY <1>1, <1>2, <1>3, <1>9, <2>1, WriteRawParts
<1>10. QED
  BY <1>4, <1>8, <1>9

\* _storeHeader decides of r alone whether it is the last response.
LEMMA StoredLast ==
  ASSUME TypeOK, NEW r \in Requests, StoreHeader(r)
  PROVE  /\ \E l \in BOOLEAN : last' = [last EXCEPT ![r] = l]
         /\ header' \in [Requests -> BOOLEAN] /\ chunked' \in [Requests -> BOOLEAN]
<1>1. header' \in [Requests -> BOOLEAN]
  BY DEF StoreHeader, TypeOK
<1>2. CASE UNCHANGED <<chunked, last>>
  <2>1. last \in [Requests -> BOOLEAN] /\ chunked \in [Requests -> BOOLEAN]
    BY DEF TypeOK
  <2>2. last' = [last EXCEPT ![r] = last[r]] /\ last[r] \in BOOLEAN
    BY <1>2, <2>1
  <2>3. QED
    BY <1>1, <1>2, <2>1, <2>2
<1>3. CASE \E c, l \in BOOLEAN : /\ chunked' = [chunked EXCEPT ![r] = c]
                                 /\ last' = [last EXCEPT ![r] = l]
  BY <1>1, <1>3 DEF TypeOK
<1>4. QED
  BY <1>2, <1>3 DEF StoreHeader

\* write and end of the application, as one kind of step.
LEMMA AppSteps ==
  ASSUME TypeOK, NEW r \in Requests, NEW buffer \in BOOLEAN,
         \/ ResponseWrite(r, buffer)
         \/ \E body \in {<<>>, <<"body">>} : ResponseEnd(r, buffer, body)
  PROVE  /\ \E parts, o \in Seq(Part) : AppStep(r, parts, o)
         /\ header' \in [Requests -> BOOLEAN] /\ chunked' \in [Requests -> BOOLEAN]
         /\ writes' \in Nat
<1>1. CASE ResponseWrite(r, buffer)
  <2>1. <<"body">> \in Seq(Part) /\ Send(r, buffer, <<"body">>)
    BY <1>1 DEF ResponseWrite, Part
  <2>2. PICK parts \in Seq(Part), o \in Seq(Part) : Emitted(r, parts, o)
    BY <2>1, SendParts
  <2>3. AppCall(r) /\ UNCHANGED <<finished, finishing>> /\ writes' \in Nat
    BY <1>1 DEF ResponseWrite, TypeOK
  <2>4. /\ \E l \in BOOLEAN : last' = [last EXCEPT ![r] = l]
        /\ header' \in [Requests -> BOOLEAN] /\ chunked' \in [Requests -> BOOLEAN]
    BY <2>3, StoredLast DEF AppCall
  <2>5. AppStep(r, parts, o)
    BY <2>2, <2>3, <2>4 DEF AppCall, AppStep
  <2>6. QED
    BY <2>3, <2>4, <2>5
<1>2. ASSUME NEW body \in {<<>>, <<"body">>}, ResponseEnd(r, buffer, body)
      PROVE  /\ \E parts, o \in Seq(Part) : AppStep(r, parts, o)
             /\ header' \in [Requests -> BOOLEAN] /\ chunked' \in [Requests -> BOOLEAN]
             /\ writes' \in Nat
  <2> DEFINE all == body \o (IF chunked'[r] THEN <<"tail">> ELSE <<>>)
  <2>1. all \in Seq(Part) /\ Send(r, buffer, all)
    <3>1. <<>> \in Seq(Part) /\ <<"body">> \in Seq(Part) /\ <<"tail">> \in Seq(Part)
      BY DEF Part
    <3>2. body \in Seq(Part)
      BY <3>1
    <3>3. all \in Seq(Part)
      BY <3>1, <3>2, Concatenated
    <3>4. QED
      BY <1>2, <3>3 DEF ResponseEnd
  <2>2. PICK parts \in Seq(Part), o \in Seq(Part) : Emitted(r, parts, o)
    BY <2>1, SendParts
  <2>3. AppCall(r) /\ writes' \in Nat /\ finished' = [finished EXCEPT ![r] = TRUE]
    BY <1>2 DEF ResponseEnd, TypeOK
  <2>4. /\ \E l \in BOOLEAN : last' = [last EXCEPT ![r] = l]
        /\ header' \in [Requests -> BOOLEAN] /\ chunked' \in [Requests -> BOOLEAN]
    BY <2>3, StoredLast DEF AppCall
  <2>5. output'[r] = o
    BY <2>2 DEF Emitted, TypeOK
  <2>6. finishing' = 0 \/ (finishing' = r /\ httpMessage = r /\ o = <<>>)
    BY <1>2, <2>5 DEF ResponseEnd
  <2>7. AppStep(r, parts, o)
    BY <2>2, <2>3, <2>4, <2>6 DEF AppCall, AppStep
  <2>8. QED
    BY <2>3, <2>4, <2>7
<1>3. QED
  BY <1>1, <1>2

-----------------------------------------------------------------------------
(* Types.                                                                  *)

\* Sequences stay sequences under the operations of the module.
LEMMA SequenceFacts ==
  ASSUME NEW S
  PROVE  /\ <<>> \in Seq(S)
         /\ \A s \in Seq(S), x \in S : Append(s, x) \in Seq(S)
         /\ \A s \in Seq(S) : s # <<>> => Tail(s) \in Seq(S) /\ Head(s) \in S
         /\ \A s, t \in Seq(S) : s \o t \in Seq(S)
  OBVIOUS

\* The initial state is type-correct.
LEMMA TypeInit == Init => TypeOK
<1> SUFFICES ASSUME Init PROVE TypeOK
  OBVIOUS
<1>1. incoming \in Seq(Requests) /\ outgoing \in Seq(Requests) /\ wire \in Seq(WireEntry)
  BY SequenceFacts DEF Init
<1>2. output \in [Requests -> Seq(Part)]
  BY SequenceFacts DEF Init
<1>3. /\ header \in [Requests -> BOOLEAN] /\ headerSent \in [Requests -> BOOLEAN]
      /\ chunked \in [Requests -> BOOLEAN] /\ last \in [Requests -> BOOLEAN]
      /\ finished \in [Requests -> BOOLEAN]
  BY DEF Init
<1>4. /\ requests \in 0 .. MaxRequests /\ httpMessage \in 0 .. MaxRequests
      /\ finishing \in 0 .. MaxRequests /\ writes \in Nat
  BY PipelineAssumption DEF Init
<1>5. sockWritable \in BOOLEAN /\ sockClosed \in BOOLEAN
  BY DEF Init
<1>6. QED
  BY <1>1, <1>2, <1>3, <1>4, <1>5 DEF TypeOK, WireEntry

\* What a step does to wire: it adds parts of one response, perhaps none.
LEMMA WireGrows ==
  ASSUME TypeOK, NEW r \in Requests, NEW parts \in Seq(Part)
  PROVE  wire \o Of(r, parts) \in Seq(WireEntry)
<1>1. wire \in Seq(WireEntry)
  BY DEF TypeOK, WireEntry
<1>2. Of(r, parts) \in Seq(WireEntry)
  BY OfParts
<1>3. QED
  BY <1>1, <1>2, SequenceFacts

\* A step of the application keeps the types.
LEMMA AppType ==
  ASSUME TypeOK, NEW r \in Requests, NEW parts \in Seq(Part), NEW o \in Seq(Part),
         AppStep(r, parts, o),
         header' \in [Requests -> BOOLEAN], chunked' \in [Requests -> BOOLEAN],
         writes' \in Nat
  PROVE  TypeOK'
<1>1. /\ requests' \in 0 .. MaxRequests /\ incoming' \in Seq(Requests)
      /\ outgoing' \in Seq(Requests) /\ httpMessage' \in 0 .. MaxRequests
      /\ sockWritable' \in BOOLEAN /\ sockClosed' \in BOOLEAN
  BY DEF AppStep, TypeOK, listVars, sockVars
<1>2. finishing' \in 0 .. MaxRequests
  BY PipelineAssumption DEF AppStep, TypeOK, Requests
<1>3. last' \in [Requests -> BOOLEAN] /\ headerSent' \in [Requests -> BOOLEAN]
  BY DEF AppStep, Emitted, TypeOK
<1>4. finished' \in [Requests -> BOOLEAN]
  BY DEF AppStep, TypeOK
<1>5. output' \in [Requests -> Seq(Part)]
  BY DEF AppStep, Emitted, TypeOK
<1>6. wire' \in Seq(WireEntry)
  <2>1. wire' = wire \/ wire' = wire \o Of(r, parts)
    BY DEF AppStep, Emitted
  <2>2. wire \in Seq(WireEntry) /\ wire \o Of(r, parts) \in Seq(WireEntry)
    BY WireGrows DEF TypeOK, WireEntry
  <2>3. QED
    BY <2>1, <2>2
<1>7. QED
  BY <1>1, <1>2, <1>3, <1>4, <1>5, <1>6 DEF TypeOK, WireEntry

\* So does a request that arrives.
LEMMA OnIncomingType ==
  ASSUME TypeOK, NEW expect, OnIncoming(expect)
  PROVE  TypeOK'
<1> DEFINE r == requests + 1
<1>1. r \in Requests /\ requests' = r
  BY PipelineAssumption DEF OnIncoming, TypeOK, Requests
<1>2. requests' \in 0 .. MaxRequests /\ httpMessage' \in 0 .. MaxRequests
  BY <1>1 DEF OnIncoming, TypeOK, Requests
<1>3. incoming' \in Seq(Requests) /\ outgoing' \in Seq(Requests)
  <2>1. incoming' = Append(incoming, r)
    BY DEF OnIncoming
  <2>2. outgoing' = outgoing \/ outgoing' = Append(outgoing, r)
    BY DEF OnIncoming
  <2>3. incoming \in Seq(Requests) /\ outgoing \in Seq(Requests)
    BY DEF TypeOK
  <2>4. QED
    BY <1>1, <2>1, <2>2, <2>3, SequenceFacts
<1>4. wire' \in Seq(WireEntry) /\ output' \in [Requests -> Seq(Part)]
  <2>1. <<"100">> \in Seq(Part)
    BY DEF Part
  <2>2. wire' = wire \/ wire' = wire \o Of(r, <<"100">>)
    BY DEF OnIncoming
  <2>3. output' = output \/ output' = [output EXCEPT ![r] = <<"100">>]
    BY DEF OnIncoming
  <2>4. wire' \in Seq(WireEntry)
    BY <1>1, <2>1, <2>2, WireGrows DEF TypeOK, WireEntry
  <2>5. output' \in [Requests -> Seq(Part)]
    BY <2>1, <2>3 DEF TypeOK
  <2>6. QED
    BY <2>4, <2>5
<1>5. UNCHANGED <<finishing, headVars, finished, sockVars, writes>>
  BY DEF OnIncoming
<1>6. QED
  BY <1>2, <1>3, <1>4, <1>5 DEF TypeOK, WireEntry, headVars, sockVars

\* The three branches of the 'finish' listener.
FinishLast ==
  /\ last[finishing] /\ sockWritable' = FALSE
  /\ httpMessage' = 0 /\ finishing' = 0
  /\ UNCHANGED <<outgoing, wire, output>>
FinishIdle ==
  /\ ~last[finishing] /\ outgoing = <<>>
  /\ httpMessage' = 0 /\ finishing' = 0
  /\ UNCHANGED <<outgoing, wire, output, sockWritable>>
\* The next response, m, gets the socket and, when flushed, has its output
\* written.
FinishNext(m) ==
  /\ ~last[finishing] /\ outgoing # <<>> /\ m = Head(outgoing)
  /\ outgoing' = Tail(outgoing) /\ httpMessage' = m
  /\ sockWritable' = sockWritable
  /\ \/ /\ sockWritable \/ output[m] = <<>>
        /\ wire' = wire \o Of(m, output[m])
        /\ output' = [output EXCEPT ![m] = <<>>]
        /\ finishing' = 0 \/ (finishing' = m /\ finished[m])
     \/ /\ ~sockWritable
        /\ UNCHANGED <<wire, output>> /\ finishing' = 0

\* The listener of 'finish' ends the connection, waits, or takes the next
\* response.
LEMMA FinishSteps ==
  ASSUME TypeOK, Finish
  PROVE  /\ finishing # 0
         /\ incoming' = IF incoming = <<>> THEN <<>> ELSE Tail(incoming)
         /\ UNCHANGED <<requests, headVars, finished, sockClosed, writes>>
         /\ FinishLast \/ FinishIdle \/ \E m \in Requests : FinishNext(m)
<1>1. /\ finishing # 0
      /\ incoming' = IF incoming = <<>> THEN <<>> ELSE Tail(incoming)
      /\ UNCHANGED <<requests, headVars, finished, sockClosed, writes>>
  BY DEF Finish
<1>2. CASE last[finishing]
  BY <1>1, <1>2 DEF Finish, FinishLast
<1>3. CASE ~last[finishing] /\ outgoing = <<>>
  BY <1>1, <1>3 DEF Finish, FinishIdle
<1>4. CASE ~last[finishing] /\ outgoing # <<>>
  <2> DEFINE m == Head(outgoing)
             flushed == sockWritable \/ output[m] = <<>>
  <2>1. m \in Requests
    BY <1>4 DEF TypeOK
  <2>2. /\ outgoing' = Tail(outgoing) /\ httpMessage' = m
        /\ wire' = IF flushed THEN wire \o Of(m, output[m]) ELSE wire
        /\ output' = IF flushed THEN [output EXCEPT ![m] = <<>>] ELSE output
        /\ finishing' = IF flushed /\ finished[m] THEN m ELSE 0
        /\ sockWritable' = sockWritable
    BY <1>4 DEF Finish
  <2>3. FinishNext(m)
    <3>1. CASE flushed
      BY <1>4, <2>2, <3>1 DEF FinishNext
    <3>2. CASE ~flushed
      BY <1>4, <2>2, <3>2 DEF FinishNext
    <3>3. QED
      BY <3>1, <3>2
  <2>4. QED
    BY <1>1, <2>1, <2>3
<1>5. QED
  BY <1>2, <1>3, <1>4

\* The listener of 'finish' keeps the types.
LEMMA FinishType ==
  ASSUME TypeOK, Finish
  PROVE  TypeOK'
<1>1. requests' = requests /\ finished' = finished /\ sockClosed' = sockClosed
      /\ writes' = writes /\ UNCHANGED headVars
  BY FinishSteps
<1>2. incoming' \in Seq(Requests)
  <2>1. CASE incoming = <<>>
    BY <2>1, FinishSteps DEF TypeOK
  <2>2. CASE incoming # <<>>
    <3>1. incoming' = Tail(incoming) /\ incoming \in Seq(Requests)
      BY <2>2, FinishSteps DEF TypeOK
    <3>2. QED
      BY <2>2, <3>1, SequenceFacts
  <2>3. QED
    BY <2>1, <2>2
<1>3. CASE FinishLast
  <2>1. /\ httpMessage' \in 0 .. MaxRequests /\ finishing' \in 0 .. MaxRequests
        /\ sockWritable' \in BOOLEAN /\ UNCHANGED <<outgoing, wire, output>>
    <3>1. /\ httpMessage' = 0 /\ finishing' = 0 /\ sockWritable' = FALSE
          /\ UNCHANGED <<outgoing, wire, output>>
      BY <1>3 DEF FinishLast
    <3>2. 0 \in 0 .. MaxRequests
      BY PipelineAssumption
    <3>3. QED
      BY <3>1, <3>2
  <2>2. QED
    BY <1>1, <1>2, <2>1 DEF TypeOK, headVars
<1>4. CASE FinishIdle
  BY <1>1, <1>2, <1>4, PipelineAssumption DEF FinishIdle, TypeOK, headVars
<1>5. ASSUME NEW m \in Requests, FinishNext(m) PROVE TypeOK'
  <2>1. outgoing' \in Seq(Requests) /\ httpMessage' \in 0 .. MaxRequests
    BY <1>5, PipelineAssumption DEF FinishNext, TypeOK, Requests
  <2>2. finishing' \in 0 .. MaxRequests
    BY <1>5, PipelineAssumption DEF FinishNext, Requests
  <2>3. output[m] \in Seq(Part)
    BY DEF TypeOK
  <2>4. wire' \in Seq(WireEntry)
    <3>1. wire' = wire \/ wire' = wire \o Of(m, output[m])
      BY <1>5 DEF FinishNext
    <3>2. QED
      BY <2>3, <3>1, WireGrows DEF TypeOK, WireEntry
  <2>5. output' \in [Requests -> Seq(Part)]
    <3>1. output' = output \/ output' = [output EXCEPT ![m] = <<>>]
      BY <1>5 DEF FinishNext
    <3>2. output \in [Requests -> Seq(Part)] /\ <<>> \in Seq(Part)
      BY SequenceFacts DEF TypeOK
    <3>3. QED
      BY <3>1, <3>2
  <2>6. sockWritable' = sockWritable
    BY <1>5 DEF FinishNext
  <2>7. QED
    BY <1>1, <1>2, <2>1, <2>2, <2>4, <2>5, <2>6 DEF TypeOK, WireEntry, headVars
<1>6. QED
  BY <1>3, <1>4, <1>5, FinishSteps

\* So does the close of the socket.
LEMMA SocketCloseType ==
  ASSUME TypeOK, SocketClose
  PROVE  TypeOK'
<1>1. incoming' \in Seq(Requests) /\ sockWritable' \in BOOLEAN /\ sockClosed' \in BOOLEAN
  BY SequenceFacts DEF SocketClose
<1>2. UNCHANGED <<requests, outgoing, httpMessage, finishing, headVars, finished,
                  output, wire, writes>>
  BY DEF SocketClose
<1>3. QED
  BY <1>1, <1>2 DEF TypeOK, headVars

\* Every step keeps the types.
LEMMA TypeStep == TypeOK /\ [Next]_vars => TypeOK'
<1> SUFFICES ASSUME TypeOK, [Next]_vars PROVE TypeOK'
  OBVIOUS
<1>1. CASE UNCHANGED vars
  BY <1>1 DEF vars, listVars, headVars, sockVars, TypeOK
<1>2. ASSUME NEW r \in Requests, NEW buffer \in BOOLEAN,
             \/ ResponseWrite(r, buffer)
             \/ \E body \in {<<>>, <<"body">>} : ResponseEnd(r, buffer, body)
      PROVE  TypeOK'
  BY <1>2, AppSteps, AppType
<1>3. CASE \E expect \in {FALSE, Expect} : OnIncoming(expect)
  BY <1>3, OnIncomingType
<1>4. QED
  BY <1>1, <1>2, <1>3, FinishType, SocketCloseType DEF Next

\* Every reachable state is type-correct (HttpPipeline: TypeOK).
THEOREM PipelineTypeCorrect == Spec => []TypeOK
  BY TypeInit, TypeStep, PTL DEF Spec

-----------------------------------------------------------------------------
(* The two lists.                                                          *)

\* While the socket is writable, incoming and outgoing are what is left of the
\* requests, from the one whose response has the socket.
Queued ==
  /\ httpMessage <= requests
  /\ Len(incoming) = requests - httpMessage + 1
  /\ \A i \in 1 .. Len(incoming) : incoming[i] = httpMessage + i - 1
  /\ Len(outgoing) = requests - httpMessage
  /\ \A i \in 1 .. Len(outgoing) : outgoing[i] = httpMessage + i

QueueInv ==
  sockWritable => \/ httpMessage = 0 /\ incoming = <<>> /\ outgoing = <<>>
                  \/ httpMessage # 0 /\ Queued

ClosedInv == sockClosed => incoming = <<>> /\ ~sockWritable

\* After the last response the socket is not writable: a later response may
\* still be given the socket, but what it produces stays in its output, so it
\* does not finish.
StuckInv ==
  ~sockWritable /\ ~sockClosed =>
    /\ finishing = 0
    /\ httpMessage # 0 /\ headerSent[httpMessage] => output[httpMessage] # <<>>

FreshInv == \A r \in Requests : r > requests => ~headerSent[r] /\ ~last[r]

FinishingInv ==
  finishing # 0 =>
    finishing = httpMessage /\ finished[finishing] /\ output[finishing] = <<>>

ListsInv == QueueInv /\ ClosedInv /\ StuckInv /\ FreshInv /\ FinishingInv

\* The lists are consecutive in the initial state.
LEMMA ListsInit == Init => ListsInv
  BY DEF Init, ListsInv, QueueInv, ClosedInv, StuckInv, FreshInv, FinishingInv

\* Consecutive lists make the oldest request the one that finishes.
LEMMA ListsImply == ListsInv /\ TypeOK => FinishesOldestRequest
<1> SUFFICES ASSUME ListsInv, TypeOK, finishing # 0, incoming # <<>>
             PROVE  Head(incoming) = finishing
  BY DEF FinishesOldestRequest
<1>1. ~sockClosed /\ sockWritable
  BY DEF ListsInv, ClosedInv, StuckInv
<1>2. finishing = httpMessage /\ Queued
  BY <1>1 DEF ListsInv, FinishingInv, QueueInv
<1>3. incoming \in Seq(Requests) /\ 1 \in 1 .. Len(incoming) /\ httpMessage \in Nat
  BY DEF TypeOK
<1>4. Head(incoming) = incoming[1] /\ incoming[1] = httpMessage
  BY <1>2, <1>3 DEF Queued
<1>5. QED
  BY <1>2, <1>4

\* A step of the application leaves the lists consecutive.
LEMMA AppLists ==
  ASSUME TypeOK, ListsInv, NEW r \in Requests, NEW parts \in Seq(Part),
         NEW o \in Seq(Part), AppStep(r, parts, o)
  PROVE  ListsInv'
<1>1. UNCHANGED <<requests, incoming, outgoing, httpMessage, sockWritable, sockClosed>>
  BY DEF AppStep, listVars, sockVars
<1>2. QueueInv'
  BY <1>1 DEF ListsInv, QueueInv, Queued
<1>3. ClosedInv'
  BY <1>1 DEF ListsInv, ClosedInv
<1>4. /\ output' = [output EXCEPT ![r] = o]
      /\ headerSent' = [headerSent EXCEPT ![r] = TRUE]
      /\ output \in [Requests -> Seq(Part)] /\ headerSent \in [Requests -> BOOLEAN]
      /\ output'[r] = o
  BY DEF AppStep, Emitted, TypeOK
<1>5. StuckInv'
  <2> SUFFICES ASSUME ~sockWritable, ~sockClosed
               PROVE  /\ finishing' = 0
                      /\ httpMessage # 0 /\ headerSent'[httpMessage] => output'[httpMessage] # <<>>
    BY <1>1 DEF StuckInv
  <2>1. httpMessage # 0 /\ headerSent[httpMessage] => output[httpMessage] # <<>>
    BY DEF ListsInv, StuckInv
  <2>2. CASE httpMessage = r
    <3>1. o # <<>>
      BY <2>1, <2>2 DEF AppStep, Emitted, Requests
    <3>2. finishing' = 0
      BY <3>1 DEF AppStep
    <3>3. QED
      BY <1>4, <2>2, <3>1, <3>2
  <2>3. CASE httpMessage # r
    <3>1. finishing' = 0
      BY <2>3 DEF AppStep
    <3>2. httpMessage # 0 => httpMessage \in Requests
      BY DEF TypeOK, Requests
    <3>3. httpMessage # 0 => /\ output'[httpMessage] = output[httpMessage]
                             /\ headerSent'[httpMessage] = headerSent[httpMessage]
      BY <1>4, <2>3, <3>2
    <3>4. QED
      BY <2>1, <3>1, <3>3
  <2>4. QED
    BY <2>2, <2>3
<1>6. FreshInv'
  <2> SUFFICES ASSUME NEW q \in Requests, q > requests PROVE ~headerSent'[q] /\ ~last'[q]
    BY <1>1 DEF FreshInv
  <2>1. ~headerSent[q] /\ ~last[q] /\ q # r
    BY DEF ListsInv, FreshInv, AppStep, TypeOK, Requests
  <2>2. headerSent'[q] = headerSent[q]
    BY <1>4, <2>1
  <2>3. last'[q] = last[q]
    BY <2>1 DEF AppStep, TypeOK
  <2>4. QED
    BY <2>1, <2>2, <2>3
<1>7. FinishingInv'
  <2>1. CASE finishing' = 0
    BY <2>1 DEF FinishingInv
  <2>2. CASE /\ finishing' = r /\ httpMessage = r /\ o = <<>>
             /\ finished' = [finished EXCEPT ![r] = TRUE]
    <3>1. finished'[r]
      BY <2>2 DEF TypeOK
    <3>2. QED
      BY <1>1, <1>4, <2>2, <3>1 DEF FinishingInv
  <2>3. QED
    BY <2>1, <2>2 DEF AppStep
<1>8. QED
  BY <1>2, <1>3, <1>5, <1>6, <1>7 DEF ListsInv

\* A request that arrives is the youngest of both lists.
LEMMA OnIncomingLists ==
  ASSUME TypeOK, ListsInv, NEW expect, OnIncoming(expect)
  PROVE  ListsInv'
<1> DEFINE r == requests + 1
<1>1. /\ r \in Requests /\ requests' = r /\ incoming' = Append(incoming, r)
      /\ finishing = 0 /\ ~sockClosed
      /\ UNCHANGED <<finishing, headVars, finished, sockVars>>
  BY PipelineAssumption DEF OnIncoming, TypeOK, Requests
<1>2. \/ httpMessage # 0 /\ outgoing' = Append(outgoing, r) /\ httpMessage' = httpMessage
      \/ httpMessage = 0 /\ httpMessage' = r /\ outgoing' = outgoing
  BY DEF OnIncoming
<1>3. /\ requests \in Nat /\ httpMessage \in Nat
      /\ incoming \in Seq(Requests) /\ outgoing \in Seq(Requests)
  BY DEF TypeOK
<1>4. QueueInv'
  <2> SUFFICES ASSUME sockWritable PROVE httpMessage' # 0 /\ Queued'
    BY <1>1 DEF QueueInv, sockVars
  <2>1. CASE httpMessage # 0
    <3>1. Queued /\ httpMessage' = httpMessage /\ outgoing' = Append(outgoing, r)
      BY <1>2, <2>1 DEF ListsInv, QueueInv
    <3>2. /\ Len(incoming') = Len(incoming) + 1 /\ incoming'[Len(incoming) + 1] = r
          /\ \A i \in 1 .. Len(incoming) : incoming'[i] = incoming[i]
          /\ Len(incoming) \in Nat
      BY <1>1, <1>3
    <3>3. /\ Len(outgoing') = Len(outgoing) + 1 /\ outgoing'[Len(outgoing) + 1] = r
          /\ \A i \in 1 .. Len(outgoing) : outgoing'[i] = outgoing[i]
          /\ Len(outgoing) \in Nat
      BY <1>1, <1>3, <3>1
    <3>4. ASSUME NEW i \in 1 .. Len(incoming') PROVE incoming'[i] = httpMessage + i - 1
      <4>1. CASE i = Len(incoming) + 1
        BY <1>3, <3>1, <3>2, <4>1 DEF Queued
      <4>2. CASE i \in 1 .. Len(incoming)
        BY <1>3, <3>1, <3>2, <4>2 DEF Queued
      <4>3. QED
        BY <3>2, <4>1, <4>2
    <3>5. \A i \in 1 .. Len(outgoing') : outgoing'[i] = httpMessage + i
      BY <1>3, <3>1, <3>3 DEF Queued
    <3>6. QED
      BY <1>1, <1>3, <2>1, <3>1, <3>2, <3>3, <3>4, <3>5, SMTT(30) DEF Queued
  <2>2. CASE httpMessage = 0
    <3>1. incoming = <<>> /\ outgoing = <<>> /\ httpMessage' = r
      BY <1>2, <2>2 DEF ListsInv, QueueInv, Queued
    <3>2. incoming' = <<r>> /\ outgoing' = <<>>
      BY <1>1, <1>2, <2>2, <3>1
    <3>3. /\ Len(incoming') = 1 /\ incoming'[1] = r /\ Len(outgoing') = 0
      BY <3>2
    <3>4. QED
      BY <1>1, <1>3, <3>1, <3>3 DEF Queued
  <2>3. QED
    BY <2>1, <2>2
<1>5. ClosedInv'
  BY <1>1 DEF ClosedInv, sockVars
<1>6. StuckInv'
  <2> SUFFICES ASSUME ~sockWritable, httpMessage' # 0, headerSent[httpMessage']
               PROVE  output'[httpMessage'] # <<>>
    BY <1>1 DEF StuckInv, sockVars, headVars
  <2>1. ~headerSent[r]
    BY <1>1, <1>3 DEF ListsInv, FreshInv
  <2>2. httpMessage' = httpMessage /\ httpMessage # 0 /\ httpMessage # r
    BY <1>2, <2>1
  <2>3. output'[httpMessage] = output[httpMessage]
    <3>1. output' = output \/ output' = [output EXCEPT ![r] = <<"100">>]
      BY DEF OnIncoming
    <3>2. httpMessage \in Requests /\ output \in [Requests -> Seq(Part)]
      BY <2>2 DEF TypeOK, Requests
    <3>3. QED
      BY <2>2, <3>1, <3>2
  <2>4. output[httpMessage] # <<>>
    BY <1>1, <2>2 DEF ListsInv, StuckInv
  <2>5. QED
    BY <2>2, <2>3, <2>4
<1>7. FreshInv'
  BY <1>1, <1>3 DEF ListsInv, FreshInv, headVars, Requests
<1>8. FinishingInv'
  BY <1>1 DEF FinishingInv
<1>9. QED
  BY <1>4, <1>5, <1>6, <1>7, <1>8 DEF ListsInv

\* The listener of 'finish' takes the oldest from both.
LEMMA FinishLists ==
  ASSUME TypeOK, ListsInv, Finish
  PROVE  ListsInv'
<1> DEFINE f == finishing
<1>1. /\ f # 0 /\ f = httpMessage /\ f \in Requests
      /\ incoming' = IF incoming = <<>> THEN <<>> ELSE Tail(incoming)
      /\ UNCHANGED <<requests, headVars, finished, sockClosed>>
  BY FinishSteps, SMTT(30) DEF ListsInv, FinishingInv, TypeOK, Requests
<1>2. ~sockWritable => sockClosed
  BY <1>1 DEF ListsInv, StuckInv
<1>3. sockWritable => Queued
  BY <1>1 DEF ListsInv, QueueInv
<1>4. /\ requests \in Nat /\ httpMessage \in Nat
      /\ incoming \in Seq(Requests) /\ outgoing \in Seq(Requests)
  BY DEF TypeOK
<1>5. sockWritable => incoming # <<>> /\ incoming' = Tail(incoming)
  BY <1>1, <1>3, <1>4 DEF Queued
<1>6. ClosedInv'
  <2>1. sockClosed => incoming' = <<>> /\ ~sockWritable
    BY <1>1 DEF ListsInv, ClosedInv
  <2>2. sockWritable' => sockWritable
    BY FinishSteps DEF FinishLast, FinishIdle, FinishNext
  <2>3. QED
    BY <1>1, <2>1, <2>2 DEF ClosedInv
<1>7. FreshInv'
  BY <1>1 DEF ListsInv, FreshInv, headVars
<1>8. CASE FinishLast
  <2>1. sockWritable' = FALSE /\ httpMessage' = 0 /\ finishing' = 0
    BY <1>8 DEF FinishLast
  <2>2. QueueInv'
    BY <2>1 DEF QueueInv
  <2>3. StuckInv'
    BY <2>1 DEF StuckInv
  <2>4. FinishingInv'
    BY <2>1 DEF FinishingInv
  <2>5. QED
    BY <1>6, <1>7, <2>2, <2>3, <2>4 DEF ListsInv
<1>9. CASE FinishIdle
  <2>1. /\ sockWritable' = sockWritable /\ httpMessage' = 0 /\ finishing' = 0
        /\ outgoing = <<>> /\ outgoing' = <<>>
    BY <1>9 DEF FinishIdle
  <2>2. QueueInv'
    <3> SUFFICES ASSUME sockWritable PROVE incoming' = <<>>
      BY <2>1 DEF QueueInv
    <3>1. Len(incoming) = 1
      <4>1. Len(outgoing) = 0
        BY <2>1
      <4>2. Len(incoming) = requests - httpMessage + 1 /\ Len(outgoing) = requests - httpMessage
        BY <1>3 DEF Queued
      <4>3. QED
        BY <1>4, <4>1, <4>2
    <3>2. QED
      BY <1>4, <1>5, <3>1
  <2>3. StuckInv'
    BY <2>1 DEF StuckInv
  <2>4. FinishingInv'
    BY <2>1 DEF FinishingInv
  <2>5. QED
    BY <1>6, <1>7, <2>2, <2>3, <2>4 DEF ListsInv
<1>10. ASSUME NEW m \in Requests, FinishNext(m) PROVE ListsInv'
  <2>1. /\ sockWritable' = sockWritable /\ httpMessage' = m /\ m = Head(outgoing)
        /\ outgoing # <<>> /\ outgoing' = Tail(outgoing) /\ m # 0
    BY <1>10 DEF FinishNext, Requests
  <2>2. QueueInv'
    <3> SUFFICES ASSUME sockWritable PROVE Queued'
      BY <2>1 DEF QueueInv
    <3>1. /\ Len(incoming') = Len(incoming) - 1 /\ Len(incoming) \in Nat
          /\ \A i \in 1 .. Len(incoming') : incoming'[i] = incoming[i + 1]
      BY <1>4, <1>5
    <3>2. /\ Len(outgoing') = Len(outgoing) - 1 /\ Len(outgoing) \in Nat
          /\ \A i \in 1 .. Len(outgoing') : outgoing'[i] = outgoing[i + 1]
          /\ 1 \in 1 .. Len(outgoing) /\ m = outgoing[1]
      BY <1>4, <2>1
    <3>3. m = httpMessage + 1 /\ m <= requests
      BY <1>3, <1>4, <3>2 DEF Queued
    <3>4. ASSUME NEW i \in 1 .. Len(incoming') PROVE incoming'[i] = m + i - 1
      <4>1. i + 1 \in 1 .. Len(incoming)
        BY <3>1
      <4>2. incoming[i + 1] = httpMessage + (i + 1) - 1
        BY <1>3, <4>1 DEF Queued
      <4>3. QED
        BY <1>4, <3>1, <3>3, <4>2
    <3>5. ASSUME NEW i \in 1 .. Len(outgoing') PROVE outgoing'[i] = m + i
      <4>1. i + 1 \in 1 .. Len(outgoing)
        BY <3>2
      <4>2. outgoing[i + 1] = httpMessage + (i + 1)
        BY <1>3, <4>1 DEF Queued
      <4>3. QED
        BY <1>4, <3>2, <3>3, <4>2
    <3>6. Len(incoming') = requests - m + 1 /\ Len(outgoing') = requests - m
      <4>1. Len(incoming) = requests - httpMessage + 1 /\ Len(outgoing) = requests - httpMessage
        BY <1>3 DEF Queued
      <4>2. QED
        BY <1>4, <3>1, <3>2, <3>3, <4>1
    <3>7. requests' = requests /\ httpMessage' = m
      BY <1>1, <2>1
    <3>8. QED
      BY <3>3, <3>4, <3>5, <3>6, <3>7 DEF Queued
  <2>3. StuckInv'
    BY <1>1, <1>2, <2>1 DEF StuckInv
  <2>4. FinishingInv'
    <3>1. CASE finishing' = 0
      BY <3>1 DEF FinishingInv
    <3>2. CASE finishing' = m /\ finished[m] /\ output' = [output EXCEPT ![m] = <<>>]
      <4>1. output'[m] = <<>>
        BY <3>2 DEF TypeOK
      <4>2. QED
        BY <1>1, <2>1, <3>2, <4>1 DEF FinishingInv
    <3>3. QED
      BY <1>10, <3>1, <3>2 DEF FinishNext
  <2>5. QED
    BY <1>6, <1>7, <2>2, <2>3, <2>4 DEF ListsInv
<1>11. QED
  BY <1>8, <1>9, <1>10, FinishSteps

\* Every step leaves the lists consecutive.
LEMMA ListsStep == TypeOK /\ ListsInv /\ [Next]_vars => ListsInv'
<1> SUFFICES ASSUME TypeOK, ListsInv, [Next]_vars PROVE ListsInv'
  OBVIOUS
<1>1. CASE UNCHANGED vars
  BY <1>1 DEF vars, listVars, headVars, sockVars, ListsInv, QueueInv, Queued,
              ClosedInv, StuckInv, FreshInv, FinishingInv
<1>2. ASSUME NEW r \in Requests, NEW buffer \in BOOLEAN,
             \/ ResponseWrite(r, buffer)
             \/ \E body \in {<<>>, <<"body">>} : ResponseEnd(r, buffer, body)
      PROVE  ListsInv'
  BY <1>2, AppSteps, AppLists
<1>3. CASE \E expect \in {FALSE, Expect} : OnIncoming(expect)
  BY <1>3, OnIncomingLists
<1>4. CASE SocketClose
  <2>1. /\ finishing' = 0 /\ sockClosed' = TRUE /\ sockWritable' = FALSE
        /\ incoming' = <<>> /\ UNCHANGED <<requests, headVars>>
    BY <1>4 DEF SocketClose
  <2>2. QED
    BY <2>1 DEF ListsInv, QueueInv, ClosedInv, StuckInv, FreshInv, FinishingInv,
                headVars
<1>5. QED
  BY <1>1, <1>2, <1>3, <1>4, FinishLists DEF Next

\* http2.js:1419 never fails: the response that finishes answers the oldest
\* request not answered, unless abortIncoming() has emptied the list.
THEOREM OldestFinishesFirst == Spec => []FinishesOldestRequest
  BY ListsInit, ListsStep, ListsImply, PipelineTypeCorrect, PTL DEF Spec

-----------------------------------------------------------------------------
(* The wire.                                                               *)

Done(r) == finished[r] /\ output[r] = <<>>

\* Everything on the wire belongs to the response that has the socket or to
\* one before it, which is done.
BehindInv ==
  /\ \A i \in 1 .. Len(wire) : wire[i].res <= requests
  /\ sockWritable => \A i \in 1 .. Len(wire) :
       \/ wire[i].res = httpMessage
       \/ Done(wire[i].res) /\ (httpMessage # 0 => wire[i].res < httpMessage)

\* Only the response that has the socket writes, while the socket is writable.
Writing(r) ==
  /\ httpMessage' = r /\ r <= requests'
  /\ sockWritable /\ sockWritable'
  /\ \E parts \in Seq(Part) : wire' = wire \o Of(r, parts)

\* No parts change nothing on the wire.
LEMMA NothingWritten ==
  ASSUME TypeOK, NEW r \in Requests, NEW parts \in Seq(Part), parts = <<>>
  PROVE  wire \o Of(r, parts) = wire
<1>1. Of(r, parts) \in Seq(WireEntry) /\ Len(Of(r, parts)) = 0
  BY OfParts
<1>2. Of(r, parts) = <<>>
  BY <1>1
<1>3. wire \in Seq(WireEntry)
  BY DEF TypeOK, WireEntry
<1>4. QED
  BY <1>2, <1>3

\* What is on the wire stays, and what is new is the writer's.
LEMMA WrittenParts ==
  ASSUME TypeOK, NEW r \in Requests, Writing(r)
  PROVE  /\ Len(wire) \in Nat /\ Len(wire') \in Nat /\ Len(wire) <= Len(wire')
         /\ \A i \in 1 .. Len(wire) : wire'[i] = wire[i]
         /\ \A i \in 1 .. Len(wire') : i > Len(wire) => wire'[i].res = r
<1>1. PICK parts \in Seq(Part) : wire' = wire \o Of(r, parts)
  BY DEF Writing
<1> DEFINE new == Of(r, parts)
<1>2. /\ new \in Seq(WireEntry) /\ wire \in Seq(WireEntry)
      /\ \A i \in 1 .. Len(new) : new[i].res = r
  BY OfParts DEF TypeOK, WireEntry
<1> HIDE DEF new
<1>3. wire' = wire \o new
  BY <1>1 DEF new
<1>4. /\ Len(wire') = Len(wire) + Len(new) /\ Len(wire) \in Nat /\ Len(new) \in Nat
      /\ \A i \in 1 .. Len(wire) : wire'[i] = wire[i]
      /\ \A i \in 1 .. Len(wire') : i > Len(wire) => wire'[i] = new[i - Len(wire)]
  BY <1>2, <1>3
<1>5. ASSUME NEW i \in 1 .. Len(wire'), i > Len(wire) PROVE wire'[i].res = r
  <2>1. i - Len(wire) \in 1 .. Len(new)
    BY <1>4, <1>5
  <2>2. QED
    BY <1>2, <1>4, <1>5, <2>1
<1>6. QED
  BY <1>4, <1>5

\* What the application's step puts on the wire is of the response that has
\* the socket.
LEMMA AppWrites ==
  ASSUME TypeOK, NEW r \in Requests, NEW parts \in Seq(Part), NEW o \in Seq(Part),
         AppStep(r, parts, o)
  PROVE  wire' = wire \/ Writing(r)
  BY DEF AppStep, Emitted, Writing, listVars, sockVars

\* An interim 100 goes on the wire only when its response has the socket.
LEMMA OnIncomingWrites ==
  ASSUME TypeOK, ListsInv, NEW expect, OnIncoming(expect)
  PROVE  wire' = wire \/ (httpMessage = 0 /\ \E r \in Requests : Writing(r))
<1> DEFINE r == requests + 1
<1>1. /\ r \in Requests /\ requests' = r /\ sockWritable' = sockWritable
  BY PipelineAssumption DEF OnIncoming, TypeOK, Requests, sockVars
<1>2. <<"100">> \in Seq(Part)
  BY DEF Part
<1>3. wire' = wire \/ (/\ httpMessage' = r /\ sockWritable
                       /\ wire' = wire \o Of(r, <<"100">>))
  BY DEF OnIncoming
<1>4. sockWritable /\ httpMessage # 0 => httpMessage' # r
  BY <1>1 DEF ListsInv, QueueInv, Queued, OnIncoming, TypeOK
<1>5. r <= requests'
  BY <1>1 DEF Requests
<1>6. QED
  BY <1>1, <1>2, <1>3, <1>4, <1>5 DEF Writing

\* What waited goes on the wire when its response gets the socket.
LEMMA FinishWrites ==
  ASSUME TypeOK, ListsInv, Finish
  PROVE  \/ wire' = wire
         \/ \E m \in Requests : FinishNext(m) /\ Writing(m)
<1>1. CASE FinishLast \/ FinishIdle
  BY <1>1 DEF FinishLast, FinishIdle
<1>2. ASSUME NEW m \in Requests, FinishNext(m) PROVE wire' = wire \/ Writing(m)
  <2>1. output[m] \in Seq(Part)
    BY DEF TypeOK
  <2>2. CASE wire' = wire \o Of(m, output[m]) /\ sockWritable
    <3>1. httpMessage # 0 /\ Queued
      BY <2>2, FinishSteps DEF ListsInv, QueueInv, FinishingInv
    <3>2. /\ outgoing \in Seq(Requests) /\ requests \in Nat /\ httpMessage \in Nat
          /\ outgoing # <<>> /\ m = Head(outgoing) /\ httpMessage' = m
          /\ requests' = requests /\ sockWritable' = sockWritable
      BY <1>2, FinishSteps DEF FinishNext, TypeOK
    <3>3. 1 \in 1 .. Len(outgoing) /\ m = outgoing[1] /\ Len(outgoing) \in Nat
      BY <3>2
    <3>4. m <= requests
      BY <3>1, <3>2, <3>3 DEF Queued
    <3>5. QED
      BY <2>1, <2>2, <3>2, <3>4 DEF Writing
  <2>3. CASE wire' = wire \o Of(m, output[m]) /\ output[m] = <<>>
    BY <2>1, <2>3, NothingWritten
  <2>4. QED
    BY <1>2, <2>2, <2>3 DEF FinishNext
<1>3. QED
  BY <1>1, <1>2, FinishSteps

-----------------------------------------------------------------------------
(* What has left is done, in the order of the requests.                    *)

\* How a step changes whose turn it is, in four kinds; what was done stays so.
Turns ==
  \/ httpMessage' = httpMessage
  \/ httpMessage = 0 /\ httpMessage' > requests
  \/ httpMessage # 0 /\ Done(httpMessage) /\ httpMessage' > httpMessage
  \/ httpMessage # 0 /\ Done(httpMessage) /\ httpMessage' = 0

DoneNext(q) == finished'[q] /\ output'[q] = <<>>
DoneStays == \A q \in Requests : q <= requests /\ Done(q) => DoneNext(q)

\* The application's step leaves the socket with the response that has it.
LEMMA AppTurns ==
  ASSUME TypeOK, NEW r \in Requests, NEW parts \in Seq(Part), NEW o \in Seq(Part),
         AppStep(r, parts, o)
  PROVE  Turns /\ DoneStays /\ requests' = requests /\ sockWritable' = sockWritable
<1>1. httpMessage' = httpMessage /\ requests' = requests /\ sockWritable' = sockWritable
  BY DEF AppStep, listVars, sockVars
<1>2. ASSUME NEW q \in Requests, Done(q) PROVE DoneNext(q)
  <2>1. q # r
    BY <1>2 DEF Done, AppStep
  <2>2. finished'[q] = finished[q]
    BY <2>1 DEF AppStep, TypeOK
  <2>3. output'[q] = output[q]
    BY <2>1 DEF AppStep, Emitted, TypeOK
  <2>4. QED
    BY <1>2, <2>2, <2>3 DEF Done, DoneNext
<1>3. QED
  BY <1>1, <1>2 DEF Turns, DoneStays

\* So does a request that arrives, unless nobody has the socket.
LEMMA OnIncomingTurns ==
  ASSUME TypeOK, NEW expect, OnIncoming(expect)
  PROVE  Turns /\ DoneStays /\ requests' = requests + 1 /\ sockWritable' = sockWritable
<1>1. requests' = requests + 1 /\ sockWritable' = sockWritable /\ finished' = finished
  BY DEF OnIncoming, sockVars
<1>2. Turns
  BY DEF OnIncoming, Turns, TypeOK
<1>3. ASSUME NEW q \in Requests, q <= requests, Done(q) PROVE DoneNext(q)
  <2>1. output' = output \/ output' = [output EXCEPT ![requests + 1] = <<"100">>]
    BY DEF OnIncoming
  <2>2. output'[q] = output[q]
    <3>1. q # requests + 1
      BY <1>3 DEF TypeOK, Requests
    <3>2. QED
      BY <2>1, <3>1 DEF TypeOK
  <2>3. QED
    BY <1>1, <1>3, <2>2 DEF Done, DoneNext
<1>4. QED
  BY <1>1, <1>2, <1>3 DEF DoneStays

\* The socket goes from a response that is done to the next one.
LEMMA FinishTurns ==
  ASSUME TypeOK, ListsInv, Finish, sockWritable'
  PROVE  Turns /\ DoneStays /\ requests' = requests /\ sockWritable
<1>1. /\ httpMessage # 0 /\ Done(httpMessage) /\ httpMessage \in Nat
      /\ requests' = requests /\ finished' = finished
  BY FinishSteps DEF ListsInv, FinishingInv, Done, TypeOK
<1>2. CASE FinishLast
  BY <1>2 DEF FinishLast
<1>3. CASE FinishIdle
  BY <1>1, <1>3 DEF FinishIdle, Turns, DoneStays, Done, DoneNext
<1>4. ASSUME NEW m \in Requests, FinishNext(m)
      PROVE  Turns /\ DoneStays /\ requests' = requests /\ sockWritable
  <2>1. sockWritable
    BY <1>4 DEF FinishNext
  <2>2. /\ Queued /\ outgoing \in Seq(Requests) /\ outgoing # <<>>
        /\ m = Head(outgoing) /\ httpMessage' = m
    BY <1>1, <1>4, <2>1 DEF ListsInv, QueueInv, FinishNext, TypeOK
  <2>3. 1 \in 1 .. Len(outgoing) /\ m = outgoing[1]
    BY <2>2
  <2>4. m = httpMessage + 1
    BY <1>1, <2>2, <2>3 DEF Queued
  <2>5. Turns
    BY <1>1, <2>2, <2>4 DEF Turns
  <2>6. ASSUME NEW q \in Requests, Done(q) PROVE DoneNext(q)
    <3>1. output'[q] = output[q] \/ output'[q] = <<>>
      BY <1>4 DEF FinishNext, TypeOK
    <3>2. QED
      BY <1>1, <2>6, <3>1 DEF Done, DoneNext
  <2>7. QED
    BY <1>1, <2>1, <2>5, <2>6 DEF DoneStays
<1>5. QED
  BY <1>2, <1>3, <1>4, FinishSteps

\* The conclusion of the three lemmas above.
Advance == Turns /\ DoneStays /\ requests <= requests'

\* Nothing is on the wire of a response behind the one that has the socket.
LEMMA BehindStep ==
  ASSUME TypeOK, BehindInv, requests <= requests',
         requests' \in Nat, httpMessage' \in Nat,
         wire' = wire \/ \E r \in Requests : Writing(r),
         sockWritable' => Advance /\ sockWritable,
         wire' # wire => Advance /\ sockWritable
  PROVE  BehindInv'
<1>0. /\ wire \in Seq(WireEntry) /\ requests \in Nat /\ httpMessage \in Nat
      /\ \A i \in 1 .. Len(wire) : wire[i].res \in Requests /\ wire[i].res <= requests
  <2>1. wire \in Seq(WireEntry) /\ requests \in Nat /\ httpMessage \in Nat
    BY DEF TypeOK, WireEntry
  <2>2. ASSUME NEW i \in 1 .. Len(wire) PROVE wire[i].res \in Requests
    <3>1. wire[i] \in WireEntry
      BY <2>1
    <3>2. QED
      BY <3>1 DEF WireEntry
  <2>3. QED
    BY <2>1, <2>2 DEF BehindInv
<1>1. ASSUME NEW i \in 1 .. Len(wire), Advance, sockWritable
      PROVE  \/ wire[i].res = httpMessage'
             \/ DoneNext(wire[i].res) /\ (httpMessage' # 0 => wire[i].res < httpMessage')
  <2> DEFINE q == wire[i].res
  <2>1. q \in Requests /\ q <= requests /\ q \in Nat /\ q # 0
    BY <1>0 DEF Requests
  <2> USE DEF Requests
  <2>2. q = httpMessage \/ (Done(q) /\ (httpMessage # 0 => q < httpMessage))
    BY <1>1 DEF BehindInv
  <2>3. Done(q) => DoneNext(q)
    BY <1>1, <2>1 DEF Advance, DoneStays
  <2> HIDE DEF q
  <2>4. q = httpMessage' \/ (DoneNext(q) /\ (httpMessage' # 0 => q < httpMessage'))
    <3>1. CASE httpMessage' = httpMessage
      BY <2>2, <2>3, <3>1
    <3>2. CASE httpMessage = 0 /\ httpMessage' > requests
      <4>1. Done(q)
        BY <2>1, <2>2, <3>2
      <4>2. q < httpMessage'
        BY <1>0, <2>1, <3>2
      <4>3. QED
        BY <2>3, <4>1, <4>2
    <3>3. CASE httpMessage # 0 /\ Done(httpMessage) /\ httpMessage' > httpMessage
      <4>1. Done(q) /\ q <= httpMessage
        BY <1>0, <2>1, <2>2, <3>3
      <4>2. q < httpMessage'
        BY <1>0, <2>1, <3>3, <4>1
      <4>3. QED
        BY <2>3, <4>1, <4>2
    <3>4. CASE httpMessage # 0 /\ Done(httpMessage) /\ httpMessage' = 0
      <4>1. Done(q)
        BY <2>2, <3>4
      <4>2. QED
        BY <2>3, <3>4, <4>1
    <3>5. QED
      BY <1>1, <3>1, <3>2, <3>3, <3>4 DEF Advance, Turns
  <2>5. QED
    BY <2>4 DEF q
<1>2. CASE wire' = wire
  <2>1. \A i \in 1 .. Len(wire') : wire'[i].res <= requests'
    BY <1>0, <1>2 DEF Requests
  <2>2. sockWritable' => \A i \in 1 .. Len(wire') :
          \/ wire'[i].res = httpMessage'
          \/ DoneNext(wire'[i].res) /\ (httpMessage' # 0 => wire'[i].res < httpMessage')
    BY <1>1, <1>2
  <2>3. QED
    BY <2>1, <2>2 DEF BehindInv, Done, DoneNext
<1>3. ASSUME wire' # wire, NEW r \in Requests, Writing(r) PROVE BehindInv'
  <2>1. /\ Len(wire) \in Nat /\ Len(wire') \in Nat
        /\ \A i \in 1 .. Len(wire) : wire'[i] = wire[i]
        /\ \A i \in 1 .. Len(wire') : i > Len(wire) => wire'[i].res = r
        /\ httpMessage' = r /\ r <= requests'
    BY <1>3, WrittenParts DEF Writing
  <2>2. ASSUME NEW i \in 1 .. Len(wire')
        PROVE  /\ wire'[i].res <= requests'
               /\ \/ wire'[i].res = httpMessage'
                  \/ DoneNext(wire'[i].res) /\ (httpMessage' # 0 => wire'[i].res < httpMessage')
    <3>1. CASE i > Len(wire)
      BY <2>1, <3>1
    <3>2. CASE i \in 1 .. Len(wire)
      <4>1. wire'[i] = wire[i]
        BY <2>1, <3>2
      <4>2. wire[i].res <= requests'
        BY <1>0, <3>2 DEF Requests
      <4>3. QED
        BY <1>1, <1>3, <3>2, <4>1, <4>2
    <3>3. QED
      BY <2>1, <3>1, <3>2
  <2>3. QED
    BY <2>2 DEF BehindInv, Done, DoneNext
<1>4. QED
  BY <1>2, <1>3

\* A response that is done stays so.
LEMMA DoneStep ==
  ASSUME TypeOK, Next
  PROVE  DoneStays /\ \A q \in Requests : finished[q] => finished'[q]
<1>1. ASSUME NEW r \in Requests, NEW buffer \in BOOLEAN,
             \/ ResponseWrite(r, buffer)
             \/ \E body \in {<<>>, <<"body">>} : ResponseEnd(r, buffer, body)
      PROVE  DoneStays /\ \A q \in Requests : finished[q] => finished'[q]
  <2>1. PICK parts \in Seq(Part), o \in Seq(Part) : AppStep(r, parts, o)
    BY <1>1, AppSteps
  <2>2. finished' = finished \/ finished' = [finished EXCEPT ![r] = TRUE]
    BY <2>1 DEF AppStep
  <2>3. \A q \in Requests : finished[q] => finished'[q]
    BY <2>2 DEF TypeOK
  <2>4. QED
    BY <2>1, <2>3, AppTurns
<1>2. CASE \E expect \in {FALSE, Expect} : OnIncoming(expect)
  <2>1. finished' = finished
    BY <1>2 DEF OnIncoming
  <2>2. QED
    BY <1>2, <2>1, OnIncomingTurns
<1>3. CASE Finish
  <2>1. finished' = finished
    BY <1>3, FinishSteps
  <2>2. output' = output \/ \E m \in Requests : output' = [output EXCEPT ![m] = <<>>]
    BY <1>3, FinishSteps DEF FinishLast, FinishIdle, FinishNext
  <2>3. \A q \in Requests : output'[q] = output[q] \/ output'[q] = <<>>
    BY <2>2 DEF TypeOK
  <2>4. QED
    BY <2>1, <2>3 DEF DoneStays, Done, DoneNext
<1>4. CASE SocketClose
  BY <1>4 DEF SocketClose, DoneStays, Done, DoneNext
<1>5. QED
  BY <1>1, <1>2, <1>3, <1>4 DEF Next

\* Whatever the step, the facts BehindStep and OrderStep rest on.
LEMMA Advances ==
  ASSUME TypeOK, ListsInv, Next
  PROVE  /\ requests <= requests' /\ requests' \in Nat /\ httpMessage' \in Nat
         /\ wire' = wire \/ \E r \in Requests : Writing(r)
         /\ sockWritable' => Advance /\ sockWritable
<1>0. TypeOK' /\ requests \in Nat
  BY TypeStep, SMTT(30) DEF TypeOK
<1>1. requests' \in Nat /\ httpMessage' \in Nat
  BY <1>0 DEF TypeOK
<1>2. ASSUME NEW r \in Requests, NEW buffer \in BOOLEAN,
             \/ ResponseWrite(r, buffer)
             \/ \E body \in {<<>>, <<"body">>} : ResponseEnd(r, buffer, body)
      PROVE  /\ requests <= requests'
             /\ wire' = wire \/ Writing(r)
             /\ sockWritable' => Advance /\ sockWritable
  <2>1. PICK parts \in Seq(Part), o \in Seq(Part) : AppStep(r, parts, o)
    BY <1>2, AppSteps
  <2>2. Turns /\ DoneStays /\ requests' = requests /\ sockWritable' = sockWritable
    BY <2>1, AppTurns
  <2>3. wire' = wire \/ Writing(r)
    BY <2>1, AppWrites
  <2>4. QED
    BY <1>0, <2>2, <2>3 DEF Advance
<1>3. ASSUME NEW expect, OnIncoming(expect)
      PROVE  /\ requests <= requests'
             /\ wire' = wire \/ \E r \in Requests : Writing(r)
             /\ sockWritable' => Advance /\ sockWritable
  <2>1. Turns /\ DoneStays /\ requests' = requests + 1 /\ sockWritable' = sockWritable
    BY <1>3, OnIncomingTurns
  <2>2. wire' = wire \/ \E r \in Requests : Writing(r)
    BY <1>3, OnIncomingWrites
  <2>3. QED
    BY <1>0, <2>1, <2>2 DEF Advance
<1>4. CASE Finish
  <2>1. requests' = requests
    BY <1>4, FinishSteps
  <2>2. wire' = wire \/ \E r \in Requests : Writing(r)
    BY <1>4, FinishWrites
  <2>3. sockWritable' => Advance /\ sockWritable
    BY <1>0, <1>4, FinishTurns DEF Advance
  <2>4. QED
    BY <1>0, <1>1, <2>1, <2>2, <2>3
<1>5. CASE SocketClose
  BY <1>0, <1>1, <1>5 DEF SocketClose
<1>6. QED
  BY <1>1, <1>2, <1>3, <1>4, <1>5 DEF Next

\* Every step keeps the responses on the wire in request order.
LEMMA OrderStep ==
  ASSUME TypeOK, ListsInv, BehindInv, ResponsesInOrder, Next
  PROVE  BehindInv' /\ ResponsesInOrder'
<1>1. /\ requests <= requests' /\ requests' \in Nat /\ httpMessage' \in Nat
      /\ wire' = wire \/ \E r \in Requests : Writing(r)
      /\ sockWritable' => Advance /\ sockWritable
  BY Advances
<1>2. wire' # wire => Advance /\ sockWritable
  BY <1>1 DEF Writing
<1>3. BehindInv'
  BY <1>1, <1>2, BehindStep
<1>4. /\ wire \in Seq(WireEntry) /\ Len(wire) \in Nat
      /\ \A i \in 1 .. Len(wire) : wire[i].res \in Requests /\ wire[i].res <= requests
  <2>1. wire \in Seq(WireEntry)
    BY DEF TypeOK, WireEntry
  <2>2. ASSUME NEW i \in 1 .. Len(wire) PROVE wire[i].res \in Requests
    <3>1. wire[i] \in WireEntry
      BY <2>1
    <3>2. QED
      BY <3>1 DEF WireEntry
  <2>3. QED
    BY <2>1, <2>2 DEF BehindInv
<1>5. ASSUME NEW i \in 2 .. Len(wire)
      PROVE  /\ wire[i - 1].res <= wire[i].res
             /\ wire[i - 1].res < wire[i].res => DoneNext(wire[i - 1].res)
  <2>1. wire[i - 1].res < wire[i].res => Done(wire[i - 1].res)
    BY DEF ResponsesInOrder, Done
  <2>2. i - 1 \in 1 .. Len(wire)
    BY <1>4
  <2>3. wire[i - 1].res \in Requests /\ wire[i - 1].res <= requests
    BY <1>4, <2>2
  <2>4. Done(wire[i - 1].res) => DoneNext(wire[i - 1].res)
    BY <2>3, DoneStep DEF DoneStays
  <2>5. QED
    BY <2>1, <2>4 DEF ResponsesInOrder
<1>6. CASE wire' = wire
  <2>1. ASSUME NEW i \in 2 .. Len(wire')
        PROVE  /\ wire'[i - 1].res <= wire'[i].res
               /\ wire'[i - 1].res < wire'[i].res => DoneNext(wire'[i - 1].res)
    BY <1>5, <1>6
  <2>2. QED
    BY <1>3, <2>1 DEF ResponsesInOrder, DoneNext
<1>7. ASSUME NEW r \in Requests, Writing(r) PROVE ResponsesInOrder'
  <2>1. /\ Len(wire') \in Nat /\ Len(wire) <= Len(wire')
        /\ \A i \in 1 .. Len(wire) : wire'[i] = wire[i]
        /\ \A i \in 1 .. Len(wire') : i > Len(wire) => wire'[i].res = r
        /\ httpMessage' = r /\ sockWritable' /\ r # 0 /\ r \in Nat
    <3>1. httpMessage' = r /\ sockWritable' /\ r # 0 /\ r \in Nat
      BY <1>7 DEF Writing, Requests
    <3>2. QED
      BY <1>7, <3>1, WrittenParts
  <2>2. ASSUME NEW i \in 2 .. Len(wire')
        PROVE  /\ wire'[i - 1].res <= wire'[i].res
               /\ wire'[i - 1].res < wire'[i].res => DoneNext(wire'[i - 1].res)
    <3>0. i - 1 \in 1 .. Len(wire') /\ i \in 1 .. Len(wire')
      BY <2>1
    <3>1. CASE i \in 2 .. Len(wire)
      <4>1. wire'[i - 1] = wire[i - 1] /\ wire'[i] = wire[i]
        BY <1>4, <2>1, <3>1
      <4>2. QED
        BY <1>5, <3>1, <4>1
    <3>2. CASE i > Len(wire)
      <4>1. wire'[i].res = r
        BY <2>1, <3>0, <3>2
      <4>2. \/ wire'[i - 1].res = r
            \/ DoneNext(wire'[i - 1].res) /\ wire'[i - 1].res < r
        BY <1>3, <2>1, <3>0 DEF BehindInv, Done, DoneNext
      <4>3. wire'[i - 1].res \in Nat
        <5>1. wire' \in Seq(WireEntry)
          BY TypeStep DEF TypeOK, WireEntry
        <5>2. wire'[i - 1] \in WireEntry
          BY <3>0, <5>1
        <5>3. QED
          BY <5>2 DEF WireEntry, Requests
      <4>4. QED
        BY <2>1, <4>1, <4>2, <4>3
    <3>3. QED
      BY <1>4, <3>1, <3>2
  <2>3. QED
    BY <2>2 DEF ResponsesInOrder, DoneNext
<1>8. QED
  BY <1>1, <1>3, <1>6, <1>7

WireInv == BehindInv /\ ResponsesInOrder

\* Every step keeps what WireInv says of the wire.
LEMMA WireStep == TypeOK /\ ListsInv /\ WireInv /\ [Next]_vars => WireInv'
<1> SUFFICES ASSUME TypeOK, ListsInv, WireInv, [Next]_vars PROVE WireInv'
  OBVIOUS
<1>1. CASE UNCHANGED vars
  BY <1>1 DEF vars, listVars, sockVars, WireInv, BehindInv, ResponsesInOrder, Done
<1>2. CASE Next
  BY <1>2, OrderStep DEF WireInv
<1>3. QED
  BY <1>1, <1>2

\* Responses leave in the order of their requests and none begins before the
\* one before it is complete (assignSocket, detachSocket, _flush).
THEOREM ResponsesNeverMix == Spec => []ResponsesInOrder
<1>1. Init => WireInv
  BY DEF Init, WireInv, BehindInv, ResponsesInOrder
<1>2. WireInv => ResponsesInOrder
  BY DEF WireInv
<1>3. QED
  BY <1>1, <1>2, ListsInit, ListsStep, WireStep, PipelineTypeCorrect, PTL DEF Spec

-----------------------------------------------------------------------------
(* The last response.                                                      *)

\* While the socket is writable, responses before the one that has it have
\* ended, and none of them was to be the last.
PastInv ==
  sockWritable => \A q \in Requests :
    /\ q <= requests /\ (httpMessage = 0 \/ q < httpMessage) => finished[q]
    /\ last[q] => httpMessage # 0 /\ httpMessage <= q

WirePastInv ==
  \A i \in 1 .. Len(wire) : \A q \in Requests : q < wire[i].res => finished[q]

\* A step of the application leaves what it knows of earlier responses, and
\* no finished response becomes the last.
LEMMA AppPast ==
  ASSUME TypeOK, PastInv, NEW r \in Requests, NEW parts \in Seq(Part),
         NEW o \in Seq(Part), AppStep(r, parts, o)
  PROVE  PastInv' /\ \A q \in Requests : last'[q] => last[q] \/ ~finished[q]
<1>1. /\ requests' = requests /\ httpMessage' = httpMessage
      /\ sockWritable' = sockWritable /\ r <= requests /\ ~finished[r]
      /\ httpMessage \in Nat /\ r \in Nat
  BY DEF AppStep, listVars, sockVars, TypeOK, Requests
<1>2. ASSUME NEW q \in Requests
      PROVE  (finished[q] => finished'[q]) /\ (last'[q] => last[q] \/ q = r)
  <2>1. finished[q] => finished'[q]
    BY DEF AppStep, TypeOK
  <2>2. last'[q] => last[q] \/ q = r
    BY DEF AppStep, TypeOK
  <2>3. QED
    BY <2>1, <2>2
<1>3. ASSUME sockWritable PROVE httpMessage # 0 /\ httpMessage <= r
  <2>1. ~(httpMessage = 0 \/ r < httpMessage)
    BY <1>1, <1>3 DEF PastInv
  <2>2. QED
    BY <1>1, <2>1
<1>4. PastInv'
  BY <1>1, <1>2, <1>3 DEF PastInv
<1>5. QED
  BY <1>1, <1>2, <1>4

\* So does a request that arrives.
LEMMA OnIncomingPast ==
  ASSUME TypeOK, ListsInv, PastInv, NEW expect, OnIncoming(expect)
  PROVE  PastInv'
<1>1. /\ requests' = requests + 1 /\ finished' = finished /\ last' = last
      /\ sockWritable' = sockWritable /\ requests \in Nat /\ httpMessage \in Nat
      /\ httpMessage' = (IF httpMessage = 0 THEN requests + 1 ELSE httpMessage)
  BY DEF OnIncoming, headVars, sockVars, TypeOK
<1>2. sockWritable => httpMessage <= requests
  BY <1>1 DEF ListsInv, QueueInv, Queued
<1>3. QED
  BY <1>1, <1>2 DEF PastInv, Requests

\* So does the listener of 'finish', which stops at a last response.
LEMMA FinishPast ==
  ASSUME TypeOK, ListsInv, PastInv, Finish
  PROVE  PastInv'
<1>1. /\ requests' = requests /\ finished' = finished /\ last' = last
      /\ requests \in Nat /\ httpMessage \in Nat
      /\ httpMessage # 0 /\ finishing = httpMessage /\ finished[httpMessage]
  BY FinishSteps DEF ListsInv, FinishingInv, TypeOK, headVars
<1>2. sockWritable => Queued
  BY <1>1 DEF ListsInv, QueueInv
<1>3. CASE FinishLast
  BY <1>3 DEF FinishLast, PastInv
<1>4. CASE FinishIdle
  <2> SUFFICES ASSUME sockWritable, NEW q \in Requests
               PROVE  /\ q <= requests => finished[q]
                      /\ ~last[q]
    BY <1>1, <1>4 DEF FinishIdle, PastInv
  <2>1. httpMessage = requests
    <3>1. Len(outgoing) = 0
      BY <1>4 DEF FinishIdle
    <3>2. Len(outgoing) = requests - httpMessage
      BY <1>2 DEF Queued
    <3>3. QED
      BY <1>1, <3>1, <3>2
  <2>2. q \in Nat /\ (q < httpMessage => finished[q]) /\ (last[q] => httpMessage <= q)
    BY <1>1, <2>1 DEF PastInv, Requests
  <2>3. last[q] => q <= requests
    BY <1>1, <2>2 DEF ListsInv, FreshInv
  <2>4. ~last[httpMessage]
    BY <1>1, <1>4 DEF FinishIdle
  <2>5. last[q] => q = httpMessage
    BY <1>1, <2>1, <2>2, <2>3
  <2>6. q <= requests => q < httpMessage \/ q = httpMessage
    BY <1>1, <2>1, <2>2
  <2>7. QED
    BY <1>1, <2>2, <2>4, <2>5, <2>6
<1>5. ASSUME NEW m \in Requests, FinishNext(m) PROVE PastInv'
  <2>1. /\ sockWritable' = sockWritable /\ httpMessage' = m /\ ~last[httpMessage]
        /\ outgoing # <<>> /\ m = Head(outgoing) /\ outgoing \in Seq(Requests)
    BY <1>1, <1>5 DEF FinishNext, TypeOK
  <2> SUFFICES ASSUME sockWritable, NEW q \in Requests
               PROVE  /\ q <= requests /\ (m = 0 \/ q < m) => finished[q]
                      /\ last[q] => m # 0 /\ m <= q
    BY <1>1, <2>1 DEF PastInv
  <2>2. 1 \in 1 .. Len(outgoing) /\ m = outgoing[1]
    BY <2>1
  <2>3. m = httpMessage + 1
    BY <1>1, <1>2, <2>2 DEF Queued
  <2>4. /\ q \in Nat /\ (q <= requests /\ q < httpMessage => finished[q])
        /\ (last[q] => httpMessage <= q)
    BY <1>1 DEF PastInv, Requests
  <2>5. last[q] => q # httpMessage
    BY <2>1
  <2>6. q < m => q < httpMessage \/ q = httpMessage
    BY <1>1, <2>3, <2>4
  <2>7. last[q] => m <= q
    BY <1>1, <2>3, <2>4, <2>5
  <2>8. m # 0
    BY <1>1, <2>3
  <2>9. QED
    BY <1>1, <2>4, <2>6, <2>7, <2>8
<1>6. QED
  BY <1>3, <1>4, <1>5, FinishSteps

\* Every step leaves it.
LEMMA PastStep ==
  ASSUME TypeOK, ListsInv, PastInv, Next
  PROVE  PastInv' /\ \A q \in Requests : last'[q] => last[q] \/ ~finished[q]
<1>1. ASSUME NEW r \in Requests, NEW buffer \in BOOLEAN,
             \/ ResponseWrite(r, buffer)
             \/ \E body \in {<<>>, <<"body">>} : ResponseEnd(r, buffer, body)
      PROVE  PastInv' /\ \A q \in Requests : last'[q] => last[q] \/ ~finished[q]
  BY <1>1, AppSteps, AppPast
<1>2. CASE \E expect \in {FALSE, Expect} : OnIncoming(expect)
  <2>1. last' = last
    BY <1>2 DEF OnIncoming, headVars
  <2>2. QED
    BY <1>2, <2>1, OnIncomingPast
<1>3. CASE Finish
  <2>1. last' = last
    BY <1>3, FinishSteps DEF headVars
  <2>2. QED
    BY <1>3, <2>1, FinishPast
<1>4. CASE SocketClose
  BY <1>4 DEF SocketClose, headVars, PastInv
<1>5. QED
  BY <1>1, <1>2, <1>3, <1>4 DEF Next

\* Every step keeps a response that is to be the last the last.
LEMMA LastStep ==
  ASSUME TypeOK, ListsInv, PastInv, WirePastInv, LastIsLast, Next
  PROVE  PastInv' /\ WirePastInv' /\ LastIsLast'
<1>1. PastInv' /\ \A q \in Requests : last'[q] => last[q] \/ ~finished[q]
  BY PastStep
<1>2. \A q \in Requests : finished[q] => finished'[q]
  BY DoneStep
<1>3. /\ Len(wire) \in Nat
      /\ \A i \in 1 .. Len(wire) : wire[i].res \in Requests
  <2>1. wire \in Seq(WireEntry)
    BY DEF TypeOK, WireEntry
  <2>2. ASSUME NEW i \in 1 .. Len(wire) PROVE wire[i].res \in Requests
    <3>1. wire[i] \in WireEntry
      BY <2>1
    <3>2. QED
      BY <3>1 DEF WireEntry
  <2>3. QED
    BY <2>1, <2>2
<1>4. ASSUME NEW i \in 1 .. Len(wire), NEW q \in Requests
      PROVE  /\ q < wire[i].res => finished'[q]
             /\ last'[q] => wire[i].res <= q
  <2>1. q < wire[i].res => finished'[q]
    BY <1>2 DEF WirePastInv
  <2>2. ~finished[q] => wire[i].res <= q
    BY <1>3 DEF WirePastInv, Requests
  <2>3. last[q] => wire[i].res <= q
    BY DEF LastIsLast
  <2>4. QED
    BY <1>1, <2>1, <2>2, <2>3
<1>5. CASE wire' = wire
  BY <1>1, <1>4, <1>5 DEF WirePastInv, LastIsLast
<1>6. ASSUME NEW r \in Requests, Writing(r) PROVE WirePastInv' /\ LastIsLast'
  <2>1. r \in Nat /\ r # 0 /\ r <= requests' /\ httpMessage' = r /\ sockWritable'
    BY <1>6 DEF Writing, Requests
  <2>2. /\ \A i \in 1 .. Len(wire) : wire'[i] = wire[i]
        /\ \A i \in 1 .. Len(wire') : i > Len(wire) => wire'[i].res = r
        /\ Len(wire') \in Nat
    BY <1>6, WrittenParts
  <2>3. ASSUME NEW q \in Requests
        PROVE  (q < r => finished'[q]) /\ (last'[q] => r <= q)
    <3>1. requests' \in Nat
      BY TypeStep DEF TypeOK
    <3>2. q < r => q <= requests'
      BY <2>1, <3>1 DEF Requests
    <3>3. QED
      BY <1>1, <2>1, <3>2 DEF PastInv
  <2>4. ASSUME NEW i \in 1 .. Len(wire'), NEW q \in Requests
        PROVE  /\ q < wire'[i].res => finished'[q]
               /\ last'[q] => wire'[i].res <= q
    <3>1. CASE i > Len(wire)
      BY <2>2, <2>3, <3>1
    <3>2. CASE i \in 1 .. Len(wire)
      BY <1>4, <2>2, <3>2
    <3>3. QED
      BY <1>3, <2>2, <3>1, <3>2
  <2>5. QED
    BY <2>4 DEF WirePastInv, LastIsLast
<1>7. QED
  BY <1>1, <1>5, <1>6, Advances

LastInv == PastInv /\ WirePastInv /\ LastIsLast

\* Nothing of a later response follows one that was sent with
\* Connection: close (http2.js, the 'finish' listener).
THEOREM NothingFollowsLast == Spec => []LastIsLast
<1>1. Init => LastInv
  BY DEF Init, LastInv, PastInv, WirePastInv, LastIsLast, Requests
<1>2. TypeOK /\ ListsInv /\ LastInv /\ [Next]_vars => LastInv'
  <2> SUFFICES ASSUME TypeOK, ListsInv, LastInv, [Next]_vars PROVE LastInv'
    OBVIOUS
  <2>1. CASE UNCHANGED vars
    BY <2>1 DEF vars, listVars, sockVars, headVars, LastInv, PastInv, WirePastInv,
                LastIsLast
  <2>2. CASE Next
    BY <2>2, LastStep DEF LastInv
  <2>3. QED
    BY <2>1, <2>2
<1>3. LastInv => LastIsLast
  BY DEF LastInv
<1>4. QED
  BY <1>1, <1>2, <1>3, ListsInit, ListsStep, PipelineTypeCorrect, PTL DEF Spec

-----------------------------------------------------------------------------
(* The order of a response's parts. What r has produced is what is on the   *)
(* wire of it followed by what waits in its output, the interim 100 left    *)
(* aside: WriteRaw only moves the border between the two.                   *)

Content(r) == [res : {r}, part : Part \ {"100"}]
Produced(r) == Select(wire \o Of(r, output[r]), Content(r))
\* The head first, and nothing behind the final chunk.
WellFormed(parts, ended) ==
  \A i \in 1 .. Len(parts) :
    /\ parts[i].part = "head" <=> i = 1
    /\ parts[i].part = "tail" => i = Len(parts) /\ ended

\* The wire entries of joined parts are the joined entries.
LEMMA OfConcat ==
  ASSUME NEW r \in Requests, NEW a \in Seq(Part), NEW b \in Seq(Part)
  PROVE  Of(r, a \o b) = Of(r, a) \o Of(r, b)
<1>1. /\ a \o b \in Seq(Part) /\ Len(a \o b) = Len(a) + Len(b)
      /\ Len(a) \in Nat /\ Len(b) \in Nat
      /\ \A i \in 1 .. Len(a) + Len(b) :
           (a \o b)[i] = IF i <= Len(a) THEN a[i] ELSE b[i - Len(a)]
  OBVIOUS
<1> DEFINE c == a \o b
           x == Of(r, a)
           y == Of(r, b)
           z == Of(r, c)
<1>2. /\ x \in Seq(WireEntry) /\ y \in Seq(WireEntry) /\ z \in Seq(WireEntry)
      /\ Len(x) = Len(a) /\ Len(y) = Len(b) /\ Len(z) = Len(a) + Len(b)
  BY <1>1, OfParts
<1>3. /\ \A i \in 1 .. Len(a) : x[i] = [res |-> r, part |-> a[i]]
      /\ \A i \in 1 .. Len(b) : y[i] = [res |-> r, part |-> b[i]]
      /\ \A i \in 1 .. Len(a) + Len(b) : z[i] = [res |-> r, part |-> c[i]]
  BY <1>1 DEF Of
<1> HIDE DEF x, y, z
<1>4. \A i \in 1 .. Len(a) + Len(b) : z[i] = (x \o y)[i]
  <2> SUFFICES ASSUME NEW i \in 1 .. Len(a) + Len(b) PROVE z[i] = (x \o y)[i]
    OBVIOUS
  <2>1. CASE i <= Len(a)
    <3>1. (x \o y)[i] = x[i] /\ i \in 1 .. Len(a)
      BY <1>1, <1>2, <2>1
    <3>2. QED
      BY <1>1, <1>3, <2>1, <3>1
  <2>2. CASE ~(i <= Len(a))
    <3>1. (x \o y)[i] = y[i - Len(a)] /\ i - Len(a) \in 1 .. Len(b)
      BY <1>1, <1>2, <2>2
    <3>2. QED
      BY <1>1, <1>3, <2>2, <3>1
  <2>3. QED
    BY <2>1, <2>2
<1>5. x \o y \in Seq(WireEntry) /\ Len(x \o y) = Len(z)
  <2>1. x \o y \in Seq(WireEntry) /\ Len(x \o y) = Len(x) + Len(y)
    BY <1>2, ConcatProperties
  <2>2. QED
    BY <1>2, <2>1
<1>6. z = x \o y
  BY <1>2, <1>4, <1>5, SeqEqual
<1>7. QED
  BY <1>6 DEF x, y, z

\* What is selected of the parts of one response.
LEMMA ContentOfParts ==
  ASSUME NEW r \in Requests, NEW q \in Requests, NEW parts \in Seq(Part)
  PROVE  /\ q # r => Select(Of(r, parts), Content(q)) = <<>>
         /\ parts \in Seq(Part \ {"100"}) => Select(Of(r, parts), Content(r)) = Of(r, parts)
         /\ parts = <<"100">> => Select(Of(r, parts), Content(r)) = <<>>
<1>1. ASSUME NEW T \in SUBSET Part, parts \in Seq(T)
      PROVE  Of(r, parts) \in Seq([res : {r}, part : T])
  <2> DEFINE s == Of(r, parts)
             n == Len(parts)
             E == [res : {r}, part : T]
  <2>1. n \in Nat /\ s \in [1 .. n -> E]
    BY <1>1 DEF Of
  <2> HIDE DEF s, n, E
  <2>2. s \in Seq(E)
    BY <2>1
  <2>3. QED
    BY <2>2 DEF s, E
<1>2. ASSUME q # r PROVE Select(Of(r, parts), Content(q)) = <<>>
  <2>1. [res : {r}, part : Part] \cap Content(q) = {}
    BY <1>2 DEF Content
  <2>2. QED
    BY <1>1, <2>1, SelectNone
<1>3. ASSUME parts \in Seq(Part \ {"100"})
      PROVE  Select(Of(r, parts), Content(r)) = Of(r, parts)
  BY <1>1, <1>3, SelectAll DEF Content
<1>4. ASSUME parts = <<"100">> PROVE Select(Of(r, parts), Content(r)) = <<>>
  <2>1. parts \in Seq({"100"}) /\ {"100"} \in SUBSET Part
    BY <1>4 DEF Part
  <2>2. [res : {r}, part : {"100"}] \cap Content(r) = {}
    BY DEF Content
  <2>3. QED
    BY <1>1, <2>1, <2>2, SelectNone
<1>5. QED
  BY <1>2, <1>3, <1>4

\* What response q has produced, when w has been written and o waits.
Total(w, q, o) == Select(w \o Of(q, o), Content(q))

\* The two halves of what q has produced; writing all that waits changes
\* nothing about it.
LEMMA TotalSplit ==
  ASSUME NEW w \in Seq(WireEntry), NEW q \in Requests, NEW o \in Seq(Part)
  PROVE  /\ Total(w, q, o) = Select(w, Content(q)) \o Select(Of(q, o), Content(q))
         /\ Total(w \o Of(q, o), q, <<>>) = Total(w, q, o)
         /\ Total(w, q, o) \in Seq(WireEntry)
         /\ w \o Of(q, o) \in Seq(WireEntry)
<1>1. Of(q, o) \in Seq(WireEntry) /\ w \o Of(q, o) \in Seq(WireEntry)
  BY OfParts, ConcatProperties
<1>2. Total(w, q, o) = Select(w, Content(q)) \o Select(Of(q, o), Content(q))
  <2> DEFINE t == Of(q, o)
             K == Content(q)
  <2>1. t \in Seq(WireEntry)
    BY <1>1
  <2> HIDE DEF t, K
  <2>2. Select(w \o t, K) = Select(w, K) \o Select(t, K)
    BY <2>1, SelectConcat
  <2>3. QED
    BY <2>2 DEF t, K, Total
<1>3. Of(q, <<>>) = <<>>
  <2>1. <<>> \in Seq(Part) /\ Len(<<>>) = 0
    BY EmptySeq
  <2>2. Of(q, <<>>) \in Seq(WireEntry) /\ Len(Of(q, <<>>)) = 0
    BY <2>1, OfParts
  <2>3. QED
    BY <2>2, EmptySeq
<1>4. Total(w \o Of(q, o), q, <<>>) = Total(w, q, o)
  <2> DEFINE x == w \o Of(q, o)
  <2>1. x \in Seq(WireEntry)
    BY <1>1
  <2> HIDE DEF x
  <2>2. x \o Of(q, <<>>) = x
    BY <1>3, <2>1, ConcatEmptySeq
  <2>3. QED
    BY <2>2 DEF x, Total
<1>5. Total(w, q, o) \in Seq(WireEntry)
  <2> DEFINE x == w \o Of(q, o)
  <2>1. x \in Seq(WireEntry)
    BY <1>1
  <2> HIDE DEF x
  <2>2. Select(x, Content(q)) \in Seq(WireEntry)
    BY <2>1, SelectType
  <2>3. QED
    BY <2>2 DEF x, Total
<1>6. QED
  BY <1>1, <1>2, <1>4, <1>5

\* Parts of another response do not count.
LEMMA TotalOfOthers ==
  ASSUME NEW w \in Seq(WireEntry), NEW q \in Requests, NEW o \in Seq(Part),
         NEW r \in Requests, NEW parts \in Seq(Part), q # r
  PROVE  Total(w \o Of(r, parts), q, o) = Total(w, q, o)
<1> DEFINE t == Of(r, parts)
           K == Content(q)
<1>1. t \in Seq(WireEntry) /\ w \o t \in Seq(WireEntry)
  BY OfParts, ConcatProperties
<1>2. Select(t, K) = <<>>
  BY ContentOfParts
<1>3. Select(w \o t, K) = Select(w, K)
  <2> HIDE DEF t, K
  <2>1. Select(w \o t, K) = Select(w, K) \o Select(t, K)
    BY <1>1, SelectConcat
  <2>2. Select(w, K) \in Seq(WireEntry)
    BY SelectType
  <2>3. QED
    BY <1>2, <2>1, <2>2, ConcatEmptySeq
<1>4. Total(w \o t, q, o) = Total(w, q, o)
  <2> DEFINE x == w \o t
  <2>1. x \in Seq(WireEntry) /\ Select(x, K) = Select(w, K)
    BY <1>1, <1>3
  <2> HIDE DEF x, K
  <2>2. /\ Total(x, q, o) = Select(x, Content(q)) \o Select(Of(q, o), Content(q))
        /\ Total(w, q, o) = Select(w, Content(q)) \o Select(Of(q, o), Content(q))
    BY <2>1, TotalSplit
  <2>3. QED
    BY <2>1, <2>2 DEF x, K
<1>5. QED
  BY <1>4

\* Produced, before and after a step, in terms of Total.
LEMMA ProducedIsTotal ==
  /\ \A q \in Requests : Produced(q) = Total(wire, q, output[q])
  /\ \A q \in Requests : Produced(q)' = Total(wire', q, output'[q])
  BY DEF Produced, Total

\* _writeRaw: whether it writes or buffers, r has produced out and parts after
\* what was on the wire, and no other response anything.
LEMMA WriteRawProduced ==
  ASSUME TypeOK, NEW r \in Requests, NEW out \in Seq(Part), NEW parts \in Seq(Part),
         WriteRaw(r, out, parts)
  PROVE  /\ Produced(r)' = Total(wire, r, out \o parts)
         /\ \A q \in Requests : q # r => Produced(q)' = Produced(q)
<1>1. wire \in Seq(WireEntry) /\ out \o parts \in Seq(Part)
      /\ \A q \in Requests : output[q] \in Seq(Part)
  <2>1. out \o parts \in Seq(Part)
    BY ConcatProperties
  <2>2. QED
    BY <2>1 DEF TypeOK, WireEntry
<1>2. \A q \in Requests : q # r => output'[q] = output[q]
  BY DEF WriteRaw, TypeOK
<1>3. CASE httpMessage = r /\ sockWritable
  <2>1. wire' = wire \o Of(r, out \o parts) /\ output'[r] = <<>>
    BY <1>3 DEF WriteRaw, TypeOK
  <2> DEFINE o == out \o parts
  <2>2. o \in Seq(Part) /\ wire' = wire \o Of(r, o)
    BY <1>1, <2>1
  <2> HIDE DEF o
  <2>3. Total(wire', r, output'[r]) = Total(wire, r, o)
    BY <1>1, <2>1, <2>2, TotalSplit
  <2>4. ASSUME NEW q \in Requests, q # r
        PROVE  Total(wire', q, output'[q]) = Total(wire, q, output[q])
    <3>1. output'[q] = output[q] /\ output[q] \in Seq(Part)
      BY <1>1, <1>2, <2>4
    <3>2. QED
      BY <1>1, <2>2, <2>4, <3>1, TotalOfOthers
  <2>5. QED
    BY <2>3, <2>4, ProducedIsTotal DEF o
<1>4. CASE ~(httpMessage = r /\ sockWritable)
  <2>1. wire' = wire /\ output'[r] = out \o parts
    BY <1>4 DEF WriteRaw, TypeOK
  <2>2. QED
    BY <1>2, <2>1, ProducedIsTotal
<1>5. QED
  BY <1>3, <1>4

\* More parts, at the end of what waits, or the head at its front.
LEMMA TotalMore ==
  ASSUME NEW w \in Seq(WireEntry), NEW q \in Requests, NEW o \in Seq(Part),
         NEW parts \in Seq(Part \ {"100"})
  PROVE  Total(w, q, o \o parts) = Total(w, q, o) \o Of(q, parts)
<1> DEFINE a == Of(q, o)
           b == Of(q, parts)
           K == Content(q)
<1>1. parts \in Seq(Part)
  BY SeqMonotonic
<1>2. a \in Seq(WireEntry) /\ b \in Seq(WireEntry) /\ Of(q, o \o parts) = a \o b
  BY <1>1, OfParts, OfConcat
<1>3. Select(b, K) = b
  BY <1>1, ContentOfParts
<1> HIDE DEF a, b, K
<1>4. w \o (a \o b) = (w \o a) \o b /\ w \o a \in Seq(WireEntry)
  <2>1. w \o (a \o b) = (w \o a) \o b
    BY <1>2, ConcatAssociative, SMTT(30)
  <2>2. w \o a \in Seq(WireEntry)
    BY <1>2, ConcatProperties
  <2>3. QED
    BY <2>1, <2>2
<1>5. Select((w \o a) \o b, K) = Select(w \o a, K) \o Select(b, K)
  <2> DEFINE x == w \o a
  <2>1. x \in Seq(WireEntry)
    BY <1>4
  <2> HIDE DEF x
  <2>2. Select(x \o b, K) = Select(x, K) \o Select(b, K)
    BY <1>2, <2>1, SelectConcat, SMTT(30)
  <2>3. QED
    BY <2>2 DEF x
<1>6. QED
  BY <1>2, <1>3, <1>4, <1>5 DEF a, b, K, Total

\* Only empty sequences join to the empty one.
LEMMA NothingInEither ==
  ASSUME NEW T, NEW a \in Seq(T), NEW b \in Seq(T), a \o b = <<>>
  PROVE  a = <<>> /\ b = <<>>
<1>1. Len(a \o b) = Len(a) + Len(b) /\ Len(a) \in Nat /\ Len(b) \in Nat
      /\ Len(a \o b) = 0
  BY ConcatProperties, LenProperties
<1>2. Len(a) = 0 /\ Len(b) = 0
  BY <1>1
<1>3. QED
  BY <1>2, EmptySeq

\* A head put in front of what waits comes first, if nothing but an interim
\* 100 was produced before.
LEMMA TotalHead ==
  ASSUME NEW w \in Seq(WireEntry), NEW q \in Requests, NEW o \in Seq(Part),
         Total(w, q, o) = <<>>
  PROVE  Total(w, q, <<"head">> \o o) = Of(q, <<"head">>)
<1> DEFINE a == Of(q, <<"head">>)
           b == Of(q, o)
           K == Content(q)
<1>1. <<"head">> \in Seq(Part) /\ <<"head">> \in Seq(Part \ {"100"})
      /\ <<"head">> \o o \in Seq(Part)
  BY ConcatProperties DEF Part
<1>2. a \in Seq(WireEntry) /\ b \in Seq(WireEntry) /\ Of(q, <<"head">> \o o) = a \o b
  BY <1>1, OfParts, OfConcat
<1>3. Select(a, K) = a
  BY <1>1, ContentOfParts
<1>4. Select(w, K) = <<>> /\ Select(b, K) = <<>>
  <2>1. Select(w, K) \in Seq(WireEntry) /\ Select(b, K) \in Seq(WireEntry)
    BY <1>2, SelectType
  <2>2. Total(w, q, o) = Select(w, K) \o Select(b, K)
    BY TotalSplit
  <2>3. QED
    BY <2>1, <2>2, NothingInEither
<1>5. Total(w, q, <<"head">> \o o) = Select(w, K) \o Select(a \o b, K)
  <2> DEFINE c == <<"head">> \o o
  <2>1. c \in Seq(Part) /\ Of(q, c) = a \o b
    BY <1>1, <1>2
  <2> HIDE DEF c, a, b
  <2>2. Total(w, q, c) = Select(w, Content(q)) \o Select(Of(q, c), Content(q))
    BY <2>1, TotalSplit
  <2>3. QED
    BY <2>1, <2>2 DEF c
<1> HIDE DEF a, b, K
<1>6. Select(a \o b, K) = Select(a, K) \o Select(b, K)
  BY <1>2, SelectConcat
<1>7. a \o <<>> = a /\ <<>> \o a = a
  BY <1>2, ConcatEmptySeq
<1>8. QED
  BY <1>3, <1>4, <1>5, <1>6, <1>7 DEF a

\* The head that _send adds.
HeadOf(r) == IF headerSent[r] THEN <<>> ELSE <<"head">>

\* _send: r has produced its head, if it was not sent before, and parts, behind
\* all it had produced, though a buffer's head is put in front of output.
LEMMA SendProduced ==
  ASSUME TypeOK, NEW r \in Requests, NEW buffer \in BOOLEAN,
         NEW parts \in Seq(Part \ {"100"}),
         Produced(r) = <<>> <=> ~headerSent[r], Send(r, buffer, parts)
  PROVE  /\ Produced(r)' = Produced(r) \o Of(r, HeadOf(r) \o parts)
         /\ \A q \in Requests : q # r => Produced(q)' = Produced(q)
<1> DEFINE head == HeadOf(r)
           out == output[r]
<1>1. /\ wire \in Seq(WireEntry) /\ out \in Seq(Part) /\ parts \in Seq(Part)
      /\ head \in Seq(Part) /\ head \in Seq(Part \ {"100"})
  <2>1. wire \in Seq(WireEntry) /\ out \in Seq(Part)
    BY DEF TypeOK, WireEntry
  <2>2. parts \in Seq(Part)
    BY SeqMonotonic
  <2>3. <<"head">> \in Seq(Part \ {"100"}) /\ <<>> \in Seq(Part \ {"100"})
    BY EmptySeq DEF Part
  <2>4. head \in Seq(Part \ {"100"})
    BY <2>3 DEF HeadOf
  <2>5. head \in Seq(Part)
    BY <2>4, SeqMonotonic
  <2>6. QED
    BY <2>1, <2>2, <2>4, <2>5
<1>2. \/ WriteRaw(r, head \o out, parts)
      \/ WriteRaw(r, out, head \o parts)
  BY DEF Send, HeadOf
<1>3. Produced(r) = Total(wire, r, out)
  BY ProducedIsTotal
<1>4. headerSent[r] => head = <<>>
  BY DEF HeadOf
<1>5. ~headerSent[r] => head = <<"head">> /\ Total(wire, r, out) = <<>>
  BY <1>3 DEF HeadOf
<1> HIDE DEF head, out
<1>6. /\ head \o out \in Seq(Part) /\ head \o parts \in Seq(Part)
      /\ head \o parts \in Seq(Part \ {"100"})
  BY <1>1, ConcatProperties
<1>7. CASE WriteRaw(r, out, head \o parts)
  <2> DEFINE all == head \o parts
  <2>1. all \in Seq(Part) /\ all \in Seq(Part \ {"100"}) /\ WriteRaw(r, out, all)
    BY <1>6, <1>7
  <2> HIDE DEF all
  <2>2. /\ Produced(r)' = Total(wire, r, out \o all)
        /\ \A q \in Requests : q # r => Produced(q)' = Produced(q)
    BY <1>1, <2>1, WriteRawProduced
  <2>3. Total(wire, r, out \o all) = Total(wire, r, out) \o Of(r, all)
    BY <1>1, <2>1, TotalMore
  <2>4. QED
    BY <1>3, <2>2, <2>3 DEF all, head
<1>8. CASE WriteRaw(r, head \o out, parts)
  <2> DEFINE o == head \o out
  <2>1. o \in Seq(Part) /\ WriteRaw(r, o, parts)
    BY <1>6, <1>8
  <2> HIDE DEF o
  <2>2. /\ Produced(r)' = Total(wire, r, o \o parts)
        /\ \A q \in Requests : q # r => Produced(q)' = Produced(q)
    BY <1>1, <2>1, WriteRawProduced
  <2>3. Total(wire, r, o \o parts) = Total(wire, r, o) \o Of(r, parts)
    BY <1>1, <2>1, TotalMore
  <2>4. Total(wire, r, o) \o Of(r, parts) = Total(wire, r, out) \o Of(r, head \o parts)
    <3>1. CASE headerSent[r]
      <4>1. o = out /\ head \o parts = parts
        BY <1>1, <1>4, <3>1, ConcatEmptySeq DEF o
      <4>2. QED
        BY <4>1
    <3>2. CASE ~headerSent[r]
      <4>1. Total(wire, r, o) = Of(r, head)
        BY <1>1, <1>5, <3>2, TotalHead DEF o
      <4>2. Of(r, head \o parts) = Of(r, head) \o Of(r, parts)
        BY <1>1, OfConcat
      <4>3. Of(r, head \o parts) \in Seq(WireEntry)
        BY <1>6, OfParts
      <4>4. <<>> \o Of(r, head \o parts) = Of(r, head \o parts)
        BY <4>3, ConcatEmptySeq
      <4>5. QED
        BY <1>5, <3>2, <4>1, <4>2, <4>4
    <3>3. QED
      BY <3>1, <3>2
  <2>5. QED
    BY <1>3, <2>2, <2>3, <2>4 DEF head
<1>9. QED
  BY <1>2, <1>7, <1>8

-----------------------------------------------------------------------------
\* Parts that may follow in a response: no second head, and the final chunk
\* last, when the response has ended.
Following(parts, ended) ==
  \A i \in 1 .. Len(parts) :
    /\ parts[i] \in Part \ {"100", "head"}
    /\ parts[i] = "tail" => i = Len(parts) /\ ended

\* Parts that may follow keep a response well formed.
LEMMA WellFormedMore ==
  ASSUME NEW s \in Seq(WireEntry), NEW r \in Requests, NEW ended,
         NEW parts \in Seq(Part), Following(parts, ended), s # <<>>, WellFormed(s, FALSE)
  PROVE  WellFormed(s \o Of(r, parts), ended)
<1> DEFINE t == Of(r, parts)
           n == Len(s)
           m == Len(parts)
<1>1. /\ t \in Seq(WireEntry) /\ Len(t) = m /\ m \in Nat /\ n \in Nat /\ n > 0
      /\ \A i \in 1 .. m : t[i].part = parts[i]
  <2>1. t \in Seq(WireEntry) /\ Len(t) = m /\ m \in Nat /\ n \in Nat
    BY OfParts, LenProperties
  <2>2. n # 0
    BY EmptySeq
  <2>3. \A i \in 1 .. m : t[i].part = parts[i]
    BY DEF Of
  <2>4. QED
    BY <2>1, <2>2, <2>3
<1>2. \A i \in 1 .. n : (s[i].part = "head" <=> i = 1) /\ s[i].part # "tail"
  BY DEF WellFormed
<1>3. \A i \in 1 .. m : /\ parts[i] # "head"
                        /\ parts[i] = "tail" => i = m /\ ended
  BY DEF Following
<1> HIDE DEF t
<1>4. /\ Len(s \o t) = n + m
      /\ \A i \in 1 .. n + m : (s \o t)[i] = IF i <= n THEN s[i] ELSE t[i - n]
  <2>1. /\ Len(s \o t) = Len(s) + Len(t)
        /\ \A i \in 1 .. Len(s) + Len(t) :
             (s \o t)[i] = IF i <= Len(s) THEN s[i] ELSE t[i - Len(s)]
    BY <1>1, ConcatProperties
  <2>2. QED
    BY <1>1, <2>1
<1> HIDE DEF n, m
<1>5. ASSUME NEW i \in 1 .. n + m
      PROVE  /\ (s \o t)[i].part = "head" <=> i = 1
             /\ (s \o t)[i].part = "tail" => i = n + m /\ ended
  <2>1. CASE i <= n
    BY <1>1, <1>2, <1>4, <2>1
  <2>2. CASE ~(i <= n)
    <3>1. i - n \in 1 .. m /\ i # 1 /\ (i - n = m => i = n + m)
      BY <1>1, <2>2
    <3>2. (s \o t)[i].part = parts[i - n]
      BY <1>1, <1>4, <2>2, <3>1
    <3>3. QED
      BY <1>3, <3>1, <3>2
  <2>3. QED
    BY <2>1, <2>2
<1>6. QED
  BY <1>4, <1>5 DEF WellFormed, t

\* A head with parts that may follow it is well formed.
LEMMA WellFormedFirst ==
  ASSUME NEW r \in Requests, NEW ended, NEW parts \in Seq(Part), Following(parts, ended)
  PROVE  WellFormed(Of(r, <<"head">> \o parts), ended)
<1> DEFINE a == Of(r, <<"head">>)
<1>1. <<"head">> \in Seq(Part) /\ Len(<<"head">>) = 1
  BY DEF Part
<1>2. a \in Seq(WireEntry) /\ Len(a) = 1 /\ a[1].part = "head"
  <2>1. a \in Seq(WireEntry) /\ Len(a) = 1
    BY <1>1, OfParts
  <2>2. a[1].part = "head"
    BY <1>1 DEF Of
  <2>3. QED
    BY <2>1, <2>2
<1>3. Of(r, <<"head">> \o parts) = a \o Of(r, parts)
  BY <1>1, OfConcat
<1> HIDE DEF a
<1>4. a # <<>> /\ WellFormed(a, FALSE)
  <2>1. a # <<>>
    BY <1>2, EmptySeq
  <2>2. \A i \in 1 .. Len(a) : i = 1
    BY <1>2
  <2>3. WellFormed(a, FALSE)
    BY <1>2, <2>2 DEF WellFormed
  <2>4. QED
    BY <2>1, <2>3
<1>5. QED
  BY <1>2, <1>3, <1>4, WellFormedMore

-----------------------------------------------------------------------------
\* A response has produced something exactly when its head was sent; one that
\* is not parsed yet has nothing waiting.
PartsOf(r) ==
  /\ WellFormed(Produced(r), finished[r])
  /\ Produced(r) = <<>> <=> ~headerSent[r]
  /\ r > requests => output[r] = <<>>
PartsInv == \A r \in Requests : PartsOf(r)

\* Nothing is produced at first.
LEMMA PartsInit == Init => PartsInv
<1> SUFFICES ASSUME Init, NEW r \in Requests PROVE PartsOf(r)
  BY DEF PartsInv
<1>1. Of(r, <<>>) = <<>>
  <2>1. <<>> \in Seq(Part) /\ Len(<<>>) = 0
    BY EmptySeq
  <2>2. Of(r, <<>>) \in Seq(WireEntry) /\ Len(Of(r, <<>>)) = 0
    BY <2>1, OfParts
  <2>3. QED
    BY <2>2, EmptySeq
<1>2. wire = <<>> /\ output[r] = <<>> /\ ~headerSent[r]
  BY DEF Init
<1>3. <<>> \o <<>> = <<>>
  BY EmptySeq, ConcatEmptySeq
<1>4. Produced(r) = <<>>
  BY <1>1, <1>2, <1>3, SelectEmpty DEF Produced
<1>5. WellFormed(<<>>, finished[r])
  BY DEF WellFormed
<1>6. QED
  BY <1>2, <1>4, <1>5 DEF PartsOf

\* write() or end() of a response that has not ended.
LEMMA SendKeepsParts ==
  ASSUME TypeOK, PartsInv, NEW r \in Requests, NEW buffer \in BOOLEAN,
         NEW parts \in Seq(Part), NEW ended \in BOOLEAN, Following(parts, ended),
         ~finished[r], finished' = [finished EXCEPT ![r] = ended],
         r <= requests, requests' = requests, Send(r, buffer, parts)
  PROVE  PartsInv'
<1>1. parts \in Seq(Part \ {"100"})
  <2> DEFINE n == Len(parts)
             S == Part \ {"100"}
  <2>1. n \in Nat /\ parts \in [1 .. n -> Part] /\ \A i \in 1 .. n : parts[i] \in S
    BY DEF Following
  <2> HIDE DEF n, S
  <2>2. parts \in [1 .. n -> S]
    BY <2>1
  <2>3. QED
    BY <2>1, <2>2, SeqDef DEF S
<1>2. PartsOf(r)
  BY DEF PartsInv
<1>3. /\ Produced(r)' = Produced(r) \o Of(r, HeadOf(r) \o parts)
      /\ \A q \in Requests : q # r => Produced(q)' = Produced(q)
  BY <1>1, <1>2, SendProduced DEF PartsOf
<1>4. headerSent' = [headerSent EXCEPT ![r] = TRUE] /\ headerSent \in [Requests -> BOOLEAN]
      /\ finished \in [Requests -> BOOLEAN]
  BY DEF Send, TypeOK
<1>5. \A q \in Requests : q # r => output'[q] = output[q]
  BY DEF Send, WriteRaw, TypeOK
<1>6. Produced(r) \in Seq(WireEntry)
  <2>1. wire \in Seq(WireEntry) /\ output[r] \in Seq(Part)
    BY DEF TypeOK, WireEntry
  <2>2. QED
    BY <2>1, TotalSplit, ProducedIsTotal
<1>7. WellFormed(Produced(r)', ended) /\ Produced(r)' # <<>>
  <2>1. CASE headerSent[r]
    <3>1. Produced(r) # <<>> /\ WellFormed(Produced(r), FALSE)
      <4>1. finished[r] = FALSE
        BY <1>4
      <4>2. Produced(r) # <<>> /\ WellFormed(Produced(r), finished[r])
        BY <1>2, <2>1 DEF PartsOf
      <4>3. QED
        BY <4>1, <4>2, Zenon
    <3>2. HeadOf(r) \o parts = parts
      BY <2>1, ConcatEmptySeq DEF HeadOf
    <3>3. Of(r, parts) \in Seq(WireEntry)
      BY OfParts
    <3>4. WellFormed(Produced(r) \o Of(r, parts), ended)
      BY <1>6, <3>1, WellFormedMore
    <3>5. Produced(r) \o Of(r, parts) # <<>>
      BY <1>6, <3>1, <3>3, NothingInEither
    <3>6. QED
      BY <1>3, <3>2, <3>4, <3>5
  <2>2. CASE ~headerSent[r]
    <3> DEFINE all == <<"head">> \o parts
    <3>1. Produced(r) = <<>> /\ HeadOf(r) \o parts = all
      BY <1>2, <2>2 DEF PartsOf, HeadOf
    <3>2. /\ all \in Seq(Part) /\ all # <<>>
      <4>1. <<"head">> \in Seq(Part) /\ <<"head">> # <<>>
        BY DEF Part
      <4>2. all \in Seq(Part)
        BY <4>1, ConcatProperties
      <4>3. all # <<>>
        BY <4>1, NothingInEither
      <4>4. QED
        BY <4>2, <4>3
    <3>3. WellFormed(Of(r, all), ended)
      BY WellFormedFirst
    <3> HIDE DEF all
    <3>4. Of(r, all) \in Seq(WireEntry) /\ Len(Of(r, all)) = Len(all)
      BY <3>2, OfParts
    <3>5. Of(r, all) # <<>>
      BY <3>2, <3>4, EmptySeq
    <3>6. Produced(r)' = Of(r, all)
      BY <1>3, <3>1, <3>4, ConcatEmptySeq
    <3>7. QED
      BY <3>3, <3>5, <3>6
  <2>3. QED
    BY <2>1, <2>2
<1>8. ASSUME NEW q \in Requests PROVE PartsOf(q)'
  <2>1. CASE q = r
    <3>1. headerSent'[q] /\ finished'[q] = ended /\ ~(q > requests')
      BY <1>4, <2>1 DEF TypeOK, Requests
    <3>2. QED
      BY <1>7, <2>1, <3>1 DEF PartsOf
  <2>2. CASE q # r
    <3>1. headerSent'[q] = headerSent[q] /\ finished'[q] = finished[q]
      BY <1>4, <2>2
    <3>2. PartsOf(q)
      BY DEF PartsInv
    <3>3. QED
      BY <1>3, <1>5, <2>2, <3>1, <3>2 DEF PartsOf
  <2>3. QED
    BY <2>1, <2>2
<1>9. QED
  BY <1>8 DEF PartsInv

\* write() and end(), with the parts each of them hands to _send.
LEMMA AppKeepsParts ==
  ASSUME TypeOK, PartsInv, NEW r \in Requests, NEW buffer \in BOOLEAN,
         \/ ResponseWrite(r, buffer)
         \/ \E body \in {<<>>, <<"body">>} : ResponseEnd(r, buffer, body)
  PROVE  PartsInv'
<1>1. CASE ResponseWrite(r, buffer)
  <2>1. <<"body">> \in Seq(Part) /\ Following(<<"body">>, FALSE)
    BY DEF Part, Following
  <2>2. /\ ~finished[r] /\ r <= requests /\ requests' = requests
        /\ Send(r, buffer, <<"body">>)
        /\ finished' = [finished EXCEPT ![r] = FALSE]
    BY <1>1 DEF ResponseWrite, AppCall, listVars, TypeOK
  <2>3. QED
    BY <2>1, <2>2, SendKeepsParts
<1>2. ASSUME NEW body \in {<<>>, <<"body">>}, ResponseEnd(r, buffer, body)
      PROVE  PartsInv'
  <2> DEFINE parts == body \o (IF chunked'[r] THEN <<"tail">> ELSE <<>>)
  <2>1. parts \in {<<>>, <<"body">>, <<"tail">>, <<"body", "tail">>}
    <3>1. /\ <<>> \o <<>> = <<>> /\ <<>> \o <<"tail">> = <<"tail">>
          /\ <<"body">> \o <<>> = <<"body">>
          /\ <<"body">> \o <<"tail">> = <<"body", "tail">>
      <4>1. <<"body">> \in Seq(Part) /\ <<"tail">> \in Seq(Part) /\ <<>> \in Seq(Part)
        BY EmptySeq DEF Part
      <4>2. /\ <<>> \o <<>> = <<>> /\ <<>> \o <<"tail">> = <<"tail">>
            /\ <<"body">> \o <<>> = <<"body">>
        BY <4>1, ConcatEmptySeq
      <4>3. <<"body">> \o <<"tail">> = Append(<<"body">>, "tail")
        BY <4>1, AppendIsConcat DEF Part
      <4>4. Append(<<"body">>, "tail") = <<"body", "tail">>
        BY PairIsAppend
      <4>5. QED
        BY <4>2, <4>3, <4>4
    <3>2. QED
      BY <3>1
  <2> HIDE DEF parts
  <2>2. parts \in Seq(Part) /\ Following(parts, TRUE)
    <3>1. CASE parts = <<>>
      BY <3>1 DEF Following
    <3>2. CASE parts = <<"body">>
      BY <3>2 DEF Part, Following
    <3>3. CASE parts = <<"tail">>
      BY <3>3 DEF Part, Following
    <3>4. CASE parts = <<"body", "tail">>
      BY <3>4 DEF Part, Following
    <3>5. QED
      BY <2>1, <3>1, <3>2, <3>3, <3>4
  <2>3. /\ ~finished[r] /\ r <= requests /\ requests' = requests
        /\ Send(r, buffer, parts)
        /\ finished' = [finished EXCEPT ![r] = TRUE]
    BY <1>2 DEF ResponseEnd, AppCall, listVars, parts
  <2>4. QED
    BY <2>2, <2>3, SendKeepsParts
<1>3. QED
  BY <1>1, <1>2

\* The interim 100 of a new request, on the wire or waiting, is no part of the
\* response proper.
LEMMA OnIncomingKeepsParts ==
  ASSUME TypeOK, PartsInv, NEW expect, OnIncoming(expect)
  PROVE  PartsInv'
<1> DEFINE r == requests + 1
           interim == <<"100">>
<1>1. /\ r \in Requests /\ requests' = r /\ r > requests
      /\ finished' = finished /\ headerSent' = headerSent
  BY PipelineAssumption DEF OnIncoming, TypeOK, Requests, headVars
<1>2. /\ wire \in Seq(WireEntry) /\ \A q \in Requests : output[q] \in Seq(Part)
      /\ interim \in Seq(Part) /\ <<>> \in Seq(Part) /\ <<>> \in Seq(Part \ {"100"})
  BY EmptySeq DEF TypeOK, WireEntry, Part
<1>3. output[r] = <<>>
  BY <1>1 DEF PartsInv, PartsOf
<1>4. \/ wire' = wire /\ output' = output
      \/ wire' = wire \o Of(r, interim) /\ output' = output
      \/ wire' = wire /\ output' = [output EXCEPT ![r] = interim]
  BY DEF OnIncoming
<1>5. Total(wire, r, interim) = Total(wire, r, <<>>)
  <2>0. interim = <<"100">>
    OBVIOUS
  <2>1. Select(Of(r, interim), Content(r)) = <<>>
    BY <1>1, <1>2, <2>0, ContentOfParts
  <2>2. Select(Of(r, <<>>), Content(r)) = <<>>
    <3>1. Of(r, <<>>) \in Seq(WireEntry) /\ Len(Of(r, <<>>)) = Len(<<>>) /\ Len(<<>>) = 0
      BY <1>1, <1>2, OfParts, EmptySeq
    <3>2. Of(r, <<>>) = <<>>
      BY <3>1, EmptySeq
    <3>3. QED
      BY <3>2, SelectEmpty
  <2> HIDE DEF r, interim
  <2>3. /\ Total(wire, r, interim) =
             Select(wire, Content(r)) \o Select(Of(r, interim), Content(r))
        /\ Total(wire, r, <<>>) =
             Select(wire, Content(r)) \o Select(Of(r, <<>>), Content(r))
    BY <1>1, <1>2, TotalSplit
  <2>4. QED
    BY <2>1, <2>2, <2>3
<1> HIDE DEF r, interim
<1>6. ASSUME NEW q \in Requests PROVE Produced(q)' = Produced(q)
  <2>1. CASE wire' = wire /\ output' = output
    BY <2>1, ProducedIsTotal
  <2>2. CASE wire' = wire \o Of(r, interim) /\ output' = output
    <3>1. CASE q = r
      BY <1>1, <1>2, <1>3, <1>5, <2>2, <3>1, TotalSplit, ProducedIsTotal
    <3>2. CASE q # r
      BY <1>1, <1>2, <2>2, <3>2, TotalOfOthers, ProducedIsTotal
    <3>3. QED
      BY <3>1, <3>2
  <2>3. CASE wire' = wire /\ output' = [output EXCEPT ![r] = interim]
    <3>1. output'[q] = IF q = r THEN interim ELSE output[q]
      BY <1>1, <2>3 DEF TypeOK
    <3>2. QED
      BY <1>1, <1>3, <1>5, <2>3, <3>1, ProducedIsTotal
  <2>4. QED
    BY <1>4, <2>1, <2>2, <2>3
<1>7. ASSUME NEW q \in Requests, q > requests' PROVE output'[q] = <<>>
  <2>1. q > requests /\ q # r
    BY <1>1, <1>7 DEF TypeOK, Requests, r
  <2>2. output[q] = <<>>
    BY <2>1 DEF PartsInv, PartsOf
  <2>3. output'[q] = output[q]
    BY <1>4, <2>1 DEF TypeOK
  <2>4. QED
    BY <2>2, <2>3
<1>8. QED
  BY <1>1, <1>6, <1>7 DEF PartsInv, PartsOf

\* The next response is flushed, or nothing is written.
LEMMA FinishKeepsParts ==
  ASSUME TypeOK, PartsInv, Finish
  PROVE  PartsInv'
<1>1. UNCHANGED <<requests, headerSent, finished>>
  BY FinishSteps DEF headVars
<1>2. CASE UNCHANGED <<wire, output>>
  BY <1>1, <1>2 DEF PartsInv, PartsOf, Produced
<1>3. ASSUME NEW m \in Requests, wire' = wire \o Of(m, output[m]),
             output' = [output EXCEPT ![m] = <<>>]
      PROVE  PartsInv'
  <2>1. wire \in Seq(WireEntry) /\ \A q \in Requests : output[q] \in Seq(Part)
    BY DEF TypeOK, WireEntry
  <2>2. \A q \in Requests : output'[q] = IF q = m THEN <<>> ELSE output[q]
    BY <1>3 DEF TypeOK
  <2>3. ASSUME NEW q \in Requests PROVE Produced(q)' = Produced(q)
    <3>1. CASE q = m
      BY <1>3, <2>1, <2>2, <3>1, TotalSplit, ProducedIsTotal
    <3>2. CASE q # m
      BY <1>3, <2>1, <2>2, <3>2, TotalOfOthers, ProducedIsTotal
    <3>3. QED
      BY <3>1, <3>2
  <2>4. QED
    BY <1>1, <2>2, <2>3 DEF PartsInv, PartsOf
<1>4. QED
  BY <1>2, <1>3, FinishSteps DEF FinishLast, FinishIdle, FinishNext

\* No step disturbs the order of any response.
LEMMA PartsStep == TypeOK /\ PartsInv /\ [Next]_vars => PartsInv'
<1> SUFFICES ASSUME TypeOK, PartsInv, [Next]_vars PROVE PartsInv'
  OBVIOUS
<1>1. CASE \E expect \in {FALSE, Expect} : OnIncoming(expect)
  BY <1>1, OnIncomingKeepsParts
<1>2. ASSUME NEW r \in Requests, NEW buffer \in BOOLEAN,
             \/ ResponseWrite(r, buffer)
             \/ \E body \in {<<>>, <<"body">>} : ResponseEnd(r, buffer, body)
      PROVE  PartsInv'
  BY <1>2, AppKeepsParts
<1>3. CASE Finish
  BY <1>3, FinishKeepsParts
<1>4. CASE SocketClose
  BY <1>4 DEF SocketClose, headVars, PartsInv, PartsOf, Produced
<1>5. CASE UNCHANGED vars
  BY <1>5 DEF vars, listVars, headVars, PartsInv, PartsOf, Produced
<1>6. QED
  BY <1>1, <1>2, <1>3, <1>4, <1>5 DEF Next

\* What is on the wire is the front of what the response has produced.
LEMMA PartsImply == TypeOK /\ PartsInv => PartsInOrder
<1> SUFFICES ASSUME TypeOK, PartsInv, NEW r \in Requests,
                    NEW i \in 1 .. Len(Select(wire, Content(r)))
             PROVE  /\ Select(wire, Content(r))[i].part = "head" <=> i = 1
                    /\ Select(wire, Content(r))[i].part = "tail" =>
                         i = Len(Select(wire, Content(r))) /\ finished[r]
  BY DEF PartsInOrder, Content
<1> DEFINE a == Select(wire, Content(r))
           b == Select(Of(r, output[r]), Content(r))
<1>1. wire \in Seq(WireEntry) /\ output[r] \in Seq(Part)
  BY DEF TypeOK, WireEntry
<1>2. a \in Seq(WireEntry) /\ b \in Seq(WireEntry) /\ Produced(r) = a \o b
  <2>1. Of(r, output[r]) \in Seq(WireEntry)
    BY <1>1, OfParts
  <2>2. a \in Seq(WireEntry) /\ b \in Seq(WireEntry)
    BY <1>1, <2>1, SelectType
  <2>3. QED
    BY <1>1, <2>2, TotalSplit, ProducedIsTotal
<1>3. WellFormed(a \o b, finished[r])
  BY <1>2 DEF PartsInv, PartsOf
<1> HIDE DEF a, b
<1>4. /\ Len(a \o b) = Len(a) + Len(b) /\ Len(a) \in Nat /\ Len(b) \in Nat
      /\ \A j \in 1 .. Len(a) : (a \o b)[j] = a[j]
  BY <1>2
<1>5. ASSUME NEW j \in 1 .. Len(a)
      PROVE  /\ a[j].part = "head" <=> j = 1
             /\ a[j].part = "tail" => j = Len(a) /\ finished[r]
  <2> DEFINE n == Len(a)
             k == Len(b)
  <2>1. j \in 1 .. Len(a \o b) /\ (a \o b)[j] = a[j]
    <3>1. n \in Nat /\ k \in Nat /\ j \in 1 .. n /\ Len(a \o b) = n + k
      BY <1>4
    <3> HIDE DEF n, k
    <3>2. j \in 1 .. Len(a \o b)
      BY <3>1
    <3>3. QED
      BY <1>4, <3>2
  <2>2. /\ a[j].part = "head" <=> j = 1
        /\ a[j].part = "tail" => j = Len(a \o b) /\ finished[r]
    BY <1>3, <2>1 DEF WellFormed
  <2>3. j = Len(a \o b) => j = Len(a)
    <3>1. n \in Nat /\ k \in Nat /\ j \in 1 .. n /\ Len(a \o b) = n + k
      BY <1>4
    <3> HIDE DEF n, k
    <3>2. j = n + k => j = n
      BY <3>1
    <3>3. QED
      BY <3>1, <3>2 DEF n
  <2>4. QED
    BY <2>2, <2>3
<1>6. QED
  BY <1>5 DEF a

\* However write() and end() alternate between buffering in output and writing
\* to the socket, with strings or buffers, each response reaches the wire head
\* first and final chunk last (http2.js, _send, _writeRaw, _buffer, _flush).
THEOREM PartsStayInOrder == Spec => []PartsInOrder
<1>1. QED
  BY PartsInit, PartsStep, PartsImply, PipelineTypeCorrect, PTL DEF Spec
=============================================================================
