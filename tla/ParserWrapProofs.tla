------------------------- MODULE ParserWrapProofs -------------------------
(***************************************************************************)
(* What the server is told of the requests of a connection, for requests   *)
(* of any urls, headers, bodies and trailers, sent in any number over any  *)
(* number of connections, in chunks cut anywhere.                          *)
(*                                                                         *)
(* Inv says where the parser is: between two requests, within one with a   *)
(* suffix cur of it still to come, behind an upgrade request, or behind    *)
(* the byte that broke the connection; and what it holds and has told      *)
(* there. A place within a request is a place in its url, in its list of   *)
(* header lines, in its body or chunks, or in its trailer. The lemmas      *)
(* follow a byte through these places.                                     *)
(***************************************************************************)
EXTENDS ParserWrap, SequenceTheorems, WellFoundedInduction, TLAPS

-----------------------------------------------------------------------------
(* FlattenSeq.                                                             *)

\* A set of numbers that is not empty has a least one.
LEMMA LeastNumber ==
  ASSUME NEW S \in SUBSET Nat, NEW n \in S
  PROVE  \E m \in S : \A k \in S : m <= k
<1>1. \E m \in S : \A k \in S : <<k, m>> \notin OpToRel(<, Nat)
  BY WFMin, NatLessThanWellFounded
<1>2. \A k, m \in S : <<k, m>> \in OpToRel(<, Nat) <=> k < m
  BY DEF OpToRel
<1>3. \A k, m \in S : k \in Nat /\ m \in Nat /\ (~(k < m) <=> m <= k)
  OBVIOUS
<1>4. QED
  BY <1>1, <1>2, <1>3

\* Induction over the numbers, for a set.
LEMMA NatSetInduction ==
  ASSUME NEW S, 0 \in S, \A n \in Nat : n \in S => n + 1 \in S
  PROVE  \A n \in Nat : n \in S
<1> SUFFICES ASSUME NEW x \in Nat \ S PROVE FALSE
  OBVIOUS
<1>1. PICK m \in Nat \ S : \A k \in Nat \ S : m <= k
  BY LeastNumber
<1>2. m # 0 /\ m - 1 \in Nat /\ m - 1 \in S
  BY <1>1
<1>3. QED
  BY <1>1, <1>2

\* A sequence that is not empty is one element longer than its front.
LEMMA AllButLast ==
  ASSUME NEW T, NEW u \in Seq(T), NEW n \in Nat, Len(u) = n + 1
  PROVE  \E v \in Seq(T), e \in T : u = Append(v, e) /\ Len(v) = n
<1> DEFINE v == [i \in 1 .. n |-> u[i]]
           e == u[n + 1]
<1>1. v \in Seq(T) /\ Len(v) = n /\ e \in T
  OBVIOUS
<1>2. u = Append(v, e)
  BY <1>1
<1>3. QED
  BY <1>1, <1>2

\* FlattenSeq by recursion over the first elements.
Flattened(s, F, i) == IF i = 1 THEN s[i] ELSE F[i - 1] \o s[i]
IsFlattened(s, n, F) == F = [i \in 1 .. n |-> Flattened(s, F, i)]

\* The recursion that FlattenSeq chooses has a solution for every length.
LEMMA FlattenExists ==
  ASSUME NEW s, NEW n \in Nat
  PROVE  \E F : IsFlattened(s, n, F)
<1> DEFINE S == {m \in Nat : \E F : IsFlattened(s, m, F)}
<1>1. 0 \in S
  <2>1. IsFlattened(s, 0, [i \in 1 .. 0 |-> <<>>])
    BY DEF IsFlattened
  <2>2. QED
    BY <2>1
<1>2. ASSUME NEW m \in Nat, m \in S PROVE m + 1 \in S
  <2>1. PICK F : IsFlattened(s, m, F)
    BY <1>2
  <2> DEFINE G == [i \in 1 .. m + 1 |-> Flattened(s, F, i)]
  <2>2. \A i \in 1 .. m : F[i] = G[i]
    BY <2>1 DEF IsFlattened
  <2>3. \A i \in 1 .. m + 1 : Flattened(s, F, i) = Flattened(s, G, i)
    <3> HIDE DEF G
    <3>1. \A i \in 1 .. m + 1 : i # 1 => i - 1 \in 1 .. m
      OBVIOUS
    <3>2. QED
      BY <2>2, <3>1 DEF Flattened
  <2>4. IsFlattened(s, m + 1, G)
    BY <2>3 DEF IsFlattened
  <2>5. QED
    BY <2>4
<1> HIDE DEF S
<1>3. n \in S
  BY <1>1, <1>2, NatSetInduction
<1>4. QED
  BY <1>3 DEF S

\* FlattenSeq of a sequence that is not empty is that solution's last value.
LEMMA FlattenUnfolds ==
  ASSUME NEW s, Len(s) \in Nat \ {0}
  PROVE  \E F : IsFlattened(s, Len(s), F) /\ FlattenSeq(s) = F[Len(s)]
<1> DEFINE Good(F) == F = [i \in 1 .. Len(s) |-> IF i = 1 THEN s[i] ELSE F[i - 1] \o s[i]]
           C == CHOOSE F : Good(F)
<1>1. IsFlattened(s, Len(s), C)
  <2>1. \A F : IsFlattened(s, Len(s), F) <=> Good(F)
    BY DEF IsFlattened, Flattened
  <2>2. \E F : Good(F)
    BY <2>1, FlattenExists
  <2>3. Good(C)
    BY <2>2, Zenon
  <2>4. QED
    BY <2>1, <2>3
<1>2. FlattenSeq(s) = C[Len(s)]
  BY DEF FlattenSeq
<1>3. QED
  BY <1>1, <1>2

\* Nothing flattened is nothing.
LEMMA FlattenEmpty == FlattenSeq(<<>>) = <<>>
  BY EmptySeq DEF FlattenSeq

\* The last piece comes last.
LEMMA FlattenAppend ==
  ASSUME NEW T, NEW s \in Seq(Seq(T)), NEW x \in Seq(T)
  PROVE  FlattenSeq(Append(s, x)) = FlattenSeq(s) \o x
<1> DEFINE t == Append(s, x)
<1>1. /\ Len(s) \in Nat /\ Len(t) = Len(s) + 1 /\ t[Len(s) + 1] = x
      /\ \A i \in 1 .. Len(s) : t[i] = s[i]
  OBVIOUS
<1> HIDE DEF t
<1>2. PICK G : IsFlattened(t, Len(t), G) /\ FlattenSeq(t) = G[Len(t)]
  BY <1>1, FlattenUnfolds
<1>3. \A i \in 1 .. Len(t) : G[i] = Flattened(t, G, i)
  BY <1>2 DEF IsFlattened
<1>4. CASE Len(s) = 0
  <2>1. s = <<>> /\ FlattenSeq(s) = <<>>
    BY <1>4, EmptySeq, FlattenEmpty
  <2>2. FlattenSeq(t) = x
    BY <1>1, <1>2, <1>3, <1>4 DEF Flattened
  <2>3. <<>> \o x = x
    BY ConcatEmptySeq
  <2>4. QED
    BY <2>1, <2>2, <2>3 DEF t
<1>5. CASE Len(s) # 0
  <2>1. PICK F : IsFlattened(s, Len(s), F) /\ FlattenSeq(s) = F[Len(s)]
    BY <1>1, <1>5, FlattenUnfolds
  <2>2. \A i \in 1 .. Len(s) : F[i] = Flattened(s, F, i)
    BY <2>1 DEF IsFlattened
  <2> DEFINE S == {i \in Nat : i + 1 <= Len(s) => F[i + 1] = G[i + 1]}
  <2>3. 0 \in S
    BY <1>1, <1>3, <1>5, <2>2 DEF Flattened
  <2>4. ASSUME NEW i \in Nat, i \in S PROVE i + 1 \in S
    <3> SUFFICES ASSUME i + 2 <= Len(s) PROVE F[i + 2] = G[i + 2]
      <4>1. (i + 1) + 1 = i + 2
        OBVIOUS
      <4>2. QED
        BY <4>1
    <3>1. /\ F[i + 1] = G[i + 1] /\ i + 2 \in 1 .. Len(s) /\ i + 2 \in 1 .. Len(t)
          /\ i + 2 # 1 /\ (i + 2) - 1 = i + 1
      BY <1>1, <2>4
    <3>2. F[i + 2] = Flattened(s, F, i + 2) /\ G[i + 2] = Flattened(t, G, i + 2)
      BY <1>3, <2>2, <3>1
    <3>3. t[i + 2] = s[i + 2]
      BY <1>1, <3>1
    <3>4. QED
      BY <3>1, <3>2, <3>3 DEF Flattened
  <2>5. F[Len(s)] = G[Len(s)]
    <3>1. Len(s) - 1 \in Nat /\ (Len(s) - 1) + 1 = Len(s)
      BY <1>1, <1>5
    <3> HIDE DEF S
    <3>2. Len(s) - 1 \in S
      BY <2>3, <2>4, <3>1, NatSetInduction
    <3>3. QED
      BY <3>1, <3>2 DEF S
  <2>6. G[Len(s) + 1] = G[Len(s)] \o x
    <3>1. /\ Len(s) + 1 \in 1 .. Len(t) /\ Len(s) + 1 # 1 /\ (Len(s) + 1) - 1 = Len(s)
      BY <1>1, <1>5
    <3>2. G[Len(s) + 1] = Flattened(t, G, Len(s) + 1)
      BY <1>3, <3>1
    <3>3. QED
      BY <1>1, <3>1, <3>2 DEF Flattened
  <2>7. QED
    BY <1>1, <1>2, <2>1, <2>5, <2>6 DEF t
<1>6. QED
  BY <1>4, <1>5

\* Pieces of elements of T make a sequence over T.
LEMMA FlattenType ==
  ASSUME NEW T, NEW s \in Seq(Seq(T))
  PROVE  FlattenSeq(s) \in Seq(T)
<1> DEFINE S == {n \in Nat : \A u \in Seq(Seq(T)) : Len(u) = n => FlattenSeq(u) \in Seq(T)}
<1>1. 0 \in S
  BY EmptySeq, FlattenEmpty
<1>2. ASSUME NEW n \in Nat, n \in S PROVE n + 1 \in S
  <2>1. ASSUME NEW u \in Seq(Seq(T)), Len(u) = n + 1 PROVE FlattenSeq(u) \in Seq(T)
    <3>1. PICK v \in Seq(Seq(T)), e \in Seq(T) : u = Append(v, e) /\ Len(v) = n
      BY <2>1, AllButLast
    <3>2. FlattenSeq(v) \in Seq(T)
      BY <1>2, <3>1
    <3>3. FlattenSeq(u) = FlattenSeq(v) \o e
      BY <3>1, FlattenAppend
    <3>4. QED
      BY <3>2, <3>3, ConcatProperties
  <2>2. QED
    BY <2>1
<1>3. Len(s) \in S
  <2> HIDE DEF S
  <2>1. QED
    BY <1>1, <1>2, NatSetInduction
<1>4. QED
  BY <1>3

\* The first piece comes first.
LEMMA FlattenCons ==
  ASSUME NEW T, NEW x \in Seq(T), NEW s \in Seq(Seq(T))
  PROVE  FlattenSeq(<<x>> \o s) = x \o FlattenSeq(s)
<1> DEFINE one == <<x>>
           P(u) == FlattenSeq(one \o u) = x \o FlattenSeq(u)
           S == {n \in Nat : \A u \in Seq(Seq(T)) : Len(u) = n => P(u)}
<1>0. one \in Seq(Seq(T)) /\ one = Append(<<>>, x)
  OBVIOUS
<1> HIDE DEF one
<1>1. 0 \in S
  <2>1. ASSUME NEW u \in Seq(Seq(T)), Len(u) = 0 PROVE P(u)
    <3>1. u = <<>>
      BY <2>1, EmptySeq
    <3>2. one \o <<>> = one
      BY <1>0, ConcatEmptySeq
    <3>3. FlattenSeq(one) = <<>> \o x
      BY <1>0, EmptySeq, FlattenEmpty, FlattenAppend
    <3>4. <<>> \o x = x /\ x \o <<>> = x
      BY ConcatEmptySeq
    <3>5. QED
      BY <3>1, <3>2, <3>3, <3>4, FlattenEmpty
  <2>2. QED
    BY <2>1
<1>2. ASSUME NEW n \in Nat, n \in S PROVE n + 1 \in S
  <2>1. ASSUME NEW u \in Seq(Seq(T)), Len(u) = n + 1 PROVE P(u)
    <3>1. PICK v \in Seq(Seq(T)), e \in Seq(T) : u = Append(v, e) /\ Len(v) = n
      BY <2>1, AllButLast
    <3>2. FlattenSeq(one \o v) = x \o FlattenSeq(v)
      BY <1>2, <3>1
    <3>3. one \o v \in Seq(Seq(T)) /\ one \o u = Append(one \o v, e)
      BY <1>0, <3>1
    <3>4. FlattenSeq(one \o u) = FlattenSeq(one \o v) \o e
      <4> DEFINE w == one \o v
      <4>1. w \in Seq(Seq(T)) /\ one \o u = Append(w, e)
        BY <3>3
      <4> HIDE DEF w
      <4>2. FlattenSeq(Append(w, e)) = FlattenSeq(w) \o e
        BY <4>1, FlattenAppend
      <4>3. QED
        BY <4>1, <4>2 DEF w
    <3>5. FlattenSeq(u) = FlattenSeq(v) \o e /\ FlattenSeq(v) \in Seq(T)
      BY <3>1, FlattenAppend, FlattenType
    <3>6. (x \o FlattenSeq(v)) \o e = x \o (FlattenSeq(v) \o e)
      BY <3>5, ConcatAssociative, SMTT(30)
    <3>7. QED
      BY <3>2, <3>4, <3>5, <3>6
  <2>2. n + 1 \in Nat
    OBVIOUS
  <2> HIDE DEF P
  <2>3. QED
    BY <2>1, <2>2
<1>3. Len(s) \in S
  <2>1. Len(s) \in Nat
    OBVIOUS
  <2>2. \A n \in Nat : n \in S => n + 1 \in S
    BY <1>2
  <2> HIDE DEF S
  <2>3. QED
    BY <1>1, <2>1, <2>2, NatSetInduction
<1>4. P(s)
  <2> HIDE DEF P
  <2>1. QED
    BY <1>3
<1>5. QED
  BY <1>4 DEF one

\* The concatenation of all but the first k, and of the first k, sequences.
FlatFrom(f, k) == FlattenSeq(SubSeq(f, k + 1, Len(f)))
FlatTo(f, k) == FlattenSeq(SubSeq(f, 1, k))

\* The pieces after the first k, flattened, taken one piece at a time.
LEMMA FlatFromFacts ==
  ASSUME NEW T, NEW f \in Seq(Seq(T)), NEW k \in 0 .. Len(f)
  PROVE  /\ FlatFrom(f, k) \in Seq(T)
         /\ k = Len(f) => FlatFrom(f, k) = <<>>
         /\ k < Len(f) => FlatFrom(f, k) = f[k + 1] \o FlatFrom(f, k + 1)
         /\ FlatFrom(f, 0) = FlattenSeq(f)
<1> DEFINE g == SubSeq(f, k + 1, Len(f))
           h == SubSeq(f, k + 2, Len(f))
           n == Len(f)
<1>0. n \in Nat /\ k \in Nat /\ k <= n
  OBVIOUS
<1>1. /\ g \in Seq(Seq(T)) /\ Len(g) = n - k
      /\ \A i \in 1 .. n - k : g[i] = f[k + i]
  <2>1. k + 1 \in 1 .. n + 1 /\ n \in k .. n
    BY <1>0
  <2>2. g = [i \in 1 .. n - k |-> f[k + i]]
    BY <1>0 DEF SubSeq
  <2>3. \A i \in 1 .. n - k : k + i \in 1 .. n
    BY <1>0
  <2>4. \A i \in 1 .. n - k : f[k + i] \in Seq(T)
    BY <2>3
  <2> HIDE DEF g
  <2>5. n - k \in Nat
    BY <1>0
  <2>6. QED
    BY <2>2, <2>4, <2>5
<1>2. FlatFrom(f, k) \in Seq(T)
  <2> HIDE DEF g
  <2>1. FlattenSeq(g) \in Seq(T)
    BY <1>1, FlattenType
  <2>2. QED
    BY <2>1 DEF FlatFrom, g
<1>3. k = n => FlatFrom(f, k) = <<>>
  <2> SUFFICES ASSUME k = n PROVE FlatFrom(f, k) = <<>>
    OBVIOUS
  <2>1. Len(g) = 0
    BY <1>0, <1>1
  <2>2. g = <<>>
    BY <1>1, <2>1, EmptySeq
  <2>3. QED
    BY <2>2, FlattenEmpty DEF FlatFrom
<1>4. k < n => FlatFrom(f, k) = f[k + 1] \o FlatFrom(f, k + 1)
  <2> SUFFICES ASSUME k < n PROVE FlatFrom(f, k) = f[k + 1] \o FlatFrom(f, k + 1)
    OBVIOUS
  <2> DEFINE x == f[k + 1]
             one == <<x>>
  <2>1. x \in Seq(T) /\ one \in Seq(Seq(T)) /\ Len(one) = 1 /\ one[1] = x
    BY <1>0
  <2>2. /\ h \in Seq(Seq(T)) /\ Len(h) = n - k - 1
        /\ \A i \in 1 .. n - k - 1 : h[i] = f[k + 1 + i]
    <3>1. h = [i \in 1 .. n - k - 1 |-> f[k + 1 + i]]
      BY <1>0 DEF SubSeq
    <3>2. \A i \in 1 .. n - k - 1 : k + 1 + i \in 1 .. n
      BY <1>0
    <3>3. \A i \in 1 .. n - k - 1 : f[k + 1 + i] \in Seq(T)
      BY <3>2
    <3> HIDE DEF h
    <3>4. n - k - 1 \in Nat
      BY <1>0
    <3>5. QED
      BY <3>1, <3>3, <3>4
  <2> HIDE DEF x, one, g, h, n
  <2>3. g = one \o h
    <3>1. one \o h \in Seq(Seq(T)) /\ Len(one \o h) = n - k
          /\ \A i \in 1 .. n - k : (one \o h)[i] = IF i = 1 THEN x ELSE h[i - 1]
      <4>1. /\ one \o h \in Seq(Seq(T)) /\ Len(one \o h) = Len(one) + Len(h)
            /\ \A i \in 1 .. Len(one) + Len(h) :
                 (one \o h)[i] = IF i <= Len(one) THEN one[i] ELSE h[i - Len(one)]
        BY <2>1, <2>2, ConcatProperties
      <4>2. Len(one) + Len(h) = n - k
        BY <1>0, <2>1, <2>2
      <4>3. \A i \in 1 .. n - k : i <= 1 <=> i = 1
        BY <1>0
      <4>4. QED
        BY <2>1, <4>1, <4>2, <4>3
    <3>2. \A i \in 1 .. n - k : g[i] = (one \o h)[i]
      <4> SUFFICES ASSUME NEW i \in 1 .. n - k PROVE g[i] = (one \o h)[i]
        OBVIOUS
      <4>1. g[i] = f[k + i]
        BY <1>1
      <4>2. CASE i = 1
        BY <3>1, <4>1, <4>2 DEF x
      <4>3. CASE i # 1
        <5>1. i - 1 \in 1 .. n - k - 1 /\ k + 1 + (i - 1) = k + i
          BY <1>0, <4>3
        <5>2. h[i - 1] = f[k + i]
          BY <2>2, <5>1
        <5>3. QED
          BY <3>1, <4>1, <4>3, <5>2
      <4>4. QED
        BY <4>2, <4>3
    <3> DEFINE gg == one \o h
    <3>3. gg \in Seq(Seq(T)) /\ Len(gg) = Len(g) /\ \A i \in 1 .. Len(g) : g[i] = gg[i]
      BY <1>1, <3>1, <3>2
    <3> HIDE DEF gg
    <3>4. g = gg
      BY <1>1, <3>3, SeqEqual
    <3>5. QED
      BY <3>4 DEF gg
  <2>4. FlattenSeq(one \o h) = x \o FlattenSeq(h)
    BY <2>1, <2>2, FlattenCons DEF one
  <2>5. FlatFrom(f, k + 1) = FlattenSeq(h)
    <3>1. (k + 1) + 1 = k + 2
      BY <1>0
    <3>2. QED
      BY <3>1 DEF FlatFrom, h
  <2>6. QED
    BY <2>3, <2>4, <2>5 DEF FlatFrom, g, x
<1>5. FlatFrom(f, 0) = FlattenSeq(f)
  <2>1. SubSeq(f, 1, Len(f)) = f
    OBVIOUS
  <2>2. 0 + 1 = 1
    OBVIOUS
  <2>3. QED
    BY <2>1, <2>2 DEF FlatFrom
<1>6. QED
  BY <1>2, <1>3, <1>4, <1>5

\* A sequence is known to be Append(g, x) by its length and elements.
LEMMA AppendPointwise ==
  ASSUME NEW T, NEW g \in Seq(T), NEW x \in T, NEW w \in Seq(T), Len(w) = Len(g) + 1,
         \A i \in 1 .. Len(g) : w[i] = g[i], w[Len(g) + 1] = x
  PROVE  w = Append(g, x)
<1> DEFINE u == Append(g, x)
<1>1. /\ u \in Seq(T) /\ Len(u) = Len(g) + 1 /\ u[Len(g) + 1] = x
      /\ \A i \in 1 .. Len(g) : u[i] = g[i]
  OBVIOUS
<1> HIDE DEF u
<1>2. \A i \in 1 .. Len(w) : w[i] = u[i]
  <2>1. \A i \in 1 .. Len(w) : i \in 1 .. Len(g) \/ i = Len(g) + 1
    OBVIOUS
  <2>2. QED
    BY <1>1, <2>1
<1>3. w = u
  BY <1>1, <1>2, SeqEqual
<1>4. QED
  BY <1>3 DEF u

\* The first k pieces, flattened, built one piece at a time.
LEMMA FlatToFacts ==
  ASSUME NEW T, NEW f \in Seq(Seq(T)), NEW k \in 0 .. Len(f)
  PROVE  /\ FlatTo(f, k) \in Seq(T)
         /\ FlatTo(f, 0) = <<>>
         /\ k < Len(f) => FlatTo(f, k + 1) = FlatTo(f, k) \o f[k + 1]
         /\ FlatTo(f, Len(f)) = FlattenSeq(f)
<1> DEFINE g == SubSeq(f, 1, k)
<1>1. g \in Seq(Seq(T)) /\ Len(g) = k /\ \A i \in 1 .. k : g[i] = f[i]
  <2>1. g = [i \in 1 .. k |-> f[i]]
    BY DEF SubSeq
  <2>2. \A i \in 1 .. k : f[i] \in Seq(T)
    OBVIOUS
  <2> HIDE DEF g
  <2>3. QED
    BY <2>1, <2>2
<1>2. FlatTo(f, k) \in Seq(T)
  <2> HIDE DEF g
  <2>1. FlattenSeq(g) \in Seq(T)
    BY <1>1, FlattenType
  <2>2. QED
    BY <2>1 DEF FlatTo, g
<1>3. FlatTo(f, 0) = <<>>
  <2>1. SubSeq(f, 1, 0) = <<>>
    OBVIOUS
  <2>2. QED
    BY <2>1, FlattenEmpty DEF FlatTo
<1>4. k < Len(f) => FlatTo(f, k + 1) = FlatTo(f, k) \o f[k + 1]
  <2> SUFFICES ASSUME k < Len(f) PROVE FlatTo(f, k + 1) = FlatTo(f, k) \o f[k + 1]
    OBVIOUS
  <2> DEFINE x == f[k + 1]
  <2>1. x \in Seq(T)
    OBVIOUS
  <2>2. SubSeq(f, 1, k + 1) = Append(g, x)
    <3> DEFINE w == SubSeq(f, 1, k + 1)
    <3>1. w \in Seq(Seq(T)) /\ Len(w) = k + 1 /\ \A i \in 1 .. k + 1 : w[i] = f[i]
      <4>1. w = [i \in 1 .. k + 1 |-> f[i]]
        BY DEF SubSeq
      <4>2. \A i \in 1 .. k + 1 : f[i] \in Seq(T)
        OBVIOUS
      <4> HIDE DEF w
      <4>3. QED
        BY <4>1, <4>2
    <3> HIDE DEF g, w
    <3>2. Len(w) = Len(g) + 1 /\ (\A i \in 1 .. Len(g) : w[i] = g[i]) /\ w[Len(g) + 1] = x
      <4>1. k \in Nat /\ k + 1 \in 1 .. k + 1 /\ \A i \in 1 .. k : i \in 1 .. k + 1
        OBVIOUS
      <4>2. w[k + 1] = x
        BY <3>1, <4>1
      <4> HIDE DEF x
      <4>3. QED
        BY <1>1, <3>1, <4>1, <4>2
    <3> HIDE DEF x
    <3>3. w = Append(g, x)
      BY <1>1, <2>1, <3>1, <3>2, AppendPointwise
    <3>4. QED
      BY <3>3 DEF w
  <2> HIDE DEF g, x
  <2>3. FlattenSeq(Append(g, x)) = FlattenSeq(g) \o x
    BY <1>1, <2>1, FlattenAppend
  <2>4. QED
    BY <2>2, <2>3 DEF FlatTo, g, x
<1>5. FlatTo(f, Len(f)) = FlattenSeq(f)
  <2>1. SubSeq(f, 1, Len(f)) = f
    OBVIOUS
  <2>2. QED
    BY <2>1 DEF FlatTo
<1>6. QED
  BY <1>2, <1>3, <1>4, <1>5

\* A further piece changes what follows the first k pieces, not those.
LEMMA FlatOfAppend ==
  ASSUME NEW T, NEW f \in Seq(Seq(T)), NEW x \in Seq(T), NEW k \in 0 .. Len(f)
  PROVE  /\ FlatFrom(Append(f, x), k) = FlatFrom(f, k) \o x
         /\ FlatTo(Append(f, x), k) = FlatTo(f, k)
<1> DEFINE n == Len(f)
           t == Append(f, x)
           g == SubSeq(f, k + 1, n)
<1>0. n \in Nat /\ k \in Nat /\ k <= n /\ n + 1 - k \in Nat /\ n - k \in Nat
  OBVIOUS
<1>1. Len(t) = n + 1 /\ t[n + 1] = x /\ \A i \in 1 .. n : t[i] = f[i]
  OBVIOUS
<1>2. g = [i \in 1 .. n - k |-> f[k + i]]
  BY <1>0 DEF SubSeq
<1>3. g \in Seq(Seq(T)) /\ Len(g) = n - k
  <2>1. \A i \in 1 .. n - k : f[k + i] \in Seq(T)
    <3>1. \A i \in 1 .. n - k : k + i \in 1 .. n
      BY <1>0
    <3>2. QED
      BY <3>1
  <2> HIDE DEF g, n
  <2>2. QED
    BY <1>0, <1>2, <2>1
<1> HIDE DEF t, g, n
<1>4. SubSeq(t, k + 1, n + 1) = Append(g, x)
  <2> DEFINE w == SubSeq(t, k + 1, n + 1)
  <2>1. w = [i \in 1 .. n + 1 - k |-> t[k + i]]
    BY <1>0 DEF SubSeq
  <2> HIDE DEF w
  <2>2. t \in Seq(Seq(T))
    BY DEF t
  <2>3. w \in Seq(Seq(T)) /\ Len(w) = n + 1 - k
    <3>1. \A i \in 1 .. n + 1 - k : k + i \in 1 .. n + 1
      BY <1>0
    <3>2. \A i \in 1 .. n + 1 - k : t[k + i] \in Seq(T)
      BY <1>1, <2>2, <3>1
    <3>3. QED
      BY <1>0, <2>1, <3>2
  <2>4. Len(w) = Len(g) + 1
    BY <1>0, <1>3, <2>3
  <2>5. \A i \in 1 .. Len(g) : w[i] = g[i]
    <3>1. \A i \in 1 .. n - k : i \in 1 .. n + 1 - k /\ k + i \in 1 .. n
      BY <1>0
    <3>2. QED
      BY <1>1, <1>2, <1>3, <2>1, <3>1
  <2>6. w[Len(g) + 1] = x
    <3>1. Len(g) + 1 \in 1 .. n + 1 - k /\ k + (Len(g) + 1) = n + 1
      BY <1>0, <1>3
    <3>2. QED
      BY <1>1, <2>1, <3>1
  <2>7. w = Append(g, x)
    BY <1>3, <2>3, <2>4, <2>5, <2>6, AppendPointwise
  <2>8. QED
    BY <2>7 DEF w
<1>5. FlatFrom(t, k) = FlatFrom(f, k) \o x
  <2>1. FlattenSeq(Append(g, x)) = FlattenSeq(g) \o x
    BY <1>3, FlattenAppend
  <2>2. QED
    BY <1>1, <1>4, <2>1 DEF FlatFrom, g, n
<1>6. SubSeq(t, 1, k) = SubSeq(f, 1, k)
  <2>1. /\ SubSeq(t, 1, k) = [i \in 1 .. k |-> t[i]]
        /\ SubSeq(f, 1, k) = [i \in 1 .. k |-> f[i]]
    BY <1>0 DEF SubSeq
  <2>2. \A i \in 1 .. k : t[i] = f[i]
    BY <1>0, <1>1
  <2>3. QED
    BY <2>1, <2>2
<1>7. QED
  BY <1>5, <1>6 DEF FlatTo, t

\* The first k pieces and the others make up the whole.
LEMMA FlatLengths ==
  ASSUME NEW T, NEW f \in Seq(Seq(T)), NEW k \in 0 .. Len(f)
  PROVE  Len(FlatTo(f, k)) + Len(FlatFrom(f, k)) = Len(FlatTo(f, Len(f)))
<1> DEFINE n == Len(f)
           to(i) == Len(FlatTo(f, i))
           from(i) == Len(FlatFrom(f, i))
           S == {i \in Nat : i <= n => to(i) + from(i) = from(0)}
<1>0. n \in Nat /\ k \in 0 .. n
  OBVIOUS
<1>1. \A i \in 0 .. n : to(i) \in Nat /\ from(i) \in Nat
  BY FlatToFacts, FlatFromFacts
<1>2. to(0) = 0 /\ from(n) = 0
  <2>1. FlatTo(f, 0) = <<>> /\ FlatFrom(f, n) = <<>>
    <3>1. 0 \in 0 .. Len(f) /\ Len(f) \in 0 .. Len(f)
      OBVIOUS
    <3>2. FlatTo(f, 0) = <<>>
      BY <3>1, FlatToFacts
    <3>3. FlatFrom(f, Len(f)) = <<>>
      BY <3>1, FlatFromFacts
    <3>4. QED
      BY <3>2, <3>3
  <2>2. QED
    BY <2>1, EmptySeq
<1>3. ASSUME NEW i \in Nat, i < n PROVE to(i + 1) + from(i + 1) = to(i) + from(i)
  <2> DEFINE x == f[i + 1]
  <2>1. x \in Seq(T) /\ i \in 0 .. n /\ i + 1 \in 0 .. n
    BY <1>0, <1>3
  <2> HIDE DEF n
  <2>2. FlatTo(f, i + 1) = FlatTo(f, i) \o x /\ FlatFrom(f, i) = x \o FlatFrom(f, i + 1)
    BY <1>3, <2>1, FlatToFacts, FlatFromFacts DEF n
  <2> HIDE DEF x
  <2>3. /\ FlatTo(f, i) \in Seq(T) /\ FlatFrom(f, i + 1) \in Seq(T)
    BY <2>1, FlatToFacts, FlatFromFacts DEF n
  <2>4. Len(FlatTo(f, i) \o x) = to(i) + Len(x)
    BY <2>1, <2>3, ConcatProperties
  <2>5. Len(x \o FlatFrom(f, i + 1)) = Len(x) + from(i + 1)
    BY <2>1, <2>3, ConcatProperties
  <2>6. Len(x) \in Nat
    BY <2>1
  <2> HIDE DEF to, from
  <2>7. to(i + 1) = to(i) + Len(x) /\ from(i) = Len(x) + from(i + 1)
    BY <2>2, <2>4, <2>5 DEF to, from
  <2> DEFINE a == to(i)
             b == from(i + 1)
             c == Len(x)
  <2>8. a \in Nat /\ b \in Nat /\ c \in Nat /\ to(i + 1) = a + c /\ from(i) = c + b
    BY <1>1, <2>1, <2>6, <2>7
  <2>9. to(i + 1) + b = a + from(i)
    <3> HIDE DEF a, b, c
    <3>1. QED
      BY <2>8
  <2>10. QED
    BY <2>9
<1> HIDE DEF to, from, n
<1>4. 0 \in S
  BY <1>0, <1>1, <1>2
<1>5. ASSUME NEW i \in Nat, i \in S PROVE i + 1 \in S
  BY <1>0, <1>3, <1>5
<1>6. \A i \in Nat : i \in S
  <2> HIDE DEF S
  <2>1. QED
    BY <1>4, <1>5, NatSetInduction
<1>7. to(k) + from(k) = from(0) /\ to(n) + from(n) = from(0)
  BY <1>0, <1>6
<1>8. to(n) = from(0)
  BY <1>0, <1>1, <1>2, <1>7
<1>9. QED
  BY <1>7, <1>8 DEF to, from, n

\* More pieces are no shorter.
LEMMA FlatGrows ==
  ASSUME NEW T, NEW f \in Seq(Seq(T)), NEW j \in 0 .. Len(f), NEW k \in j .. Len(f)
  PROVE  Len(FlatTo(f, j)) <= Len(FlatTo(f, k))
<1> DEFINE n == Len(f)
           to(i) == Len(FlatTo(f, i))
           S == {i \in Nat : j + i <= n => to(j) <= to(j + i)}
<1>0. n \in Nat /\ j \in 0 .. n /\ k \in j .. n
  OBVIOUS
<1>1. \A i \in 0 .. n : to(i) \in Nat
  BY FlatToFacts
<1>2. ASSUME NEW i \in 0 .. n, i < n PROVE to(i) <= to(i + 1)
  <2> DEFINE x == f[i + 1]
             y == FlatTo(f, i)
  <2>1. x \in Seq(T) /\ y \in Seq(T) /\ FlatTo(f, i + 1) = y \o x
    BY <1>2, FlatToFacts
  <2> HIDE DEF x, y
  <2>2. Len(y \o x) = Len(y) + Len(x) /\ Len(y) \in Nat /\ Len(x) \in Nat
    BY <2>1, ConcatProperties
  <2>3. QED
    BY <2>1, <2>2 DEF y
<1> HIDE DEF to, n
<1>3. 0 \in S
  <2>1. j + 0 = j
    BY <1>0
  <2>2. QED
    BY <1>0, <1>1, <2>1
<1>4. ASSUME NEW i \in Nat, i \in S PROVE i + 1 \in S
  <2> SUFFICES ASSUME j + (i + 1) <= n PROVE to(j) <= to(j + (i + 1))
    OBVIOUS
  <2> DEFINE m == j + i
  <2>1. m \in 0 .. n /\ m < n /\ j + (i + 1) = m + 1 /\ m + 1 \in 0 .. n
    BY <1>0
  <2>2. to(j) <= to(m)
    BY <1>4, <2>1
  <2> HIDE DEF m
  <2>3. to(m) <= to(m + 1)
    BY <1>2, <2>1
  <2>4. to(j) \in Nat /\ to(m) \in Nat /\ to(m + 1) \in Nat
    BY <1>0, <1>1, <2>1
  <2>5. QED
    BY <2>1, <2>2, <2>3, <2>4
<1>5. k - j \in S
  <2> HIDE DEF S
  <2>1. k - j \in Nat
    BY <1>0
  <2>2. QED
    BY <1>3, <1>4, <2>1, NatSetInduction
<1>6. j + (k - j) = k /\ k <= n
  BY <1>0
<1>7. QED
  BY <1>5, <1>6 DEF to

-----------------------------------------------------------------------------
(* Sequences.                                                              *)

\* Reading an element of u \o v reads one of u, while u has any.
LEMMA HeadOfConcat ==
  ASSUME NEW T, NEW u \in Seq(T), NEW v \in Seq(T), u # <<>>
  PROVE  /\ Head(u \o v) = Head(u) /\ Tail(u \o v) = Tail(u) \o v
         /\ Head(u) \in T /\ Tail(u) \in Seq(T) /\ Len(Tail(u)) = Len(u) - 1
         /\ u \o v \in Seq(T) /\ u \o v # <<>>
<1> DEFINE w == u \o v
           t == Tail(u) \o v
<1>1. Len(u) \in Nat \ {0} /\ Head(u) \in T /\ Tail(u) \in Seq(T) /\ Len(Tail(u)) = Len(u) - 1
  BY EmptySeq
<1>2. /\ w \in Seq(T) /\ Len(w) = Len(u) + Len(v)
      /\ \A i \in 1 .. Len(u) + Len(v) : w[i] = IF i <= Len(u) THEN u[i] ELSE v[i - Len(u)]
  BY ConcatProperties
<1>3. /\ t \in Seq(T) /\ Len(t) = Len(u) - 1 + Len(v)
      /\ \A i \in 1 .. Len(u) - 1 + Len(v) :
           t[i] = IF i <= Len(u) - 1 THEN Tail(u)[i] ELSE v[i - (Len(u) - 1)]
  BY <1>1, ConcatProperties
<1> HIDE DEF w, t
<1>4. w # <<>> /\ Head(w) = Head(u)
  <2>1. Len(w) >= 1 /\ 1 \in 1 .. Len(w) /\ 1 <= Len(u)
    BY <1>1, <1>2
  <2>2. w[1] = u[1]
    BY <1>1, <1>2, <2>1
  <2>3. QED
    BY <1>1, <1>2, <2>1, <2>2
<1>5. Tail(w) = t
  <2> DEFINE s == Tail(w)
  <2>1. s \in Seq(T) /\ Len(s) = Len(w) - 1 /\ \A i \in 1 .. Len(w) - 1 : s[i] = w[i + 1]
    BY <1>2, <1>4
  <2> HIDE DEF s
  <2>2. Len(s) = Len(t) /\ Len(v) \in Nat
    BY <1>1, <1>2, <1>3, <2>1
  <2>3. \A i \in 1 .. Len(t) : s[i] = t[i]
    <3> SUFFICES ASSUME NEW i \in 1 .. Len(t) PROVE s[i] = t[i]
      OBVIOUS
    <3>1. s[i] = w[i + 1] /\ i + 1 \in 1 .. Len(u) + Len(v) /\ i \in 1 .. Len(u) - 1 + Len(v)
      BY <1>1, <1>2, <1>3, <2>1, <2>2
    <3>2. CASE i <= Len(u) - 1
      <4>1. w[i + 1] = u[i + 1]
        BY <1>1, <1>2, <3>1, <3>2
      <4>2. t[i] = Tail(u)[i] /\ Tail(u)[i] = u[i + 1]
        BY <1>1, <1>3, <3>1, <3>2
      <4>3. QED
        BY <3>1, <4>1, <4>2
    <3>3. CASE ~(i <= Len(u) - 1)
      <4>1. w[i + 1] = v[i + 1 - Len(u)]
        BY <1>1, <1>2, <3>1, <3>3
      <4>2. t[i] = v[i - (Len(u) - 1)] /\ i - (Len(u) - 1) = i + 1 - Len(u)
        BY <1>1, <1>3, <3>1, <3>3
      <4>3. QED
        BY <3>1, <4>1, <4>2
    <3>4. QED
      BY <3>2, <3>3
  <2>4. s = t
    BY <1>3, <2>1, <2>2, <2>3, SeqEqual
  <2>5. QED
    BY <2>4 DEF s
<1>6. QED
  BY <1>1, <1>2, <1>4, <1>5 DEF w, t

\* The head and the tail of an element before a sequence.
LEMMA HeadOfOne ==
  ASSUME NEW T, NEW x \in T, NEW v \in Seq(T)
  PROVE  /\ Head(<<x>> \o v) = x /\ Tail(<<x>> \o v) = v
         /\ <<x>> \o v \in Seq(T) /\ <<x>> \o v # <<>>
<1> DEFINE u == <<x>>
<1>1. u \in Seq(T) /\ u # <<>> /\ Head(u) = x /\ Tail(u) = <<>>
  OBVIOUS
<1> HIDE DEF u
<1>2. Head(u \o v) = x /\ Tail(u \o v) = <<>> \o v /\ u \o v \in Seq(T) /\ u \o v # <<>>
  BY <1>1, HeadOfConcat
<1>3. <<>> \o v = v
  BY ConcatEmptySeq
<1>4. QED
  BY <1>2, <1>3 DEF u

\* A sequence is its head before its tail.
LEMMA HeadAndTail ==
  ASSUME NEW T, NEW u \in Seq(T), u # <<>>
  PROVE  u = <<Head(u)>> \o Tail(u)
<1> DEFINE x == Head(u)
           v == Tail(u)
           one == <<x>>
           w == one \o v
<1>1. /\ x \in T /\ v \in Seq(T) /\ Len(v) = Len(u) - 1 /\ Len(u) \in Nat \ {0}
      /\ u[1] = x /\ \A i \in 1 .. Len(u) - 1 : v[i] = u[i + 1]
  BY EmptySeq
<1> HIDE DEF x, v
<1>2. one \in Seq(T) /\ Len(one) = 1 /\ one[1] = x
  BY <1>1
<1> HIDE DEF one
<1>3. /\ w \in Seq(T) /\ Len(w) = 1 + Len(v)
      /\ \A i \in 1 .. 1 + Len(v) : w[i] = IF i <= 1 THEN one[i] ELSE v[i - 1]
  <2>1. /\ w \in Seq(T) /\ Len(w) = Len(one) + Len(v)
        /\ \A i \in 1 .. Len(one) + Len(v) :
             w[i] = IF i <= Len(one) THEN one[i] ELSE v[i - Len(one)]
    BY <1>1, <1>2, ConcatProperties
  <2> HIDE DEF w
  <2>2. QED
    BY <1>2, <2>1
<1> HIDE DEF w
<1>4. \A i \in 1 .. Len(u) : u[i] = w[i]
  <2> SUFFICES ASSUME NEW i \in 1 .. Len(u) PROVE u[i] = w[i]
    OBVIOUS
  <2>1. CASE i = 1
    BY <1>1, <1>2, <1>3, <2>1
  <2>2. CASE i # 1
    <3>1. i - 1 \in 1 .. Len(u) - 1 /\ i \in 1 .. 1 + Len(v) /\ ~(i <= 1) /\ (i - 1) + 1 = i
      BY <1>1, <2>2
    <3>2. w[i] = v[i - 1] /\ v[i - 1] = u[(i - 1) + 1]
      BY <1>1, <1>3, <3>1
    <3>3. QED
      BY <3>1, <3>2
  <2>3. QED
    BY <2>1, <2>2
<1>5. Len(u) = Len(w)
  BY <1>1, <1>3
<1>6. u = w
  BY <1>3, <1>4, <1>5, SeqEqual
<1>7. QED
  BY <1>6 DEF w, one, v, x

\* Concatenation is associative.
LEMMA Associate ==
  ASSUME NEW T, NEW a \in Seq(T), NEW b \in Seq(T), NEW c \in Seq(T)
  PROVE  (a \o b) \o c = a \o (b \o c)
BY ConcatAssociative, SMTT(30)

\* A byte more behind the mark is one less to come.
LEMMA Shift ==
  ASSUME NEW T, NEW s \in Seq(T), NEW u \in Seq(T), u # <<>>
  PROVE  Append(s, Head(u)) \o Tail(u) = s \o u
<1> DEFINE x == Head(u)
           v == Tail(u)
           one == <<x>>
<1>1. x \in T /\ v \in Seq(T)
  OBVIOUS
<1>2. u = one \o v
  BY HeadAndTail
<1> HIDE DEF x, v
<1>3. one \in Seq(T) /\ Append(s, x) = s \o one
  <2>1. one \in Seq(T)
    BY <1>1
  <2>2. Append(s, x) = s \o <<x>>
    BY <1>1, AppendIsConcat
  <2>3. QED
    BY <2>1, <2>2
<1> HIDE DEF one
<1>4. (s \o one) \o v = s \o (one \o v)
  BY <1>1, <1>3, ConcatAssociative, SMTT(30)
<1>5. QED
  BY <1>2, <1>3, <1>4 DEF x, v

\* A sequence over a set is one over a larger set.
LEMMA SeqOfSubset ==
  ASSUME NEW S, NEW T, S \subseteq T, NEW u \in Seq(S)
  PROVE  u \in Seq(T)
OBVIOUS

-----------------------------------------------------------------------------
(* What is still to come of a list of header lines, and what has come.     *)

Pieces(h) == [i \in DOMAIN h.value |->
  <<IF i = 1 THEN ":" ELSE " ">> \o h.value[i] \o <<"N">>]
LineSeq(hs) == [i \in DOMAIN hs |-> hs[i].field \o Line(hs[i])]

\* The lines behind the first i, and the pieces of line i behind the first p.
AfterLines(hs, i, end) == FlatFrom(LineSeq(hs), i) \o end
AfterPieces(hs, i, p, end) == FlatFrom(Pieces(hs[i]), p) \o AfterLines(hs, i, end)

JoinedTo(hs, i) == [k \in 1 .. i |-> <<hs[k].field, FlattenSeq(hs[k].value)>>]

\* A list of header lines, those that say how a message goes on included.
AnyLines ==
  [field : Seq(FieldBytes) \ {<<>>}, value : Seq(Seq(ValueBytes)) \ {<<>>}]

\* Type, length and the empty cases of a concatenation of bytes.
LEMMA ByteConcat ==
  \A u, v \in Seq(Bytes) :
    /\ u \o v \in Seq(Bytes)
    /\ Len(u \o v) = Len(u) + Len(v)
    /\ u = <<>> => u \o v = v
    /\ v = <<>> => u \o v = u
<1> SUFFICES ASSUME NEW u \in Seq(Bytes), NEW v \in Seq(Bytes)
             PROVE  /\ u \o v \in Seq(Bytes)
                    /\ Len(u \o v) = Len(u) + Len(v)
                    /\ u = <<>> => u \o v = v
                    /\ v = <<>> => u \o v = u
  OBVIOUS
<1>1. u \o v \in Seq(Bytes) /\ Len(u \o v) = Len(u) + Len(v)
  BY ConcatProperties
<1>2. (u = <<>> => u \o v = v) /\ (v = <<>> => u \o v = u)
  BY ConcatEmptySeq
<1>3. QED
  BY <1>1, <1>2

\* Reading a byte of u \o v reads a byte of u, while u has any.
LEMMA ByteHead ==
  ASSUME NEW u \in Seq(Bytes), NEW v \in Seq(Bytes), u # <<>>
  PROVE  /\ u \o v # <<>>
         /\ Head(u \o v) = Head(u) /\ Tail(u \o v) = Tail(u) \o v
         /\ Head(u) \in Bytes /\ Tail(u) \in Seq(Bytes)
         /\ Len(Tail(u)) = Len(u) - 1
BY HeadOfConcat

\* A byte before a sequence is its head.
LEMMA ByteOne ==
  \A x \in Bytes, v \in Seq(Bytes) :
    /\ Head(<<x>> \o v) = x /\ Tail(<<x>> \o v) = v
    /\ <<x>> \o v \in Seq(Bytes) /\ <<x>> \o v # <<>>
    /\ Len(<<x>> \o v) = 1 + Len(v)
<1> SUFFICES ASSUME NEW x \in Bytes, NEW v \in Seq(Bytes)
             PROVE  /\ Head(<<x>> \o v) = x /\ Tail(<<x>> \o v) = v
                    /\ <<x>> \o v \in Seq(Bytes) /\ <<x>> \o v # <<>>
                    /\ Len(<<x>> \o v) = 1 + Len(v)
  OBVIOUS
<1>1. /\ Head(<<x>> \o v) = x /\ Tail(<<x>> \o v) = v
      /\ <<x>> \o v \in Seq(Bytes) /\ <<x>> \o v # <<>>
  BY HeadOfOne
<1> DEFINE one == <<x>>
<1>2. one \in Seq(Bytes) /\ Len(one) = 1
  OBVIOUS
<1> HIDE DEF one
<1>3. Len(one \o v) = 1 + Len(v)
  BY <1>2, ByteConcat
<1>4. QED
  BY <1>1, <1>3 DEF one

Associative(a, b, c) == (a \o b) \o c = a \o (b \o c)

\* Associate for bytes, in the form the steps cite.
LEMMA ByteAssociate == \A a, b, c \in Seq(Bytes) : Associative(a, b, c)
BY ConcatAssociative, SMTT(30) DEF Associative

\* How the sets of bytes lie in each other.
LEMMA ByteSets ==
  /\ UrlBytes \subseteq Bytes /\ FieldBytes \subseteq Bytes
  /\ ValueBytes \subseteq Bytes /\ TextBytes \subseteq ValueBytes
  /\ BodyBytes \subseteq Bytes
  /\ {"M", "V", "N", ":", " ", "p", "X"} \subseteq Bytes
  /\ Digits = {"0", "1", "2", "3"} /\ Digits \subseteq ValueBytes
  /\ Digit(0) = "0" /\ Digit(1) = "1" /\ Digit(2) = "2" /\ Digit(3) = "3"
<1>1. Digit(0) = "0" /\ Digit(1) = "1" /\ Digit(2) = "2" /\ Digit(3) = "3"
  BY DEF Digit
<1>2. Digits = {"0", "1", "2", "3"}
  <2>1. 0 .. 3 = {0, 1, 2, 3}
    OBVIOUS
  <2>2. Digits = {Digit(0), Digit(1), Digit(2), Digit(3)}
    BY <2>1 DEF Digits
  <2>3. QED
    BY <1>1, <2>2
<1>3. ValueBytes = {"v", "w", "T", "W", "C", "0", "1", "2", "3"}
  BY <1>2 DEF ValueBytes, TextBytes
<1>4. QED
  BY <1>1, <1>2, <1>3 DEF Bytes, UrlBytes, FieldBytes, TextBytes, BodyBytes

\* Number undoes Digit.
LEMMA Numbers == \A n \in 0 .. 3 : Digit(n) \in Digits /\ Number(Digit(n)) = n
<1> SUFFICES ASSUME NEW n \in 0 .. 3 PROVE Digit(n) \in Digits /\ Number(Digit(n)) = n
  OBVIOUS
<1>1. \A k \in 0 .. 3 : Digit(k) = Digit(n) => k = n
  <2>1. \A k \in 0 .. 3 : k = 0 \/ k = 1 \/ k = 2 \/ k = 3
    OBVIOUS
  <2>2. QED
    BY <2>1, ByteSets
<1>2. QED
  BY <1>1 DEF Digits, Number

\* What Line flattens: a piece for every line the value is folded into.
LEMMA PiecesType ==
  ASSUME NEW h \in AnyLines
  PROVE  /\ Pieces(h) \in Seq(Seq(Bytes)) /\ Len(Pieces(h)) = Len(h.value)
         /\ h.value \in Seq(Seq(Bytes)) /\ Len(h.value) \in Nat \ {0}
         /\ h.field \in Seq(Bytes) /\ h.field # <<>>
         /\ \A p \in 1 .. Len(h.value) :
              Pieces(h)[p] = <<IF p = 1 THEN ":" ELSE " ">> \o (h.value[p] \o <<"N">>)
<1> DEFINE val == h.value
           n == Len(val)
           sep(p) == IF p = 1 THEN ":" ELSE " "
<1>1. val \in Seq(Seq(Bytes)) /\ n \in Nat \ {0} /\ DOMAIN val = 1 .. n
  <2>1. val \in Seq(Seq(ValueBytes)) /\ val # <<>>
    BY DEF AnyLines
  <2> HIDE DEF val
  <2>2. Seq(ValueBytes) \subseteq Seq(Bytes)
    BY ByteSets, SeqOfSubset
  <2>3. val \in Seq(Seq(Bytes))
    BY <2>1, <2>2, SeqOfSubset
  <2>4. QED
    BY <2>1, <2>3, EmptySeq
<1>2. h.field \in Seq(Bytes) /\ h.field # <<>>
  <2>1. h.field \in Seq(FieldBytes) /\ h.field # <<>>
    BY DEF AnyLines
  <2>2. QED
    BY <2>1, ByteSets, SeqOfSubset
<1>3. Pieces(h) = [p \in 1 .. n |-> <<sep(p)>> \o val[p] \o <<"N">>]
  BY <1>1 DEF Pieces
<1> HIDE DEF val, n
<1>4. \A p \in 1 .. n : /\ <<sep(p)>> \o val[p] \o <<"N">> \in Seq(Bytes)
                       /\ <<sep(p)>> \o val[p] \o <<"N">> = <<sep(p)>> \o (val[p] \o <<"N">>)
  <2> SUFFICES ASSUME NEW p \in 1 .. n
               PROVE  /\ <<sep(p)>> \o val[p] \o <<"N">> \in Seq(Bytes)
                      /\ <<sep(p)>> \o val[p] \o <<"N">> = <<sep(p)>> \o (val[p] \o <<"N">>)
    OBVIOUS
  <2> DEFINE a == <<sep(p)>>
             b == val[p]
             c == <<"N">>
  <2>1. a \in Seq(Bytes) /\ b \in Seq(Bytes) /\ c \in Seq(Bytes)
    <3>1. sep(p) \in Bytes /\ "N" \in Bytes
      BY ByteSets
    <3>2. b \in Seq(Bytes)
      BY <1>1
    <3> HIDE DEF sep, b
    <3>3. QED
      BY <3>1, <3>2
  <2> HIDE DEF a, b, c
  <2>2. Associative(a, b, c) /\ (a \o b) \o c \in Seq(Bytes)
    BY <2>1, ByteAssociate, ByteConcat
  <2>3. QED
    BY <2>2 DEF a, b, c, Associative
<1>5. /\ Pieces(h) \in Seq(Seq(Bytes)) /\ Len(Pieces(h)) = n
      /\ \A p \in 1 .. n : Pieces(h)[p] = <<sep(p)>> \o (val[p] \o <<"N">>)
  <2> DEFINE s == Pieces(h)
             f(p) == <<sep(p)>> \o val[p] \o <<"N">>
             g(p) == <<sep(p)>> \o (val[p] \o <<"N">>)
  <2>1. \A p \in 1 .. n : f(p) \in Seq(Bytes) /\ f(p) = g(p)
    BY <1>4
  <2>2. s = [p \in 1 .. n |-> f(p)]
    BY <1>3
  <2> HIDE DEF s, f, g
  <2>3. s \in Seq(Seq(Bytes)) /\ Len(s) = n /\ \A p \in 1 .. n : s[p] = g(p)
    BY <1>1, <2>1, <2>2
  <2>4. QED
    BY <2>3 DEF s, g
<1>6. QED
  BY <1>1, <1>2, <1>5 DEF val, n

Regrouped(a, b, c, d) ==
  /\ ((a \o b) \o c) \o d = a \o (b \o (c \o d))
  /\ (a \o (b \o c)) \o d = a \o (b \o (c \o d))

\* The four parts of a line and its rest, grouped to the right.
LEMMA Regroup == \A a, b, c, d \in Seq(Bytes) : Regrouped(a, b, c, d)
<1> SUFFICES ASSUME NEW a \in Seq(Bytes), NEW b \in Seq(Bytes), NEW c \in Seq(Bytes),
                    NEW d \in Seq(Bytes)
             PROVE  Regrouped(a, b, c, d)
  OBVIOUS
<1> DEFINE ab == a \o b
           bc == b \o c
           cd == c \o d
<1>1. ab \in Seq(Bytes) /\ bc \in Seq(Bytes) /\ cd \in Seq(Bytes)
  BY ByteConcat
<1> HIDE DEF ab, bc, cd
<1>2. /\ Associative(a, b, cd) /\ Associative(b, c, d)
      /\ Associative(ab, c, d) /\ Associative(a, bc, d)
  BY <1>1, ByteAssociate
<1>3. QED
  BY <1>2 DEF Associative, Regrouped, ab, bc, cd

\* What Lines flattens: a header with all the pieces of its value.
LEMMA LinesType ==
  ASSUME NEW hs \in Seq(AnyLines)
  PROVE  /\ LineSeq(hs) \in Seq(Seq(Bytes)) /\ Len(LineSeq(hs)) = Len(hs)
         /\ \A i \in 1 .. Len(hs) :
              /\ hs[i] \in AnyLines
              /\ LineSeq(hs)[i] = hs[i].field \o FlatFrom(Pieces(hs[i]), 0)
<1> DEFINE n == Len(hs)
           f(i) == hs[i].field \o FlatFrom(Pieces(hs[i]), 0)
           s == LineSeq(hs)
<1>1. n \in Nat /\ DOMAIN hs = 1 .. n /\ \A i \in 1 .. n : hs[i] \in AnyLines
  OBVIOUS
<1>2. \A i \in 1 .. n : f(i) \in Seq(Bytes) /\ f(i) = hs[i].field \o Line(hs[i])
  <2> SUFFICES ASSUME NEW i \in 1 .. n
               PROVE f(i) \in Seq(Bytes) /\ f(i) = hs[i].field \o Line(hs[i])
    OBVIOUS
  <2> DEFINE h == hs[i]
             ps == Pieces(h)
             tail == FlatFrom(ps, 0)
  <2>1. h \in AnyLines
    BY <1>1
  <2> HIDE DEF h
  <2>2. ps \in Seq(Seq(Bytes)) /\ h.field \in Seq(Bytes)
    BY <2>1, PiecesType
  <2>3. Line(h) = FlattenSeq(ps)
    BY DEF Line, Pieces
  <2> HIDE DEF ps
  <2>4. 0 \in 0 .. Len(ps)
    BY <2>2
  <2>5. tail = Line(h) /\ tail \in Seq(Bytes)
    BY <2>2, <2>3, <2>4, FlatFromFacts
  <2> HIDE DEF tail
  <2>6. h.field \o tail \in Seq(Bytes) /\ h.field \o tail = h.field \o Line(h)
    BY <2>2, <2>5, ByteConcat
  <2>7. QED
    BY <2>6 DEF h, tail, ps
<1>3. s = [i \in 1 .. n |-> f(i)]
  BY <1>1, <1>2 DEF LineSeq
<1> HIDE DEF n, f, s
<1>4. s \in Seq(Seq(Bytes)) /\ Len(s) = n /\ \A i \in 1 .. n : s[i] = f(i)
  BY <1>1, <1>2, <1>3
<1>5. QED
  BY <1>1, <1>4 DEF n, f, s

\* What follows i header lines is the next line's field and then its pieces.
LEMMA AfterLinesFacts ==
  ASSUME NEW hs \in Seq(AnyLines), NEW end \in Seq(Bytes), NEW i \in 0 .. Len(hs)
  PROVE  /\ AfterLines(hs, i, end) \in Seq(Bytes)
         /\ Len(end) <= Len(AfterLines(hs, i, end))
         /\ i = Len(hs) => AfterLines(hs, i, end) = end
         /\ i < Len(hs) =>
              AfterLines(hs, i, end) = hs[i + 1].field \o AfterPieces(hs, i + 1, 0, end)
<1> DEFINE ls == LineSeq(hs)
           x == FlatFrom(ls, i)
<1>1. ls \in Seq(Seq(Bytes)) /\ i \in 0 .. Len(ls) /\ Len(ls) = Len(hs)
  BY LinesType
<1> HIDE DEF ls
<1>2. /\ x \in Seq(Bytes)
      /\ i = Len(ls) => x = <<>>
      /\ i < Len(ls) => x = ls[i + 1] \o FlatFrom(ls, i + 1)
  BY <1>1, FlatFromFacts
<1>3. x \o end \in Seq(Bytes) /\ Len(end) <= Len(x \o end) /\ (x = <<>> => x \o end = end)
  <2> HIDE DEF x
  <2>1. /\ x \o end \in Seq(Bytes) /\ Len(x \o end) = Len(x) + Len(end)
        /\ (x = <<>> => x \o end = end)
    BY <1>2, ByteConcat
  <2>2. Len(x) \in Nat /\ Len(end) \in Nat
    BY <1>2
  <2>3. QED
    BY <2>1, <2>2
<1>4. ASSUME i < Len(hs)
      PROVE AfterLines(hs, i, end) = hs[i + 1].field \o AfterPieces(hs, i + 1, 0, end)
  <2> DEFINE h == hs[i + 1]
             a == h.field
             b == FlatFrom(Pieces(h), 0)
             c == FlatFrom(ls, i + 1)
  <2>1. i + 1 \in 1 .. Len(hs) /\ i + 1 \in 0 .. Len(ls)
    BY <1>1, <1>4
  <2>2. h \in AnyLines /\ ls[i + 1] = a \o b
    BY <2>1, LinesType DEF ls
  <2>3. c \in Seq(Bytes)
    BY <1>1, <2>1, FlatFromFacts
  <2>4. a \in Seq(Bytes) /\ b \in Seq(Bytes)
    <3> HIDE DEF h
    <3>1. Pieces(h) \in Seq(Seq(Bytes)) /\ a \in Seq(Bytes)
      BY <2>2, PiecesType
    <3> DEFINE ps == Pieces(h)
    <3>2. ps \in Seq(Seq(Bytes))
      BY <3>1
    <3> HIDE DEF ps
    <3>3. 0 \in 0 .. Len(ps)
      BY <3>2
    <3>4. FlatFrom(ps, 0) \in Seq(Bytes)
      BY <3>2, <3>3, FlatFromFacts
    <3>5. QED
      BY <3>1, <3>4 DEF ps
  <2>5. x = (a \o b) \o c
    BY <1>1, <1>2, <1>4, <2>2
  <2>6. AfterLines(hs, i, end) = x \o end /\ AfterPieces(hs, i + 1, 0, end) = b \o (c \o end)
    BY DEF AfterLines, AfterPieces, ls
  <2> HIDE DEF a, b, c, x
  <2>7. ((a \o b) \o c) \o end = a \o (b \o (c \o end))
    <3>1. Regrouped(a, b, c, end)
      BY <2>3, <2>4, Regroup
    <3>2. QED
      BY <3>1 DEF Regrouped
  <2>9. AfterLines(hs, i, end) = a \o AfterPieces(hs, i + 1, 0, end)
    BY <2>5, <2>6, <2>7
  <2>10. QED
    BY <2>9 DEF a
<1>5. QED
  BY <1>1, <1>2, <1>3, <1>4 DEF AfterLines, ls

\* What follows p pieces of a value is the next piece, its end of line, and the
\* rest.
LEMMA AfterPiecesFacts ==
  ASSUME NEW hs \in Seq(AnyLines), NEW end \in Seq(Bytes), NEW i \in 1 .. Len(hs),
         NEW p \in 0 .. Len(hs[i].value)
  PROVE  /\ AfterPieces(hs, i, p, end) \in Seq(Bytes)
         /\ Len(end) <= Len(AfterPieces(hs, i, p, end))
         /\ p = Len(hs[i].value) => AfterPieces(hs, i, p, end) = AfterLines(hs, i, end)
         /\ p < Len(hs[i].value) =>
              /\ hs[i].value[p + 1] \in Seq(Bytes)
              /\ AfterPieces(hs, i, p, end) =
                   <<IF p = 0 THEN ":" ELSE " ">> \o
                     (hs[i].value[p + 1] \o (<<"N">> \o AfterPieces(hs, i, p + 1, end)))
<1> DEFINE h == hs[i]
           ps == Pieces(h)
           x == FlatFrom(ps, p)
           ls == AfterLines(hs, i, end)
<1>0. h \in AnyLines
  OBVIOUS
<1>1. ls \in Seq(Bytes) /\ Len(end) <= Len(ls)
  <2>1. i \in 0 .. Len(hs)
    OBVIOUS
  <2>2. QED
    BY <2>1, AfterLinesFacts
<1>2. ps \in Seq(Seq(Bytes)) /\ Len(ps) = Len(h.value) /\ h.value \in Seq(Seq(Bytes))
      /\ \A k \in 1 .. Len(h.value) :
           ps[k] = <<IF k = 1 THEN ":" ELSE " ">> \o (h.value[k] \o <<"N">>)
  <2> HIDE DEF h
  <2>1. QED
    BY <1>0, PiecesType
<1>3. p \in 0 .. Len(ps)
  BY <1>2
<1> HIDE DEF ps
<1>4. /\ x \in Seq(Bytes)
      /\ p = Len(ps) => x = <<>>
      /\ p < Len(ps) => x = ps[p + 1] \o FlatFrom(ps, p + 1)
  BY <1>2, <1>3, FlatFromFacts
<1>5. AfterPieces(hs, i, p, end) = x \o ls
  BY DEF AfterPieces, ps
<1>6. x \o ls \in Seq(Bytes) /\ Len(end) <= Len(x \o ls) /\ (x = <<>> => x \o ls = ls)
  <2> HIDE DEF x, ls
  <2>1. /\ x \o ls \in Seq(Bytes) /\ Len(x \o ls) = Len(x) + Len(ls)
        /\ (x = <<>> => x \o ls = ls)
    BY <1>1, <1>4, ByteConcat
  <2>2. Len(x) \in Nat /\ Len(ls) \in Nat /\ Len(end) \in Nat
    BY <1>1, <1>4
  <2>3. QED
    BY <1>1, <2>1, <2>2
<1>7. ASSUME p < Len(h.value)
      PROVE /\ h.value[p + 1] \in Seq(Bytes)
            /\ AfterPieces(hs, i, p, end) =
                 <<IF p = 0 THEN ":" ELSE " ">> \o
                   (h.value[p + 1] \o (<<"N">> \o AfterPieces(hs, i, p + 1, end)))
  <2> DEFINE a == <<IF p = 0 THEN ":" ELSE " ">>
             b == h.value[p + 1]
             c == <<"N">>
             d == FlatFrom(ps, p + 1)
  <2>1. p + 1 \in 1 .. Len(h.value) /\ p + 1 \in 0 .. Len(ps) /\ (p + 1 = 1 <=> p = 0)
    <3> DEFINE m == Len(h.value)
    <3> DEFINE val == h.value
    <3>0. val \in Seq(Seq(Bytes)) /\ m = Len(val)
      BY <1>2
    <3> HIDE DEF val
    <3>1. m \in Nat /\ p \in 0 .. m /\ p < m /\ Len(ps) = m
      <4>1. m \in Nat
        BY <3>0
      <4>2. QED
        BY <4>1, <1>2, <1>7
    <3> HIDE DEF m
    <3>2. p + 1 \in 1 .. m /\ p + 1 \in 0 .. m /\ (p + 1 = 1 <=> p = 0)
      BY <3>1
    <3>3. QED
      BY <3>1, <3>2 DEF m
  <2>2. ps[p + 1] = a \o (b \o c)
    BY <1>2, <2>1
  <2>3. b \in Seq(Bytes) /\ d \in Seq(Bytes)
    <3>1. d \in Seq(Bytes)
      BY <1>2, <2>1, FlatFromFacts
    <3> DEFINE val == h.value
    <3>2. val \in Seq(Seq(Bytes)) /\ p + 1 \in 1 .. Len(val)
      BY <1>2, <2>1
    <3> HIDE DEF val
    <3>3. val[p + 1] \in Seq(Bytes)
      BY <3>2
    <3>4. QED
      BY <3>1, <3>3 DEF val
  <2>4. a \in Seq(Bytes) /\ c \in Seq(Bytes)
    <3> DEFINE s == IF p = 0 THEN ":" ELSE " "
    <3>1. s \in Bytes /\ "N" \in Bytes
      BY ByteSets
    <3> HIDE DEF s
    <3>2. <<s>> \in Seq(Bytes) /\ <<"N">> \in Seq(Bytes)
      BY <3>1
    <3>3. QED
      BY <3>2 DEF s
  <2>5. x = (a \o (b \o c)) \o d
    BY <1>2, <1>4, <1>7, <2>2
  <2>6. AfterPieces(hs, i, p + 1, end) = d \o ls
    BY DEF AfterPieces, ps
  <2> HIDE DEF a, b, c, d, ls, x
  <2> DEFINE z == d \o ls
             w == a \o (b \o c)
  <2>7. z \in Seq(Bytes) /\ w \in Seq(Bytes)
    BY <1>1, <2>3, <2>4, ByteConcat
  <2>8. w \o z = a \o (b \o (c \o z))
    <3> HIDE DEF z
    <3>1. Regrouped(a, b, c, z)
      BY <2>3, <2>4, <2>7, Regroup
    <3>2. QED
      BY <3>1 DEF Regrouped
  <2> HIDE DEF w
  <2>9. (w \o d) \o ls = w \o z
    <3>1. Associative(w, d, ls)
      BY <1>1, <2>3, <2>7, ByteAssociate
    <3>2. QED
      BY <3>1 DEF Associative
  <2>11. x \o ls = a \o (b \o (c \o z))
    BY <2>5, <2>8, <2>9 DEF w
  <2>12. QED
    BY <1>5, <2>3, <2>6, <2>11 DEF a, b, c, z
<1>8. QED
  BY <1>2, <1>4, <1>5, <1>6, <1>7

\* The headers of the first i lines, built one line at a time.
LEMMA JoinedFacts ==
  ASSUME NEW hs \in Seq(AnyLines)
  PROVE  /\ Joined(hs) = JoinedTo(hs, Len(hs))
         /\ JoinedTo(hs, 0) = <<>>
         /\ \A i \in 0 .. Len(hs) : JoinedTo(hs, i) \in Seq(Seq(Bytes) \X Seq(Bytes))
         /\ \A i \in 0 .. Len(hs) - 1 :
              JoinedTo(hs, i + 1) =
                Append(JoinedTo(hs, i), <<hs[i + 1].field, FlattenSeq(hs[i + 1].value)>>)
<1> DEFINE n == Len(hs)
           f(k) == <<hs[k].field, FlattenSeq(hs[k].value)>>
           T == Seq(Bytes) \X Seq(Bytes)
<1>1. n \in Nat /\ DOMAIN hs = 1 .. n /\ \A k \in 1 .. n : hs[k] \in AnyLines
  OBVIOUS
<1>2. \A k \in 1 .. n : f(k) \in T
  <2> SUFFICES ASSUME NEW k \in 1 .. n PROVE f(k) \in T
    OBVIOUS
  <2> DEFINE h == hs[k]
             val == h.value
  <2>1. h \in AnyLines
    BY <1>1
  <2> HIDE DEF h
  <2>2. h.field \in Seq(Bytes) /\ val \in Seq(Seq(Bytes))
    BY <2>1, PiecesType
  <2> HIDE DEF val
  <2>3. FlattenSeq(val) \in Seq(Bytes)
    BY <2>2, FlattenType
  <2>4. QED
    BY <2>2, <2>3 DEF val, h
<1>3. \A i \in 0 .. n : JoinedTo(hs, i) = [k \in 1 .. i |-> f(k)]
  BY DEF JoinedTo
<1>4. Joined(hs) = [k \in 1 .. n |-> f(k)]
  BY <1>1 DEF Joined
<1> HIDE DEF f, T, n
<1>5. \A i \in 0 .. n : JoinedTo(hs, i) \in Seq(T) /\ Len(JoinedTo(hs, i)) = i
  BY <1>1, <1>2, <1>3
<1>6. ASSUME NEW i \in 0 .. n - 1 PROVE JoinedTo(hs, i + 1) = Append(JoinedTo(hs, i), f(i + 1))
  <2> DEFINE w == JoinedTo(hs, i + 1)
             g == JoinedTo(hs, i)
  <2>1. i \in 0 .. n /\ i + 1 \in 0 .. n /\ i + 1 \in 1 .. n /\ i \in Nat
    BY <1>1
  <2>2. /\ w \in Seq(T) /\ g \in Seq(T) /\ Len(g) = i /\ Len(w) = i + 1
        /\ w = [k \in 1 .. i + 1 |-> f(k)] /\ g = [k \in 1 .. i |-> f(k)]
    BY <1>3, <1>5, <2>1
  <2> HIDE DEF w, g
  <2>3. w[i + 1] = f(i + 1) /\ f(i + 1) \in T /\ \A k \in 1 .. i : w[k] = g[k]
    BY <1>2, <2>1, <2>2
  <2>4. w = Append(g, f(i + 1))
    BY <2>2, <2>3, AppendPointwise
  <2>5. QED
    BY <2>4 DEF w, g
<1>7. JoinedTo(hs, 0) = <<>>
  <2>1. 0 \in 0 .. n
    BY <1>1
  <2>2. QED
    BY <1>5, <2>1, EmptySeq
<1>8. Joined(hs) = JoinedTo(hs, n)
  BY <1>1, <1>3, <1>4
<1>9. QED
  BY <1>5, <1>6, <1>7, <1>8 DEF f, T, n

-----------------------------------------------------------------------------
(* The lines of a request.                                                 *)

Lined(r) == r.headers \o Framing(r)
EndOfHead(r) == <<"N">> \o Rest(r)
AfterUrl(r) == <<"V">> \o AfterLines(Lined(r), 0, EndOfHead(r))

Marks(r) == CASE r.kind = "chunked" -> {"chunked"}
              [] r.kind = "upgrade" -> {"upgrade"}
              [] r.kind = "close"   -> {"close"}
              [] OTHER              -> {}
Before == <<{}, 0>>
Seen(r) == <<Marks(r), IF r.kind = "length" THEN Len(r.body) ELSE 0>>
Trailing == <<{"chunked", "trailing"}, 0>>

ChunkSeq(r) == [i \in DOMAIN r.body |-> <<Digit(1), r.body[i], "N">>]
LastChunk(r) == <<Digit(0)>> \o AfterLines(r.trailers, 0, <<"N">>)
AfterChunks(r, q) == FlatFrom(ChunkSeq(r), q) \o LastChunk(r)

\* What the first byte of a value does to flags and toRead.
Effect(byte, on) ==
  <<on[1] \cup (CASE byte = "T" -> {"chunked"} [] byte = "W" -> {"upgrade"}
                  [] byte = "C" -> {"close"} [] OTHER -> {}),
    IF byte \in Digits THEN Number(byte) ELSE on[2]>>

\* No value changes flags and toRead, that of the last line excepted.
Framed(hs, before, seen) ==
  /\ hs = <<>> => seen = before
  /\ \A i \in 1 .. Len(hs) :
       \/ hs[i].value \in Seq(Seq(TextBytes)) /\ (i = Len(hs) => seen = before)
       \/ /\ i = Len(hs)
          /\ \E byte \in ValueBytes : /\ hs[i].value = << <<byte>> >>
                                      /\ seen = Effect(byte, before)

\* The peer's header lines are lines in the proofs' sense.
LEMMA LinesAreAny == Seq(HeaderLines) \subseteq Seq(AnyLines)
<1>1. Seq(TextBytes) \subseteq Seq(ValueBytes)
  BY ByteSets, SeqOfSubset
<1>2. Seq(Seq(TextBytes)) \subseteq Seq(Seq(ValueBytes))
  BY <1>1, SeqOfSubset
<1>3. HeaderLines \subseteq AnyLines
  <2> SUFFICES ASSUME NEW h \in HeaderLines PROVE h \in AnyLines
    OBVIOUS
  <2>1. /\ h = [field |-> h.field, value |-> h.value]
        /\ h.field \in Seq(FieldBytes) \ {<<>>} /\ h.value \in Seq(Seq(TextBytes)) \ {<<>>}
    BY DEF HeaderLines
  <2>2. h.value \in Seq(Seq(ValueBytes)) \ {<<>>}
    BY <1>2, <2>1
  <2>3. QED
    BY <2>1, <2>2 DEF AnyLines
<1>4. QED
  BY <1>3, SeqOfSubset

\* The peer's values hold no byte that frames a message.
LEMMA TextLines ==
  ASSUME NEW hs \in Seq(HeaderLines)
  PROVE  hs \in Seq(AnyLines) /\ \A i \in 1 .. Len(hs) : hs[i].value \in Seq(Seq(TextBytes))
<1>1. hs \in Seq(AnyLines)
  BY LinesAreAny
<1>2. ASSUME NEW i \in 1 .. Len(hs) PROVE hs[i].value \in Seq(Seq(TextBytes))
  <2>1. hs[i] \in HeaderLines
    OBVIOUS
  <2>2. QED
    BY <2>1 DEF HeaderLines
<1>3. QED
  BY <1>1, <1>2

\* The header that frames a message, if there is one.
FrameByte(r) == CASE r.kind = "length"  -> Digit(Len(r.body))
                  [] r.kind = "chunked" -> "T"
                  [] r.kind = "upgrade" -> "W"
                  [] r.kind = "close"   -> "C"
                  [] OTHER              -> "v"
FrameLine(r) == [field |-> <<"k">>, value |-> << <<FrameByte(r)>> >>]

\* RequestType spelled out, with the body over Bytes.
LEMMA RequestFacts ==
  ASSUME NEW r, RequestType(r)
  PROVE  /\ r.url \in Seq(UrlBytes) /\ r.url # <<>> /\ r.headers \in Seq(HeaderLines)
         /\ r.kind \in {"none", "length", "chunked", "upgrade", "close"}
         /\ r.body \in Seq(BodyBytes) /\ r.body \in Seq(Bytes) /\ Len(r.body) \in Nat
         /\ r.trailers \in Seq(HeaderLines)
         /\ r.kind \in {"none", "upgrade", "close"} => r.body = <<>>
         /\ r.kind = "length" => Len(r.body) \in 0 .. 3
         /\ r.kind # "chunked" => r.trailers = <<>>
         /\ r.url \in Seq(Bytes)
<1>1. r \in [url : Seq(UrlBytes) \ {<<>>}, headers : Seq(HeaderLines),
             kind : {"none", "length", "chunked", "upgrade", "close"},
             body : Seq(BodyBytes), trailers : Seq(HeaderLines)]
  BY DEF RequestType
<1>2. /\ r.url \in Seq(UrlBytes) /\ r.url # <<>> /\ r.headers \in Seq(HeaderLines)
      /\ r.kind \in {"none", "length", "chunked", "upgrade", "close"}
      /\ r.body \in Seq(BodyBytes) /\ r.trailers \in Seq(HeaderLines)
  BY <1>1
<1>3. r.body \in Seq(Bytes) /\ r.url \in Seq(Bytes)
  BY <1>2, ByteSets, SeqOfSubset
<1>4. Len(r.body) \in Nat
  BY <1>2
<1>5. r.kind = "length" => Len(r.body) \in 0 .. 3
  <2> DEFINE n == Len(r.body)
  <2>1. n \in Nat /\ (r.kind = "length" => n <= 3)
    BY <1>4 DEF RequestType
  <2> HIDE DEF n
  <2>2. r.kind = "length" => n \in 0 .. 3
    BY <2>1
  <2>3. QED
    BY <2>2 DEF n
<1>6. /\ r.kind \in {"none", "upgrade", "close"} => r.body = <<>>
      /\ r.kind # "chunked" => r.trailers = <<>>
  BY DEF RequestType
<1>7. QED
  BY <1>2, <1>3, <1>4, <1>5, <1>6

\* The framing header is one line whose single byte says how the message goes
\* on.
LEMMA FramingFacts ==
  ASSUME NEW r, RequestType(r)
  PROVE  /\ FrameByte(r) \in ValueBytes /\ FrameLine(r) \in AnyLines
         /\ r.kind = "none" => Framing(r) = <<>> /\ Seen(r) = Before
         /\ r.kind # "none" => Framing(r) = <<FrameLine(r)>> /\ Seen(r) = Effect(FrameByte(r), Before)
<1>1. FrameByte(r) \in ValueBytes
  <2>1. {"v", "T", "W", "C"} \cup Digits \subseteq ValueBytes
    BY ByteSets DEF ValueBytes, TextBytes
  <2>2. CASE r.kind = "length"
    <3>1. FrameByte(r) = Digit(Len(r.body))
      BY <2>2 DEF FrameByte
    <3>2. Digit(Len(r.body)) \in Digits
      BY <2>2, RequestFacts, Numbers
    <3>3. QED
      BY <2>1, <3>1, <3>2
  <2>3. CASE r.kind # "length"
    <3>1. FrameByte(r) \in {"v", "T", "W", "C"}
      BY <2>3 DEF FrameByte
    <3>2. QED
      BY <2>1, <3>1
  <2>4. QED
    BY <2>2, <2>3
<1>2. FrameLine(r) \in AnyLines
  <2> DEFINE b == FrameByte(r)
             one == <<b>>
             val == <<one>>
             fld == <<"k">>
  <2>1. b \in ValueBytes /\ "k" \in FieldBytes
    BY <1>1 DEF FieldBytes
  <2> HIDE DEF b
  <2>2. one \in Seq(ValueBytes) /\ fld \in Seq(FieldBytes) /\ fld # <<>>
    BY <2>1
  <2> HIDE DEF one, fld
  <2>3. val \in Seq(Seq(ValueBytes)) /\ val # <<>>
    BY <2>2
  <2> HIDE DEF val
  <2>4. [field |-> fld, value |-> val] \in AnyLines
    BY <2>2, <2>3 DEF AnyLines
  <2>5. QED
    BY <2>4 DEF FrameLine, fld, val, one, b
<1>3. ASSUME r.kind = "none" PROVE Framing(r) = <<>> /\ Seen(r) = Before
  BY <1>3 DEF Framing, Seen, Before, Marks
<1>4. ASSUME r.kind # "none"
      PROVE  Framing(r) = <<FrameLine(r)>> /\ Seen(r) = Effect(FrameByte(r), Before)
  <2>1. CASE r.kind = "length"
    <3> DEFINE n == Len(r.body)
    <3>1. n \in 0 .. 3
      BY <2>1, RequestFacts
    <3>2. FrameByte(r) = Digit(n) /\ Marks(r) = {}
      BY <2>1 DEF FrameByte, Marks
    <3>3. Framing(r) = <<FrameLine(r)>>
      BY <2>1, <3>2 DEF Framing, FrameLine
    <3> HIDE DEF n
    <3>4. Digit(n) \in Digits /\ Number(Digit(n)) = n /\ Digit(n) \notin {"T", "W", "C"}
      BY <3>1, Numbers, ByteSets
    <3>5. Seen(r) = <<{}, n>>
      BY <2>1, <3>2 DEF Seen, n
    <3>6. Effect(Digit(n), Before) = <<{}, n>>
      BY <3>4 DEF Effect, Before
    <3>7. QED
      BY <3>2, <3>3, <3>5, <3>6
  <2>2. CASE r.kind = "chunked"
    BY <2>2, ByteSets DEF Framing, FrameLine, FrameByte, Seen, Marks, Effect, Before
  <2>3. CASE r.kind = "upgrade"
    BY <2>3, ByteSets DEF Framing, FrameLine, FrameByte, Seen, Marks, Effect, Before
  <2>4. CASE r.kind = "close"
    BY <2>4, ByteSets DEF Framing, FrameLine, FrameByte, Seen, Marks, Effect, Before
  <2>5. QED
    BY <1>4, <2>1, <2>2, <2>3, <2>4, RequestFacts
<1>5. QED
  BY <1>1, <1>2, <1>3, <1>4

\* The lines of a request's head: what the parser has seen changes at the last
\* one only.
LEMMA LinedFacts ==
  ASSUME NEW r, RequestType(r)
  PROVE  Lined(r) \in Seq(AnyLines) /\ Framed(Lined(r), Before, Seen(r))
<1> DEFINE a == r.headers
           hs == Lined(r)
<1>1. /\ a \in Seq(AnyLines)
      /\ \A i \in 1 .. Len(a) : a[i].value \in Seq(Seq(TextBytes))
  BY RequestFacts, TextLines
<1> HIDE DEF a
<1>2. CASE r.kind = "none"
  <2>1. hs = a /\ Seen(r) = Before
    <3>1. a \o <<>> = a
      BY <1>1, ConcatEmptySeq
    <3>2. QED
      BY <1>2, <3>1, FramingFacts DEF Lined, a
  <2> HIDE DEF hs
  <2>2. QED
    BY <1>1, <2>1 DEF Framed, hs
<1>3. CASE r.kind # "none"
  <2> DEFINE x == FrameLine(r)
  <2>1. x \in AnyLines
    BY FramingFacts
  <2>2. hs = a \o <<x>>
    BY <1>3, FramingFacts DEF Lined, a
  <2>3. x.value = << <<FrameByte(r)>> >>
    BY DEF FrameLine
  <2> HIDE DEF x, hs
  <2>4. hs = Append(a, x)
    BY <1>1, <2>1, <2>2, AppendIsConcat
  <2>5. /\ hs \in Seq(AnyLines) /\ hs # <<>> /\ Len(hs) = Len(a) + 1 /\ Len(a) \in Nat
        /\ hs[Len(a) + 1] = x /\ \A i \in 1 .. Len(a) : hs[i] = a[i]
    BY <1>1, <2>1, <2>4, AppendProperties
  <2>6. ASSUME NEW i \in 1 .. Len(hs)
        PROVE  \/ hs[i].value \in Seq(Seq(TextBytes)) /\ (i = Len(hs) => Seen(r) = Before)
               \/ /\ i = Len(hs)
                  /\ \E byte \in ValueBytes : /\ hs[i].value = << <<byte>> >>
                                              /\ Seen(r) = Effect(byte, Before)
    <3>1. CASE i = Len(hs)
      <4>1. hs[i] = x
        BY <2>5, <3>1
      <4>2. FrameByte(r) \in ValueBytes /\ Seen(r) = Effect(FrameByte(r), Before)
        BY <1>3, FramingFacts
      <4>3. QED
        BY <2>3, <3>1, <4>1, <4>2
    <3>2. CASE i # Len(hs)
      <4>1. i \in 1 .. Len(a)
        BY <2>5, <3>2
      <4>2. QED
        BY <1>1, <2>5, <3>2, <4>1
    <3>3. QED
      BY <3>1, <3>2
  <2>7. QED
    BY <2>5, <2>6 DEF Framed, hs
<1>4. QED
  BY <1>2, <1>3

\* The lines of a trailer change nothing the parser has seen.
LEMMA TrailerFacts ==
  ASSUME NEW r, RequestType(r)
  PROVE  r.trailers \in Seq(AnyLines) /\ Framed(r.trailers, Trailing, Trailing)
BY RequestFacts, TextLines DEF Framed

-----------------------------------------------------------------------------
(* The bytes of a request.                                                 *)

\* Three elements as a sequence.
LEMMA Triple ==
  ASSUME NEW T, NEW x \in T, NEW y \in T, NEW z \in T
  PROVE  <<x, y, z>> \in Seq(T) /\ <<x, y, z>> = <<x>> \o (<<y>> \o <<z>>)
<1> DEFINE t == <<x, y, z>>
           a == <<x>>
           b == <<y>>
           c == <<z>>
           bc == b \o c
           abc == a \o bc
<1>1. t \in Seq(T) /\ Len(t) = 3 /\ t[1] = x /\ t[2] = y /\ t[3] = z
  OBVIOUS
<1>2. a \in Seq(T) /\ Len(a) = 1 /\ a[1] = x
  OBVIOUS
<1>3. b \in Seq(T) /\ Len(b) = 1 /\ b[1] = y
  OBVIOUS
<1>4. c \in Seq(T) /\ Len(c) = 1 /\ c[1] = z
  OBVIOUS
<1> HIDE DEF t, a, b, c
<1>5. bc \in Seq(T) /\ Len(bc) = 2 /\ bc[1] = y /\ bc[2] = z
  <2>1. /\ bc \in Seq(T) /\ Len(bc) = Len(b) + Len(c)
        /\ \A i \in 1 .. Len(b) + Len(c) : bc[i] = IF i <= Len(b) THEN b[i] ELSE c[i - Len(b)]
    BY <1>3, <1>4, ConcatProperties
  <2> HIDE DEF bc
  <2>2. QED
    BY <1>3, <1>4, <2>1
<1> HIDE DEF bc
<1>6. abc \in Seq(T) /\ Len(abc) = 3 /\ abc[1] = x /\ abc[2] = y /\ abc[3] = z
  <2>1. /\ abc \in Seq(T) /\ Len(abc) = Len(a) + Len(bc)
        /\ \A i \in 1 .. Len(a) + Len(bc) : abc[i] = IF i <= Len(a) THEN a[i] ELSE bc[i - Len(a)]
    BY <1>2, <1>5, ConcatProperties
  <2> HIDE DEF abc
  <2>2. QED
    BY <1>2, <1>5, <2>1
<1> HIDE DEF abc
<1>7. \A i \in 1 .. Len(t) : t[i] = abc[i]
  <2>1. \A i \in 1 .. 3 : i = 1 \/ i = 2 \/ i = 3
    OBVIOUS
  <2>2. QED
    BY <1>1, <1>6, <2>1
<1>8. t = abc
  BY <1>1, <1>6, <1>7, SeqEqual
<1>9. QED
  BY <1>1, <1>8 DEF t, abc, bc, a, b, c

\* A chunk of the body: its size, its byte, its end of line.
LEMMA ChunksType ==
  ASSUME NEW r, RequestType(r)
  PROVE  /\ ChunkSeq(r) \in Seq(Seq(Bytes)) /\ Len(ChunkSeq(r)) = Len(r.body)
         /\ \A q \in 1 .. Len(r.body) :
              /\ r.body[q] \in Bytes
              /\ ChunkSeq(r)[q] = <<Digit(1)>> \o (<<r.body[q]>> \o <<"N">>)
<1> DEFINE body == r.body
           n == Len(body)
           f(q) == <<Digit(1), body[q], "N">>
           s == ChunkSeq(r)
<1>1. n \in Nat /\ DOMAIN body = 1 .. n /\ \A q \in 1 .. n : body[q] \in Bytes
  <2>1. body \in Seq(Bytes)
    BY RequestFacts
  <2> HIDE DEF body
  <2>2. QED
    BY <2>1
<1>2. \A q \in 1 .. n : f(q) \in Seq(Bytes) /\ f(q) = <<Digit(1)>> \o (<<body[q]>> \o <<"N">>)
  <2> SUFFICES ASSUME NEW q \in 1 .. n
               PROVE f(q) \in Seq(Bytes) /\ f(q) = <<Digit(1)>> \o (<<body[q]>> \o <<"N">>)
    OBVIOUS
  <2> DEFINE x == Digit(1)
             y == body[q]
             z == "N"
  <2>1. x \in Bytes /\ y \in Bytes /\ z \in Bytes
    BY <1>1, ByteSets
  <2> HIDE DEF x, y, z
  <2>2. <<x, y, z>> \in Seq(Bytes) /\ <<x, y, z>> = <<x>> \o (<<y>> \o <<z>>)
    BY <2>1, Triple
  <2>3. QED
    BY <2>2 DEF x, y, z
<1>3. s = [q \in 1 .. n |-> f(q)]
  BY <1>1 DEF ChunkSeq
<1> HIDE DEF n, f, s, body
<1>4. s \in Seq(Seq(Bytes)) /\ Len(s) = n /\ \A q \in 1 .. n : s[q] = f(q)
  <2>1. \A q \in 1 .. n : f(q) \in Seq(Bytes)
    BY <1>2
  <2>2. n \in Nat
    BY <1>1
  <2>3. QED
    BY <1>3, <2>1, <2>2
<1>5. QED
  BY <1>1, <1>2, <1>4 DEF n, s, body, f

\* The last chunk: a size of 0 and the trailer.
LEMMA LastChunkFacts ==
  ASSUME NEW r, RequestType(r)
  PROVE  /\ AfterLines(r.trailers, 0, <<"N">>) \in Seq(Bytes)
         /\ LastChunk(r) = <<"0">> \o AfterLines(r.trailers, 0, <<"N">>)
         /\ LastChunk(r) \in Seq(Bytes)
<1> DEFINE hs == r.trailers
           nl == <<"N">>
           z == <<"0">>
           tail == AfterLines(hs, 0, nl)
<1>1. hs \in Seq(AnyLines)
  BY TrailerFacts
<1>2. nl \in Seq(Bytes) /\ z \in Seq(Bytes)
  <2>1. "N" \in Bytes /\ "0" \in Bytes
    BY ByteSets
  <2>2. QED
    BY <2>1
<1> HIDE DEF hs, nl, z
<1>3. 0 \in 0 .. Len(hs)
  BY <1>1
<1>4. tail \in Seq(Bytes)
  BY <1>1, <1>2, <1>3, AfterLinesFacts
<1> HIDE DEF tail
<1>5. z \o tail \in Seq(Bytes)
  BY <1>2, <1>4, ByteConcat
<1>6. QED
  BY <1>4, <1>5, ByteSets DEF LastChunk, tail, z, hs, nl

\* What follows q chunks is the next chunk, or the last one.
LEMMA AfterChunksFacts ==
  ASSUME NEW r, RequestType(r), NEW q \in 0 .. Len(r.body)
  PROVE  /\ AfterChunks(r, q) \in Seq(Bytes)
         /\ q = Len(r.body) => AfterChunks(r, q) = LastChunk(r)
         /\ q < Len(r.body) =>
              /\ r.body[q + 1] \in Bytes
              /\ AfterChunks(r, q + 1) \in Seq(Bytes)
              /\ AfterChunks(r, q) =
                   <<"1">> \o (<<r.body[q + 1]>> \o (<<"N">> \o AfterChunks(r, q + 1)))
<1> DEFINE n == Len(r.body)
           cs == ChunkSeq(r)
           lc == LastChunk(r)
           x == FlatFrom(cs, q)
<1>1. cs \in Seq(Seq(Bytes)) /\ Len(cs) = n /\ n \in Nat /\ lc \in Seq(Bytes) /\ q \in 0 .. n
  BY ChunksType, LastChunkFacts, RequestFacts
<1>2. \A k \in 1 .. n : r.body[k] \in Bytes /\ cs[k] = <<Digit(1)>> \o (<<r.body[k]>> \o <<"N">>)
  BY ChunksType
<1> HIDE DEF cs, lc
<1>3. q \in 0 .. Len(cs)
  BY <1>1
<1>4. /\ x \in Seq(Bytes)
      /\ q = n => x = <<>>
      /\ q < n => x = cs[q + 1] \o FlatFrom(cs, q + 1)
  BY <1>1, <1>3, FlatFromFacts
<1>5. AfterChunks(r, q) = x \o lc
  BY DEF AfterChunks, cs, lc
<1>6. x \o lc \in Seq(Bytes) /\ (x = <<>> => x \o lc = lc)
  <2> HIDE DEF x
  <2>1. QED
    BY <1>1, <1>4, ByteConcat
<1>7. ASSUME q < n
      PROVE  /\ r.body[q + 1] \in Bytes
             /\ AfterChunks(r, q + 1) \in Seq(Bytes)
             /\ AfterChunks(r, q) =
                  <<"1">> \o (<<r.body[q + 1]>> \o (<<"N">> \o AfterChunks(r, q + 1)))
  <2> DEFINE a == <<Digit(1)>>
             b == <<r.body[q + 1]>>
             c == <<"N">>
             d == FlatFrom(cs, q + 1)
             z == d \o lc
             w == a \o (b \o c)
  <2>1. q + 1 \in 1 .. n /\ q + 1 \in 0 .. Len(cs)
    <3> HIDE DEF n
    <3>1. QED
      BY <1>1, <1>7
  <2>2. cs[q + 1] = w /\ r.body[q + 1] \in Bytes
    BY <1>2, <2>1
  <2>3. d \in Seq(Bytes)
    BY <1>1, <2>1, FlatFromFacts
  <2>4. a \in Seq(Bytes) /\ b \in Seq(Bytes) /\ c \in Seq(Bytes)
    <3> DEFINE byte == r.body[q + 1]
               one == Digit(1)
    <3>1. one \in Bytes /\ "N" \in Bytes /\ byte \in Bytes
      BY <2>2, ByteSets
    <3> HIDE DEF byte, one
    <3>2. <<one>> \in Seq(Bytes) /\ <<byte>> \in Seq(Bytes) /\ <<"N">> \in Seq(Bytes)
      BY <3>1
    <3>3. QED
      BY <3>2 DEF byte, one
  <2>5. x = w \o d /\ AfterChunks(r, q + 1) = z
    BY <1>4, <1>7, <2>2 DEF AfterChunks, cs, lc
  <2> HIDE DEF a, b, c, d, x
  <2>6. z \in Seq(Bytes) /\ w \in Seq(Bytes)
    BY <1>1, <2>3, <2>4, ByteConcat
  <2>7. w \o z = a \o (b \o (c \o z))
    <3> HIDE DEF z
    <3>1. Regrouped(a, b, c, z)
      BY <2>4, <2>6, Regroup
    <3>2. QED
      BY <3>1 DEF Regrouped
  <2> HIDE DEF w
  <2>8. (w \o d) \o lc = w \o z
    <3>1. Associative(w, d, lc)
      BY <1>1, <2>3, <2>6, ByteAssociate
    <3>2. QED
      BY <3>1 DEF Associative
  <2>9. AfterChunks(r, q) = a \o (b \o (c \o z))
    BY <1>5, <2>5, <2>7, <2>8
  <2>10. QED
    BY <2>2, <2>5, <2>6, <2>9, ByteSets DEF a, b, c
<1>8. QED
  BY <1>4, <1>5, <1>6, <1>7 DEF n, lc

\* What follows the head: the body as it is, or its chunks.
LEMMA RestFacts ==
  ASSUME NEW r, RequestType(r)
  PROVE  /\ Rest(r) \in Seq(Bytes)
         /\ r.kind # "chunked" => Rest(r) = r.body
         /\ r.kind = "chunked" => Rest(r) = AfterChunks(r, 0)
<1>1. r.kind # "chunked" => Rest(r) = r.body
  BY DEF Rest
<1>2. 0 \in 0 .. Len(r.body) /\ r.body \in Seq(Bytes)
  <2>1. Len(r.body) \in Nat
    BY RequestFacts
  <2> DEFINE n == Len(r.body)
  <2>2. n \in Nat
    BY <2>1
  <2> HIDE DEF n
  <2>3. 0 \in 0 .. n
    BY <2>2
  <2>4. QED
    BY <2>3, RequestFacts DEF n
<1>3. ASSUME r.kind = "chunked" PROVE Rest(r) = AfterChunks(r, 0)
  <2> DEFINE hs == r.trailers
             cs == ChunkSeq(r)
             a == FlattenSeq(cs)
             b == <<Digit(0)>>
             c == FlattenSeq(LineSeq(hs))
             d == <<"N">>
  <2>1. Rest(r) = ((a \o b) \o c) \o d
    BY <1>3 DEF Rest, ChunkSeq, Lines, LineSeq
  <2>2. cs \in Seq(Seq(Bytes)) /\ hs \in Seq(AnyLines)
    BY ChunksType, TrailerFacts
  <2>3. a \in Seq(Bytes) /\ a = FlatFrom(cs, 0)
    <3> HIDE DEF cs
    <3>1. 0 \in 0 .. Len(cs)
      BY <2>2
    <3>2. QED
      BY <2>2, <3>1, FlattenType, FlatFromFacts
  <2>4. c \in Seq(Bytes) /\ c = FlatFrom(LineSeq(hs), 0)
    <3> HIDE DEF hs
    <3> DEFINE ls == LineSeq(hs)
    <3>1. ls \in Seq(Seq(Bytes))
      BY <2>2, LinesType
    <3> HIDE DEF ls
    <3>2. 0 \in 0 .. Len(ls)
      BY <3>1
    <3>3. FlattenSeq(ls) \in Seq(Bytes) /\ FlattenSeq(ls) = FlatFrom(ls, 0)
      BY <3>1, <3>2, FlattenType, FlatFromFacts
    <3>4. QED
      BY <3>3 DEF ls
  <2>5. b \in Seq(Bytes) /\ d \in Seq(Bytes)
    <3> DEFINE zero == Digit(0)
    <3>1. zero \in Bytes /\ "N" \in Bytes
      BY ByteSets
    <3> HIDE DEF zero
    <3>2. <<zero>> \in Seq(Bytes) /\ <<"N">> \in Seq(Bytes)
      BY <3>1
    <3>3. QED
      BY <3>2 DEF zero
  <2>6. AfterChunks(r, 0) = a \o (b \o (c \o d))
    BY <2>3, <2>4 DEF AfterChunks, LastChunk, AfterLines
  <2> HIDE DEF a, b, c, d
  <2>7. Regrouped(a, b, c, d)
    BY <2>3, <2>4, <2>5, Regroup
  <2>8. QED
    BY <2>1, <2>6, <2>7 DEF Regrouped
<1>4. Rest(r) \in Seq(Bytes)
  BY <1>1, <1>2, <1>3, AfterChunksFacts
<1>5. QED
  BY <1>1, <1>3, <1>4

\* A request on the wire: the method, the url, the version, the lines, the
\* rest.
LEMMA EncodedFacts ==
  ASSUME NEW r, RequestType(r)
  PROVE  /\ AfterUrl(r) \in Seq(Bytes) /\ EndOfHead(r) \in Seq(Bytes)
         /\ AfterLines(Lined(r), 0, EndOfHead(r)) \in Seq(Bytes)
         /\ Encoded(r) \in Seq(Bytes)
         /\ Encoded(r) = <<"M">> \o (r.url \o AfterUrl(r))
         /\ Len(RequestHead(r)) \in Nat \ {0}
         /\ Len(Encoded(r)) = Len(RequestHead(r)) + Len(Rest(r))
<1> DEFINE m == <<"M">>
           u == r.url
           v == <<"V">>
           ls == Lines(Lined(r))
           n == <<"N">>
           t == Rest(r)
           y == (m \o u) \o v
           w == ls \o (n \o t)
           head == ((y \o ls) \o n)
<1>1. m \in Seq(Bytes) /\ v \in Seq(Bytes) /\ n \in Seq(Bytes) /\ Len(m) = 1
  <2>1. "M" \in Bytes /\ "V" \in Bytes /\ "N" \in Bytes
    BY ByteSets
  <2>2. QED
    BY <2>1
<1>2. u \in Seq(Bytes) /\ t \in Seq(Bytes)
  BY RequestFacts, RestFacts
<1>3. ls \in Seq(Bytes) /\ ls = FlatFrom(LineSeq(Lined(r)), 0)
  <2> DEFINE hs == Lined(r)
             s == LineSeq(hs)
  <2>1. hs \in Seq(AnyLines)
    BY LinedFacts
  <2> HIDE DEF hs
  <2>2. s \in Seq(Seq(Bytes))
    BY <2>1, LinesType
  <2>3. Lines(hs) = FlattenSeq(s)
    BY DEF Lines, LineSeq
  <2> HIDE DEF s
  <2>4. 0 \in 0 .. Len(s)
    BY <2>2
  <2>5. FlattenSeq(s) \in Seq(Bytes) /\ FlattenSeq(s) = FlatFrom(s, 0)
    BY <2>2, <2>4, FlattenType, FlatFromFacts
  <2>6. QED
    BY <2>3, <2>5 DEF s, hs
<1>4. /\ EndOfHead(r) = n \o t /\ AfterUrl(r) = v \o w
      /\ AfterLines(Lined(r), 0, EndOfHead(r)) = w
      /\ RequestHead(r) = head /\ Encoded(r) = head \o t
  <2>1. EndOfHead(r) = n \o t
    BY DEF EndOfHead
  <2>2. AfterLines(Lined(r), 0, EndOfHead(r)) = FlatFrom(LineSeq(Lined(r)), 0) \o EndOfHead(r)
    BY DEF AfterLines
  <2>3. AfterLines(Lined(r), 0, EndOfHead(r)) = ls \o EndOfHead(r)
    BY <1>3, <2>2, Zenon
  <2>4. AfterUrl(r) = v \o AfterLines(Lined(r), 0, EndOfHead(r))
    BY DEF AfterUrl
  <2>5. RequestHead(r) = head /\ Encoded(r) = head \o t
    BY DEF RequestHead, Encoded, Lined
  <2> HIDE DEF ls, v, n, t, head, m, y
  <2>6. QED
    BY <2>1, <2>3, <2>4, <2>5
<1> HIDE DEF m, u, v, ls, n, t
<1>5. n \o t \in Seq(Bytes) /\ w \in Seq(Bytes) /\ v \o w \in Seq(Bytes)
  BY <1>1, <1>2, <1>3, ByteConcat
<1>6. m \o u \in Seq(Bytes) /\ y \in Seq(Bytes) /\ y \o ls \in Seq(Bytes) /\ head \in Seq(Bytes)
  BY <1>1, <1>2, <1>3, ByteConcat
<1>7. head \o t = y \o w
  <2> HIDE DEF y
  <2>1. Regrouped(y, ls, n, t)
    BY <1>1, <1>2, <1>3, <1>6, Regroup
  <2>2. QED
    BY <2>1 DEF Regrouped
<1>8. y \o w = m \o (u \o (v \o w))
  <2> HIDE DEF w
  <2>1. Regrouped(m, u, v, w)
    BY <1>1, <1>2, <1>5, Regroup
  <2>2. QED
    BY <2>1 DEF Regrouped
<1>9. /\ head \o t \in Seq(Bytes) /\ Len(head \o t) = Len(head) + Len(t)
  <2> HIDE DEF head
  <2>1. QED
    BY <1>2, <1>6, ByteConcat
<1>10. Len(head) \in Nat \ {0}
  <2> DEFINE mu == m \o u
             yl == y \o ls
  <2>1. Len(mu) = Len(m) + Len(u) /\ mu \in Seq(Bytes)
    BY <1>1, <1>2, ByteConcat
  <2> HIDE DEF mu
  <2>2. Len(mu \o v) = Len(mu) + Len(v)
    BY <1>1, <2>1, ByteConcat
  <2>3. Len(y) = Len(mu) + Len(v)
    BY <2>2 DEF mu
  <2> HIDE DEF y
  <2>4. Len(yl) = Len(y) + Len(ls) /\ yl \in Seq(Bytes)
    BY <1>3, <1>6, ByteConcat
  <2>5. head = yl \o n
    BY DEF yl
  <2> HIDE DEF yl, head
  <2>6. Len(head) = Len(yl) + Len(n)
    BY <1>1, <2>4, <2>5, ByteConcat
  <2>7. Len(u) \in Nat /\ Len(v) \in Nat /\ Len(ls) \in Nat /\ Len(n) \in Nat
    BY <1>1, <1>2, <1>3
  <2>8. QED
    BY <1>1, <2>1, <2>3, <2>4, <2>6, <2>7
<1> HIDE DEF y, w, head
<1>11. Encoded(r) = m \o (u \o AfterUrl(r))
  BY <1>4, <1>7, <1>8
<1>12. QED
  BY <1>4, <1>5, <1>9, <1>10, <1>11 DEF m, u, t

-----------------------------------------------------------------------------
(* What the handlers of http2.js do to the parser object.                  *)

HeaderPairs == Seq(Bytes) \X Seq(Bytes)
Handlers ==
  [incoming : Messages \cup {Null}, field : Seq(Bytes) \cup {Null},
   value : Seq(Bytes) \cup {Null},
   announced : Seq([url : Seq(Bytes), headers : Seq(HeaderPairs)]),
   finished : Seq(Messages)]

\* What the handlers hold, a header line they have yet to add included.
Got(j) == IF j.value = Null THEN j.incoming.headers
          ELSE Append(j.incoming.headers, <<j.field, j.value>>)
GotField(j) == IF j.value # Null \/ j.field = Null THEN <<>> ELSE j.field
GotValue(j) == IF j.value = Null THEN <<>> ELSE j.value
SameMessage(j, k) ==
  /\ k.incoming.url = j.incoming.url /\ k.incoming.body = j.incoming.body
  /\ k.incoming.upgrade = j.incoming.upgrade
  /\ k.announced = j.announced /\ k.finished = j.finished

\* The fields of a parser object and their types.
LEMMA HandlersType ==
  ASSUME NEW j \in Handlers
  PROVE  /\ j = [incoming |-> j.incoming, field |-> j.field, value |-> j.value,
                 announced |-> j.announced, finished |-> j.finished]
         /\ j.incoming \in Messages \cup {Null} /\ j.field \in Seq(Bytes) \cup {Null}
         /\ j.value \in Seq(Bytes) \cup {Null}
         /\ j.announced \in Seq([url : Seq(Bytes), headers : Seq(HeaderPairs)])
         /\ j.finished \in Seq(Messages)
         /\ Null \notin Seq(Bytes) /\ Null \notin Messages
BY ParserAssumption DEF Handlers

\* The fields of a message and their types.
LEMMA MessagesType ==
  ASSUME NEW m \in Messages
  PROVE  /\ m = [url |-> m.url, headers |-> m.headers, body |-> m.body, upgrade |-> m.upgrade]
         /\ m.url \in Seq(Bytes) /\ m.headers \in Seq(HeaderPairs) /\ m.body \in Seq(Bytes)
         /\ m.upgrade \in BOOLEAN
BY DEF Messages, HeaderPairs

\* addHeaderLine appends the pair of field and value and touches nothing else.
LEMMA AddLine ==
  ASSUME NEW j \in Handlers, j.incoming \in Messages, j.field \in Seq(Bytes),
         j.value \in Seq(Bytes), NEW k, k = AddHeaderLine(j)
  PROVE  /\ k \in Handlers /\ k.incoming \in Messages
         /\ k.incoming.headers = Append(j.incoming.headers, <<j.field, j.value>>)
         /\ k.field = j.field /\ k.value = j.value /\ SameMessage(j, k)
<1> DEFINE m == j.incoming
           hs == Append(m.headers, <<j.field, j.value>>)
           n == [m EXCEPT !.headers = hs]
<1>1. m \in Messages
  OBVIOUS
<1>2. hs \in Seq(HeaderPairs)
  <2>1. m.headers \in Seq(HeaderPairs)
    BY <1>1, MessagesType
  <2>2. <<j.field, j.value>> \in HeaderPairs
    BY DEF HeaderPairs
  <2>3. QED
    BY <2>1, <2>2, AppendProperties
<1>3. k = [j EXCEPT !.incoming = n]
  BY DEF AddHeaderLine
<1> HIDE DEF m, hs
<1>4. /\ n \in Messages /\ n.headers = hs /\ n.url = m.url /\ n.body = m.body
      /\ n.upgrade = m.upgrade
  BY <1>1, <1>2 DEF Messages, HeaderPairs
<1> HIDE DEF n
<1>5. /\ k \in Handlers /\ k.incoming = n /\ k.field = j.field /\ k.value = j.value
      /\ k.announced = j.announced /\ k.finished = j.finished
  BY <1>3, <1>4 DEF Handlers
<1>6. QED
  BY <1>4, <1>5 DEF SameMessage, hs, m

\* onHeaderField books a line that is complete and extends the field being
\* read.
LEMMA FieldHandler ==
  ASSUME NEW j \in Handlers, j.incoming \in Messages, j.value # Null => j.field # Null,
         NEW s \in Seq(Bytes), NEW k, k = onHeaderField(j, s)
  PROVE  /\ k \in Handlers /\ k.incoming \in Messages /\ SameMessage(j, k)
         /\ Got(k) = Got(j) /\ k.value = Null
         /\ k.field \in Seq(Bytes) /\ k.field = GotField(j) \o s /\ GotField(k) = k.field
<1>1. /\ j.field \in Seq(Bytes) \cup {Null} /\ j.value \in Seq(Bytes) \cup {Null}
      /\ Null \notin Seq(Bytes)
  BY HandlersType
<1>2. CASE j.value # Null
  <2> DEFINE a == AddHeaderLine(j)
             b == [a EXCEPT !.field = Null, !.value = Null]
  <2>1. /\ a \in Handlers /\ a.incoming \in Messages
        /\ a.incoming.headers = Append(j.incoming.headers, <<j.field, j.value>>)
        /\ SameMessage(j, a)
    BY <1>1, <1>2, AddLine
  <2>2. k = [b EXCEPT !.field = IF Truthy(@) THEN @ \o s ELSE s]
    BY <1>2 DEF onHeaderField
  <2> HIDE DEF a
  <2>3. /\ b \in Handlers /\ b.incoming = a.incoming /\ b.field = Null /\ b.value = Null
        /\ b.announced = a.announced /\ b.finished = a.finished
    BY <2>1 DEF Handlers
  <2> HIDE DEF b
  <2>4. k = [b EXCEPT !.field = s]
    BY <2>2, <2>3 DEF Truthy
  <2>5. /\ k \in Handlers /\ k.incoming = a.incoming /\ k.field = s /\ k.value = Null
        /\ k.announced = a.announced /\ k.finished = a.finished
    BY <2>3, <2>4 DEF Handlers
  <2>6. GotField(j) \o s = s
    BY <1>2, ConcatEmptySeq DEF GotField
  <2>7. QED
    BY <1>1, <1>2, <2>1, <2>5, <2>6 DEF Got, GotField, SameMessage
<1>3. CASE j.value = Null
  <2> DEFINE f == IF Truthy(j.field) THEN j.field \o s ELSE s
  <2>1. k = [j EXCEPT !.field = f]
    BY <1>3 DEF onHeaderField
  <2>2. f = GotField(j) \o s /\ f \in Seq(Bytes)
    <3>1. CASE j.field = Null
      <4>1. f = s /\ GotField(j) = <<>>
        BY <3>1 DEF Truthy, GotField
      <4>2. QED
        BY <4>1, ConcatEmptySeq
    <3>2. CASE j.field = <<>>
      <4>1. f = s /\ GotField(j) = <<>>
        BY <3>2 DEF Truthy, GotField
      <4>2. QED
        BY <4>1, ConcatEmptySeq
    <3>3. CASE j.field # Null /\ j.field # <<>>
      <4>1. f = j.field \o s /\ GotField(j) = j.field
        BY <1>3, <3>3 DEF Truthy, GotField
      <4>2. QED
        BY <1>1, <3>3, <4>1, ByteConcat
    <3>4. QED
      BY <3>1, <3>2, <3>3
  <2> HIDE DEF f
  <2>3. /\ k \in Handlers /\ k.incoming = j.incoming /\ k.field = f /\ k.value = j.value
        /\ k.announced = j.announced /\ k.finished = j.finished
    BY <2>1, <2>2 DEF Handlers
  <2>4. QED
    BY <1>1, <1>3, <2>2, <2>3 DEF Got, GotField, SameMessage
<1>4. QED
  BY <1>2, <1>3

\* onHeaderValue extends the value being read.
LEMMA ValueHandler ==
  ASSUME NEW j \in Handlers, NEW s \in Seq(Bytes), NEW k, k = onHeaderValue(j, s)
  PROVE  /\ k \in Handlers /\ k.incoming = j.incoming /\ k.field = j.field
         /\ k.announced = j.announced /\ k.finished = j.finished
         /\ k.value \in Seq(Bytes) /\ k.value = GotValue(j) \o s /\ GotValue(k) = k.value
<1>1. j.value \in Seq(Bytes) \cup {Null} /\ Null \notin Seq(Bytes)
  BY HandlersType
<1> DEFINE v == IF Truthy(j.value) THEN j.value \o s ELSE s
<1>2. k = [j EXCEPT !.value = v]
  BY DEF onHeaderValue
<1>3. v = GotValue(j) \o s /\ v \in Seq(Bytes)
  <2>1. CASE j.value = Null \/ j.value = <<>>
    <3>1. v = s /\ GotValue(j) = <<>>
      BY <2>1 DEF Truthy, GotValue
    <3>2. QED
      BY <3>1, ConcatEmptySeq
  <2>2. CASE j.value # Null /\ j.value # <<>>
    <3>1. v = j.value \o s /\ GotValue(j) = j.value
      BY <2>2 DEF Truthy, GotValue
    <3>2. QED
      BY <1>1, <2>2, <3>1, ByteConcat
  <2>3. QED
    BY <2>1, <2>2
<1> HIDE DEF v
<1>4. /\ k \in Handlers /\ k.incoming = j.incoming /\ k.field = j.field
      /\ k.announced = j.announced /\ k.finished = j.finished /\ k.value = v
  BY <1>2, <1>3 DEF Handlers
<1>5. QED
  BY <1>1, <1>3, <1>4 DEF GotValue

\* onURL extends the url only.
LEMMA UrlHandler ==
  ASSUME NEW j \in Handlers, j.incoming \in Messages, NEW s \in Seq(Bytes),
         NEW k, k = onURL(j, s)
  PROVE  /\ k \in Handlers /\ k.incoming \in Messages
         /\ k.incoming.url = j.incoming.url \o s
         /\ k.incoming.headers = j.incoming.headers /\ k.incoming.body = j.incoming.body
         /\ k.incoming.upgrade = j.incoming.upgrade
         /\ k.field = j.field /\ k.value = j.value
         /\ k.announced = j.announced /\ k.finished = j.finished
<1> DEFINE m == j.incoming
           u == m.url \o s
           n == [m EXCEPT !.url = u]
<1>1. m \in Messages /\ u \in Seq(Bytes)
  <2>1. m.url \in Seq(Bytes)
    BY MessagesType
  <2>2. QED
    BY <2>1, ByteConcat
<1>2. k = [j EXCEPT !.incoming = n]
  BY DEF onURL
<1> HIDE DEF m, u
<1>3. /\ n \in Messages /\ n.headers = m.headers /\ n.url = u /\ n.body = m.body
      /\ n.upgrade = m.upgrade
  BY <1>1 DEF Messages
<1> HIDE DEF n
<1>4. /\ k \in Handlers /\ k.incoming = n /\ k.field = j.field /\ k.value = j.value
      /\ k.announced = j.announced /\ k.finished = j.finished
  BY <1>2, <1>3 DEF Handlers
<1>5. QED
  BY <1>3, <1>4 DEF m, u

\* onBody extends the body only.
LEMMA BodyHandler ==
  ASSUME NEW j \in Handlers, j.incoming \in Messages, NEW s \in Seq(Bytes),
         NEW k, k = onBody(j, s)
  PROVE  /\ k \in Handlers /\ k.incoming \in Messages
         /\ k.incoming.body = j.incoming.body \o s
         /\ k.incoming.headers = j.incoming.headers /\ k.incoming.url = j.incoming.url
         /\ k.incoming.upgrade = j.incoming.upgrade
         /\ k.field = j.field /\ k.value = j.value
         /\ k.announced = j.announced /\ k.finished = j.finished
<1> DEFINE m == j.incoming
           u == m.body \o s
           n == [m EXCEPT !.body = u]
<1>1. m \in Messages /\ u \in Seq(Bytes)
  <2>1. m.body \in Seq(Bytes)
    BY MessagesType
  <2>2. QED
    BY <2>1, ByteConcat
<1>2. k = [j EXCEPT !.incoming = n]
  BY DEF onBody
<1> HIDE DEF m, u
<1>3. /\ n \in Messages /\ n.headers = m.headers /\ n.body = u /\ n.url = m.url
      /\ n.upgrade = m.upgrade
  BY <1>1 DEF Messages
<1> HIDE DEF n
<1>4. /\ k \in Handlers /\ k.incoming = n /\ k.field = j.field /\ k.value = j.value
      /\ k.announced = j.announced /\ k.finished = j.finished
  BY <1>2, <1>3 DEF Handlers
<1>5. QED
  BY <1>3, <1>4 DEF m, u

\* onMessageBegin starts an empty message, with no field and no value.
LEMMA BeginHandler ==
  ASSUME NEW j \in Handlers, NEW k, k = onMessageBegin(j)
  PROVE  /\ k \in Handlers /\ k.incoming \in Messages /\ k.incoming = NoIncoming
         /\ k.field = Null /\ k.value = Null
         /\ k.announced = j.announced /\ k.finished = j.finished
<1>1. NoIncoming \in Messages
  <2>1. <<>> \in Seq(Bytes) /\ <<>> \in Seq(HeaderPairs)
    OBVIOUS
  <2>2. QED
    BY <2>1 DEF NoIncoming, Messages, HeaderPairs
<1>2. k = [j EXCEPT !.incoming = NoIncoming, !.field = Null, !.value = Null]
  BY DEF onMessageBegin
<1> DEFINE n == NoIncoming
<1> HIDE DEF n
<1>3. n \in Messages /\ k = [j EXCEPT !.incoming = n, !.field = Null, !.value = Null]
  BY <1>1, <1>2 DEF n
<1>4. /\ k \in Handlers /\ k.incoming = n /\ k.field = Null /\ k.value = Null
      /\ k.announced = j.announced /\ k.finished = j.finished
  BY <1>3 DEF Handlers
<1>5. QED
  BY <1>3, <1>4 DEF n

\* An announcement tells the server of the url and the headers so far.
LEMMA AnnounceFacts ==
  ASSUME NEW j \in Handlers, j.incoming \in Messages, NEW k, k = Announce(j)
  PROVE  /\ k \in Handlers /\ k.incoming = j.incoming /\ k.field = j.field
         /\ k.value = j.value /\ k.finished = j.finished
         /\ k.announced = Append(j.announced, [url |-> j.incoming.url,
                                               headers |-> j.incoming.headers])
<1> DEFINE x == [url |-> j.incoming.url, headers |-> j.incoming.headers]
           T == [url : Seq(Bytes), headers : Seq(HeaderPairs)]
           as == Append(j.announced, x)
<1>1. x \in T
  BY MessagesType
<1>2. j.announced \in Seq(T)
  BY HandlersType
<1> HIDE DEF x, T
<1>3. as \in Seq(T)
  BY <1>1, <1>2, AppendProperties
<1>4. k = [j EXCEPT !.announced = as]
  BY DEF Announce, x
<1> HIDE DEF as
<1>5. /\ k \in Handlers /\ k.incoming = j.incoming /\ k.field = j.field
      /\ k.value = j.value /\ k.finished = j.finished /\ k.announced = as
  BY <1>3, <1>4 DEF Handlers, T
<1>6. QED
  BY <1>5 DEF as, x

\* A header line is complete or there is none.
LineComplete(j) ==
  \/ j.field = Null /\ j.value = Null
  \/ j.field \in Seq(Bytes) \ {<<>>} /\ j.value \in Seq(Bytes)

\* onHeadersComplete books the last line and announces the message unless it is
\* an upgrade.
LEMMA HeadersHandler ==
  ASSUME NEW j \in Handlers, j.incoming \in Messages, LineComplete(j),
         NEW up \in BOOLEAN, NEW k, k = onHeadersComplete(j, up)
  PROVE  /\ k \in Handlers /\ k.incoming \in Messages
         /\ k.field = Null /\ k.value = Null
         /\ k.incoming.url = j.incoming.url /\ k.incoming.headers = Got(j)
         /\ k.incoming.body = j.incoming.body /\ k.incoming.upgrade = up
         /\ k.finished = j.finished
         /\ up => k.announced = j.announced
         /\ ~up => k.announced = Append(j.announced, [url |-> j.incoming.url,
                                                      headers |-> Got(j)])
<1> DEFINE a == IF HasHeaderLine(j)
                THEN [AddHeaderLine(j) EXCEPT !.field = Null, !.value = Null]
                ELSE j
           b == [a EXCEPT !.incoming.upgrade = up]
<1>0. Null \notin Seq(Bytes)
  BY HandlersType
<1>1. /\ a \in Handlers /\ a.incoming \in Messages /\ a.field = Null /\ a.value = Null
      /\ a.incoming.headers = Got(j) /\ a.incoming.url = j.incoming.url
      /\ a.incoming.body = j.incoming.body
      /\ a.announced = j.announced /\ a.finished = j.finished
  <2>1. CASE j.field = Null /\ j.value = Null
    <3>1. a = j
      BY <2>1 DEF HasHeaderLine, Truthy
    <3> HIDE DEF a
    <3>2. QED
      BY <2>1, <3>1 DEF Got
  <2>2. CASE j.field \in Seq(Bytes) \ {<<>>} /\ j.value \in Seq(Bytes)
    <3> DEFINE c == AddHeaderLine(j)
    <3>1. HasHeaderLine(j)
      BY <1>0, <2>2 DEF HasHeaderLine, Truthy
    <3>2. /\ c \in Handlers /\ c.incoming \in Messages
          /\ c.incoming.headers = Append(j.incoming.headers, <<j.field, j.value>>)
          /\ SameMessage(j, c)
      BY <2>2, AddLine
    <3>3. a = [c EXCEPT !.field = Null, !.value = Null]
      BY <3>1
    <3> HIDE DEF a, c
    <3>4. /\ a \in Handlers /\ a.incoming = c.incoming /\ a.field = Null /\ a.value = Null
          /\ a.announced = c.announced /\ a.finished = c.finished
      BY <3>2, <3>3 DEF Handlers
    <3>5. QED
      BY <1>0, <2>2, <3>2, <3>4 DEF Got, SameMessage
  <2>3. QED
    BY <2>1, <2>2 DEF LineComplete
<1>2. k = IF up THEN b ELSE Announce(b)
  BY DEF onHeadersComplete
<1> HIDE DEF a
<1> DEFINE m == a.incoming
           n == [m EXCEPT !.upgrade = up]
<1>3. b = [a EXCEPT !.incoming = n] /\ m \in Messages
  BY <1>1
<1> HIDE DEF m, b
<1>4. /\ n \in Messages /\ n.headers = m.headers /\ n.body = m.body /\ n.url = m.url
      /\ n.upgrade = up
  BY <1>3 DEF Messages
<1> HIDE DEF n
<1>5. /\ b \in Handlers /\ b.incoming = n /\ b.field = Null /\ b.value = Null
      /\ b.announced = a.announced /\ b.finished = a.finished
  BY <1>1, <1>3, <1>4 DEF Handlers
<1>6. CASE up
  BY <1>1, <1>2, <1>4, <1>5, <1>6 DEF m
<1>7. CASE ~up
  <2>1. k = Announce(b)
    BY <1>2, <1>7
  <2>2. /\ k \in Handlers /\ k.incoming = b.incoming /\ k.field = b.field
        /\ k.value = b.value /\ k.finished = b.finished
        /\ k.announced = Append(b.announced, [url |-> b.incoming.url,
                                              headers |-> b.incoming.headers])
    BY <1>4, <1>5, <2>1, AnnounceFacts
  <2>3. QED
    BY <1>1, <1>4, <1>5, <1>7, <2>2 DEF m
<1>8. QED
  BY <1>6, <1>7

\* onMessageComplete books the last line of a trailer and finishes the message.
LEMMA CompleteHandler ==
  ASSUME NEW j \in Handlers, j.incoming \in Messages, LineComplete(j),
         ~j.incoming.upgrade, NEW k, k = onMessageComplete(j)
  PROVE  /\ k \in Handlers /\ k.incoming \in Messages /\ ~k.incoming.upgrade
         /\ k.announced = j.announced
         /\ k.finished = Append(j.finished,
                            [url |-> j.incoming.url, headers |-> Got(j),
                             body |-> j.incoming.body, upgrade |-> FALSE])
<1> DEFINE a == IF HasHeaderLine(j) THEN AddHeaderLine(j) ELSE j
           m == a.incoming
           fs == Append(a.finished, m)
<1>0. Null \notin Seq(Bytes)
  BY HandlersType
<1>1. /\ a \in Handlers /\ a.incoming \in Messages
      /\ a.incoming.headers = Got(j) /\ a.incoming.url = j.incoming.url
      /\ a.incoming.body = j.incoming.body /\ a.incoming.upgrade = j.incoming.upgrade
      /\ a.announced = j.announced /\ a.finished = j.finished
  <2>1. CASE j.field = Null /\ j.value = Null
    <3>1. a = j
      BY <2>1 DEF HasHeaderLine, Truthy
    <3> HIDE DEF a
    <3>2. QED
      BY <2>1, <3>1 DEF Got
  <2>2. CASE j.field \in Seq(Bytes) \ {<<>>} /\ j.value \in Seq(Bytes)
    <3> DEFINE c == AddHeaderLine(j)
    <3>1. HasHeaderLine(j)
      BY <1>0, <2>2 DEF HasHeaderLine, Truthy
    <3>2. /\ c \in Handlers /\ c.incoming \in Messages
          /\ c.incoming.headers = Append(j.incoming.headers, <<j.field, j.value>>)
          /\ SameMessage(j, c)
      BY <2>2, AddLine
    <3>3. a = c
      BY <3>1
    <3> HIDE DEF a, c
    <3>4. QED
      BY <1>0, <2>2, <3>2, <3>3 DEF Got, SameMessage
  <2>3. QED
    BY <2>1, <2>2 DEF LineComplete
<1>2. k = IF a.incoming.upgrade THEN a ELSE [a EXCEPT !.finished = Append(@, a.incoming)]
  BY DEF onMessageComplete
<1> HIDE DEF a
<1>3. k = [a EXCEPT !.finished = fs]
  BY <1>1, <1>2
<1>4. /\ m = [url |-> j.incoming.url, headers |-> Got(j), body |-> j.incoming.body,
              upgrade |-> FALSE]
      /\ fs \in Seq(Messages)
  <2>1. /\ m = [url |-> m.url, headers |-> m.headers, body |-> m.body, upgrade |-> m.upgrade]
        /\ m.upgrade \in BOOLEAN
    BY <1>1, MessagesType
  <2>2. m.upgrade = FALSE
    <3>1. m.upgrade = j.incoming.upgrade
      BY <1>1
    <3>2. QED
      BY <2>1, <3>1
  <2>3. a.finished \in Seq(Messages) /\ m \in Messages
    BY <1>1, HandlersType
  <2>4. fs \in Seq(Messages)
    BY <2>3, AppendProperties
  <2>5. QED
    BY <1>1, <2>1, <2>2, <2>4
<1> HIDE DEF fs
<1>5. /\ k \in Handlers /\ k.incoming = a.incoming /\ k.announced = a.announced
      /\ k.finished = fs
  BY <1>1, <1>3, <1>4 DEF Handlers
<1>6. QED
  BY <1>1, <1>4, <1>5 DEF fs

-----------------------------------------------------------------------------
(* A list of header lines in the parser, byte by byte.                     *)

Behind == IF pending = Null THEN <<>> ELSE pending

\* A list of header lines in the parser: base is what came before it, cur what
\* is still to come and end what follows the list; flags and toRead are as in
\* before until the value of the last line is being read, then as in seen.
InFieldStart(hs, base, before, cur, end) ==
  /\ state = "field_start"
  /\ js.field = Null /\ js.value = Null /\ js.incoming.headers = base
  /\ <<flags, toRead>> = before
  /\ cur = AfterLines(hs, 0, end)

InField(hs, base, before, cur, end, i) ==
  /\ state = "field"
  /\ js.value # Null => js.field # Null
  /\ Got(js) = base \o JoinedTo(hs, i - 1)
  /\ <<flags, toRead>> = before
  /\ \E u \in Seq(FieldBytes) :
       /\ hs[i].field = GotField(js) \o (Behind \o u)
       /\ cur = u \o AfterPieces(hs, i, 0, end)

OnLine(hs, base, i) ==
  js.field = hs[i].field /\ js.incoming.headers = base \o JoinedTo(hs, i - 1)

Either(hs, i, before, seen) == IF i = Len(hs) THEN seen ELSE before

InValueStart(hs, base, before, cur, end, i) ==
  /\ state = "value_start"
  /\ OnLine(hs, base, i)
  /\ <<flags, toRead>> = before
  /\ \E p \in 0 .. Len(hs[i].value) - 1 :
       /\ GotValue(js) = FlatTo(hs[i].value, p)
       /\ cur = hs[i].value[p + 1] \o (<<"N">> \o AfterPieces(hs, i, p + 1, end))

InValue(hs, base, before, seen, cur, end, i) ==
  /\ state = "value"
  /\ OnLine(hs, base, i)
  /\ <<flags, toRead>> = Either(hs, i, before, seen)
  /\ \E p \in 0 .. Len(hs[i].value) - 1 : \E u \in Seq(ValueBytes) :
       /\ FlatTo(hs[i].value, p + 1) = GotValue(js) \o (Behind \o u)
       /\ cur = u \o (<<"N">> \o AfterPieces(hs, i, p + 1, end))

InValueLws(hs, base, before, seen, cur, end, i) ==
  /\ state = "value_lws"
  /\ OnLine(hs, base, i)
  /\ <<flags, toRead>> = Either(hs, i, before, seen)
  /\ \E p \in 1 .. Len(hs[i].value) :
       /\ js.value = FlatTo(hs[i].value, p)
       /\ cur = AfterPieces(hs, i, p, end)

\* The parser is in a list of header lines, at cur: the lines before are booked
\* in base and the headers, flags and length are before the framing line, seen
\* behind it.
InLines(hs, base, before, seen, cur, end) ==
  \/ InFieldStart(hs, base, before, cur, end)
  \/ \E i \in 1 .. Len(hs) : InField(hs, base, before, cur, end, i)
  \/ \E i \in 1 .. Len(hs) : InValueStart(hs, base, before, cur, end, i)
  \/ \E i \in 1 .. Len(hs) : InValue(hs, base, before, seen, cur, end, i)
  \/ \E i \in 1 .. Len(hs) : InValueLws(hs, base, before, seen, cur, end, i)

\* What the lemmas about a list of header lines take for granted.
ListOf(hs, base, before, seen, cur, end) ==
  /\ hs \in Seq(AnyLines) /\ Framed(hs, before, seen)
  /\ base \in Seq(HeaderPairs) /\ cur \in Seq(Bytes)
  /\ end \in Seq(Bytes) /\ end # <<>> /\ Head(end) = "N"

\* The parser object inside a message.
ParserTyped ==
  /\ js \in Handlers /\ js.incoming \in Messages
  /\ pending \in (IF running /\ state \in Marked THEN Seq(Bytes) ELSE {Null})

\* Fields and values of a list of lines, over Bytes.
LEMMA LineFacts ==
  ASSUME NEW hs \in Seq(AnyLines), NEW i \in 1 .. Len(hs)
  PROVE  /\ hs[i].field \in Seq(FieldBytes) /\ hs[i].field # <<>>
         /\ hs[i].field \in Seq(Bytes)
         /\ hs[i].value \in Seq(Seq(ValueBytes)) /\ hs[i].value \in Seq(Seq(Bytes))
         /\ Len(hs[i].value) \in Nat \ {0}
<1>1. hs[i] \in AnyLines
  OBVIOUS
<1> DEFINE h == hs[i]
<1> HIDE DEF h
<1>2. h \in AnyLines
  BY <1>1 DEF h
<1>3. /\ h.field \in Seq(FieldBytes) /\ h.field # <<>> /\ h.value \in Seq(Seq(ValueBytes))
  BY <1>2 DEF AnyLines
<1>4. QED
  BY <1>2, <1>3, PiecesType DEF h

\* A sequence at least as long as a non-empty one is not empty.
LEMMA NotShorter ==
  ASSUME NEW a \in Seq(Bytes), NEW b \in Seq(Bytes), b # <<>>, Len(b) <= Len(a)
  PROVE  a # <<>>
<1>1. Len(b) \in Nat \ {0} /\ Len(a) \in Nat
  BY EmptySeq
<1>2. QED
  BY <1>1, EmptySeq

\* The first byte of a piece tells where one is.
LEMMA Starts ==
  ASSUME NEW hs \in Seq(AnyLines), NEW end \in Seq(Bytes), end # <<>>, Head(end) = "N"
  PROVE  /\ \A i \in 0 .. Len(hs) :
              LET c == AfterLines(hs, i, end)
              IN /\ c \in Seq(Bytes) /\ c # <<>> /\ Len(end) <= Len(c)
                 /\ i = Len(hs) => c = end /\ Head(c) = "N"
                 /\ i < Len(hs) => /\ Head(c) = Head(hs[i + 1].field) /\ Head(c) \in FieldBytes
                                   /\ Tail(c) = Tail(hs[i + 1].field) \o
                                                AfterPieces(hs, i + 1, 0, end)
         /\ \A i \in 1 .. Len(hs) : \A p \in 0 .. Len(hs[i].value) :
              LET c == AfterPieces(hs, i, p, end)
              IN /\ c \in Seq(Bytes) /\ c # <<>> /\ Len(end) <= Len(c)
                 /\ p = Len(hs[i].value) => c = AfterLines(hs, i, end)
                 /\ p < Len(hs[i].value) =>
                      /\ Head(c) = (IF p = 0 THEN ":" ELSE " ")
                      /\ Tail(c) = hs[i].value[p + 1] \o
                                   (<<"N">> \o AfterPieces(hs, i, p + 1, end))
<1>1. ASSUME NEW i \in 0 .. Len(hs)
      PROVE LET c == AfterLines(hs, i, end)
            IN /\ c \in Seq(Bytes) /\ c # <<>> /\ Len(end) <= Len(c)
               /\ i = Len(hs) => c = end /\ Head(c) = "N"
               /\ i < Len(hs) => /\ Head(c) = Head(hs[i + 1].field) /\ Head(c) \in FieldBytes
                                 /\ Tail(c) = Tail(hs[i + 1].field) \o
                                              AfterPieces(hs, i + 1, 0, end)
  <2> DEFINE c == AfterLines(hs, i, end)
             f == hs[i + 1].field
             v == AfterPieces(hs, i + 1, 0, end)
  <2>1. /\ c \in Seq(Bytes) /\ Len(end) <= Len(c)
        /\ i = Len(hs) => c = end
        /\ i < Len(hs) => c = f \o v
    BY AfterLinesFacts
  <2>2. c # <<>>
    <3> HIDE DEF c
    <3>1. c \in Seq(Bytes) /\ Len(end) <= Len(c)
      BY <2>1
    <3>2. QED
      BY <3>1, NotShorter
  <2>3. ASSUME i < Len(hs)
        PROVE  Head(c) = Head(f) /\ Head(c) \in FieldBytes /\ Tail(c) = Tail(f) \o v
    <3>1. i + 1 \in 1 .. Len(hs) /\ 0 \in 0 .. Len(hs[i + 1].value)
      <4>1. i + 1 \in 1 .. Len(hs)
        BY <2>3
      <4> DEFINE n == Len(hs[i + 1].value)
      <4>2. n \in Nat
        BY <4>1, LineFacts
      <4> HIDE DEF n
      <4>3. 0 \in 0 .. n
        BY <4>2
      <4>4. QED
        BY <4>1, <4>3 DEF n
    <3>2. f \in Seq(FieldBytes) /\ f # <<>> /\ f \in Seq(Bytes)
      BY <3>1, LineFacts
    <3>3. v \in Seq(Bytes)
      BY <3>1, AfterPiecesFacts
    <3> HIDE DEF f, v, c
    <3>4. Head(f) \in FieldBytes
      BY <3>2
    <3>5. Head(f \o v) = Head(f) /\ Tail(f \o v) = Tail(f) \o v
      BY <3>2, <3>3, ByteHead
    <3>6. QED
      BY <2>1, <2>3, <3>4, <3>5
  <2>4. QED
    BY <2>1, <2>2, <2>3
<1>2. ASSUME NEW i \in 1 .. Len(hs), NEW p \in 0 .. Len(hs[i].value)
      PROVE  LET c == AfterPieces(hs, i, p, end)
             IN /\ c \in Seq(Bytes) /\ c # <<>> /\ Len(end) <= Len(c)
                /\ p = Len(hs[i].value) => c = AfterLines(hs, i, end)
                /\ p < Len(hs[i].value) =>
                     /\ Head(c) = (IF p = 0 THEN ":" ELSE " ")
                     /\ Tail(c) = hs[i].value[p + 1] \o
                                  (<<"N">> \o AfterPieces(hs, i, p + 1, end))
  <2> DEFINE c == AfterPieces(hs, i, p, end)
             n == Len(hs[i].value)
             b == IF p = 0 THEN ":" ELSE " "
             w == hs[i].value[p + 1]
             z == AfterPieces(hs, i, p + 1, end)
             v == w \o (<<"N">> \o z)
  <2>1. /\ c \in Seq(Bytes) /\ Len(end) <= Len(c)
        /\ p = n => c = AfterLines(hs, i, end)
        /\ p < n => w \in Seq(Bytes) /\ c = <<b>> \o v
    BY AfterPiecesFacts
  <2>2. c # <<>>
    <3> HIDE DEF c
    <3>1. c \in Seq(Bytes) /\ Len(end) <= Len(c)
      BY <2>1
    <3>2. QED
      BY <3>1, NotShorter
  <2>3. ASSUME p < n PROVE Head(c) = b /\ Tail(c) = v
    <3>1. p + 1 \in 0 .. n
      <4>1. n \in Nat /\ p \in 0 .. n
        BY LineFacts
      <4> HIDE DEF n
      <4>2. QED
        BY <2>3, <4>1
    <3>2. z \in Seq(Bytes)
      BY <3>1, AfterPiecesFacts
    <3>3. b \in Bytes /\ "N" \in Bytes
      BY ByteSets
    <3> HIDE DEF z, w, b, c
    <3>4. <<"N">> \o z \in Seq(Bytes)
      BY <3>2, <3>3, ByteOne
    <3>5. v \in Seq(Bytes)
      BY <2>1, <2>3, <3>4, ByteConcat
    <3> HIDE DEF v
    <3>6. Head(<<b>> \o v) = b /\ Tail(<<b>> \o v) = v
      BY <3>3, <3>5, ByteOne
    <3>7. QED
      BY <2>1, <2>3, <3>6
  <2>4. QED
    BY <2>1, <2>2, <2>3
<1>3. QED
  BY <1>1, <1>2

\* Appending a header to a concatenation appends it to the second part.
LEMMA PairAppend ==
  \A a, b \in Seq(HeaderPairs), x \in HeaderPairs : Append(a \o b, x) = a \o Append(b, x)
<1> SUFFICES ASSUME NEW a \in Seq(HeaderPairs), NEW b \in Seq(HeaderPairs),
                    NEW x \in HeaderPairs
             PROVE  Append(a \o b, x) = a \o Append(b, x)
  OBVIOUS
<1> DEFINE one == <<x>>
           ab == a \o b
<1>1. ab \in Seq(HeaderPairs) /\ one \in Seq(HeaderPairs)
  BY ConcatProperties
<1>2. Append(ab, x) = ab \o one /\ Append(b, x) = b \o one
  BY <1>1, AppendIsConcat
<1> HIDE DEF one
<1>3. ab \o one = a \o (b \o one)
  <2>1. one \in Seq(HeaderPairs)
    BY <1>1
  <2>2. QED
    BY <2>1, Associate
<1>4. QED
  BY <1>2, <1>3

\* A line that is held whole in field and value counts as complete.
LEMMA LineHeld ==
  ASSUME NEW hs \in Seq(AnyLines), NEW i \in 1 .. Len(hs),
         NEW j, j.field = hs[i].field, j.value = FlattenSeq(hs[i].value)
  PROVE  /\ j.value # Null /\ j.field # Null
         /\ j.value \in Seq(Bytes) /\ j.field \in Seq(Bytes) \ {<<>>}
<1> DEFINE val == hs[i].value
<1>1. hs[i].field \in Seq(Bytes) /\ hs[i].field # <<>> /\ val \in Seq(Seq(Bytes))
  BY LineFacts
<1>2. FlattenSeq(val) \in Seq(Bytes)
  <2> HIDE DEF val
  <2>1. QED
    BY <1>1, FlattenType
<1>3. QED
  BY <1>1, <1>2, ParserAssumption

\* Holding line i whole is having got i lines.
LEMMA GotLine ==
  ASSUME NEW hs \in Seq(AnyLines), NEW base \in Seq(HeaderPairs), NEW i \in 1 .. Len(hs),
         NEW j, j.field = hs[i].field, j.incoming.headers = base \o JoinedTo(hs, i - 1),
         j.value = FlattenSeq(hs[i].value)
  PROVE  Got(j) = base \o JoinedTo(hs, i)
<1> DEFINE a == JoinedTo(hs, i - 1)
           x == <<hs[i].field, FlattenSeq(hs[i].value)>>
           val == hs[i].value
<1>1. hs[i].field \in Seq(Bytes) /\ val \in Seq(Seq(Bytes))
  BY LineFacts
<1>2. FlattenSeq(val) \in Seq(Bytes)
  <2> HIDE DEF val
  <2>1. QED
    BY <1>1, FlattenType
<1>3. j.value # Null
  BY LineHeld
<1>4. a \in Seq(HeaderPairs) /\ JoinedTo(hs, i) = Append(a, x)
  <2> DEFINE k == i - 1
  <2>1. k \in 0 .. Len(hs) - 1 /\ k \in 0 .. Len(hs) /\ k + 1 = i
    OBVIOUS
  <2>2. JoinedTo(hs, k) \in Seq(Seq(Bytes) \X Seq(Bytes))
    BY <2>1, JoinedFacts
  <2>3. JoinedTo(hs, k + 1) = Append(JoinedTo(hs, k), <<hs[k + 1].field, FlattenSeq(hs[k + 1].value)>>)
    BY <2>1, JoinedFacts
  <2>4. QED
    BY <2>1, <2>2, <2>3 DEF HeaderPairs
<1>5. x \in HeaderPairs
  BY <1>1, <1>2 DEF HeaderPairs
<1>6. Got(j) = Append(base \o a, x)
  BY <1>3 DEF Got
<1> HIDE DEF a, x
<1>7. Append(base \o a, x) = base \o Append(a, x)
  <2>1. a \in Seq(HeaderPairs) /\ x \in HeaderPairs /\ base \in Seq(HeaderPairs)
    BY <1>4, <1>5
  <2>2. QED
    BY <2>1, PairAppend, Zenon
<1>8. QED
  BY <1>4, <1>6, <1>7

\* The parser is about to read the first byte of cur, within the list.
At(hs, base, before, seen, cur, end) ==
  /\ ListOf(hs, base, before, seen, cur, end) /\ ParserTyped
  /\ InLines(hs, base, before, seen, cur, end)
  /\ running /\ Head(left) = Head(cur)

\* It has read that byte and is still within the list.
Onward(hs, base, before, seen, cur, end) ==
  /\ InLines(hs, base, before, seen, Tail(cur), end)'
  /\ ParserTyped' /\ SameMessage(js, js')

\* The bytes behind the mark exist exactly in the states that set it.
LEMMA PendingTyped ==
  ASSUME ParserTyped
  PROVE  /\ js \in Handlers /\ js.incoming \in Messages
         /\ running /\ state \in Marked => pending \in Seq(Bytes) /\ Behind = pending
         /\ ~(running /\ state \in Marked) => pending = Null /\ Behind = <<>>
         /\ Behind \in Seq(Bytes)
BY ParserAssumption DEF ParserTyped, Behind

\* The first byte of a field that follows i lines marks it.
LEMMA EnterField ==
  ASSUME NEW hs, NEW base, NEW before, NEW seen, NEW cur, NEW end,
         ListOf(hs, base, before, seen, cur, end), ParserTyped, running,
         Head(left) = Head(cur), MarkField, NEW i \in 0 .. Len(hs),
         cur = AfterLines(hs, i, end), Got(js) = base \o JoinedTo(hs, i),
         GotField(js) = <<>>, js.value # Null => js.field # Null,
         i < Len(hs) => <<flags, toRead>> = before
  PROVE  Onward(hs, base, before, seen, cur, end)
<1> DEFINE k == i + 1
           f == hs[k].field
           x == Head(left)
<1>1. /\ hs \in Seq(AnyLines) /\ end \in Seq(Bytes) /\ end # <<>> /\ Head(end) = "N"
  BY DEF ListOf
<1>2. /\ x \in FieldBytes /\ x = Head(cur) /\ state' = "field" /\ pending' = <<x>>
      /\ running' = running /\ flags' = flags /\ toRead' = toRead /\ js' = js
  BY DEF MarkField, Mark, Reads
<1>3. "N" \notin FieldBytes
  BY DEF FieldBytes
<1>4. i < Len(hs)
  <2>1. i = Len(hs) => Head(cur) = "N"
    BY <1>1, Starts
  <2>2. QED
    BY <1>1, <1>2, <1>3, <2>1
<1>5. k \in 1 .. Len(hs) /\ k - 1 = i
  BY <1>1, <1>4
<1>6. x = Head(f) /\ Tail(cur) = Tail(f) \o AfterPieces(hs, k, 0, end)
  BY <1>1, <1>2, <1>4, Starts
<1>7. f \in Seq(FieldBytes) /\ f # <<>> /\ f \in Seq(Bytes)
  BY <1>1, <1>5, LineFacts
<1> HIDE DEF f, x, k
<1>8. <<x>> \in Seq(Bytes) /\ <<x>> # Null
  <2>1. x \in Bytes
    BY <1>2, ByteSets
  <2>2. <<x>> \in Seq(Bytes)
    BY <2>1
  <2>3. QED
    BY <2>2, ParserAssumption
<1>9. ParserTyped'
  BY <1>2, <1>8 DEF ParserTyped, Marked
<1>10. Behind' = <<x>>
  BY <1>2, <1>8 DEF Behind
<1>11. Tail(f) \in Seq(FieldBytes) /\ f = <<x>> \o Tail(f)
  BY <1>6, <1>7, HeadAndTail
<1> DEFINE u == Tail(f)
<1>12. f = GotField(js') \o (Behind' \o u)
  <2>1. <<>> \o f = f
    BY ConcatEmptySeq, <1>7
  <2>2. QED
    BY <1>2, <1>10, <1>11, <2>1
<1>13. InField(hs, base, before, Tail(cur), end, k)'
  <2>1. (js.value # Null => js.field # Null)'
    BY <1>2
  <2>2. Got(js') = base \o JoinedTo(hs, k - 1)
    BY <1>2, <1>5
  <2>3. \E w \in Seq(FieldBytes) : /\ hs[k].field = GotField(js') \o (Behind' \o w)
                                   /\ Tail(cur) = w \o AfterPieces(hs, k, 0, end)
    BY <1>6, <1>11, <1>12 DEF f
  <2>4. QED
    BY <1>2, <1>4, <2>1, <2>2, <2>3 DEF InField
<1>14. QED
  BY <1>2, <1>5, <1>9, <1>13 DEF Onward, InLines, SameMessage

\* MarkField, after a list's start or between two lines.
LEMMA MarkFieldStep ==
  ASSUME NEW hs, NEW base, NEW before, NEW seen, NEW cur, NEW end,
         At(hs, base, before, seen, cur, end), MarkField
  PROVE  Onward(hs, base, before, seen, cur, end)
<1>1. /\ ListOf(hs, base, before, seen, cur, end) /\ ParserTyped
      /\ InLines(hs, base, before, seen, cur, end)
      /\ running /\ Head(left) = Head(cur)
  BY DEF At
<1>2. /\ hs \in Seq(AnyLines) /\ base \in Seq(HeaderPairs) /\ end \in Seq(Bytes)
      /\ end # <<>> /\ Head(end) = "N" /\ Len(hs) \in Nat
  BY <1>1 DEF ListOf
<1>3. state \in {"field_start", "value_lws"} /\ Head(cur) \in FieldBytes
  BY <1>1 DEF MarkField, Mark, Reads
<1>4. "N" \notin FieldBytes /\ " " \notin FieldBytes
  BY DEF FieldBytes
<1>5. CASE InFieldStart(hs, base, before, cur, end)
  <2>1. /\ js.field = Null /\ js.value = Null /\ js.incoming.headers = base
        /\ <<flags, toRead>> = before /\ cur = AfterLines(hs, 0, end)
    BY <1>5 DEF InFieldStart
  <2>2. 0 \in 0 .. Len(hs)
    BY <1>2
  <2>3. base \o <<>> = base
    BY <1>2, ConcatEmptySeq
  <2>4. Got(js) = base \o JoinedTo(hs, 0) /\ GotField(js) = <<>>
    BY <1>2, <2>1, <2>3, JoinedFacts DEF Got, GotField
  <2>5. QED
    BY <1>1, <2>1, <2>2, <2>4, EnterField
<1>6. ASSUME NEW i \in 1 .. Len(hs), InValueLws(hs, base, before, seen, cur, end, i)
      PROVE  Onward(hs, base, before, seen, cur, end)
  <2>1. PICK p \in 1 .. Len(hs[i].value) : /\ js.value = FlatTo(hs[i].value, p)
                                           /\ cur = AfterPieces(hs, i, p, end)
    BY <1>6 DEF InValueLws
  <2> DEFINE n == Len(hs[i].value)
             val == hs[i].value
  <2>2. n \in Nat \ {0} /\ val \in Seq(Seq(Bytes)) /\ p \in 1 .. n
    BY <1>2, LineFacts
  <2>3. p \in 0 .. n /\ p # 0
    <3> HIDE DEF n
    <3>1. QED
      BY <2>2
  <2>4. p = n
    <3>1. p < n => Head(cur) = " "
      BY <1>2, <2>1, <2>3, Starts
    <3>2. ~(p < n)
      BY <1>3, <1>4, <3>1
    <3> HIDE DEF n
    <3>3. QED
      BY <2>2, <3>2
  <2>5. cur = AfterLines(hs, i, end)
    BY <1>2, <2>1, <2>3, <2>4, Starts
  <2>6. js.value = FlattenSeq(val)
    <3> HIDE DEF val
    <3>1. 0 \in 0 .. Len(val)
      BY <2>2
    <3>2. FlatTo(val, Len(val)) = FlattenSeq(val)
      BY <2>2, <3>1, FlatToFacts
    <3>3. QED
      BY <2>1, <2>4, <3>2 DEF val
  <2>7. js.field = hs[i].field /\ js.incoming.headers = base \o JoinedTo(hs, i - 1)
        /\ <<flags, toRead>> = Either(hs, i, before, seen)
    BY <1>6 DEF InValueLws, OnLine
  <2>8. /\ Got(js) = base \o JoinedTo(hs, i) /\ js.value # Null /\ js.field # Null
    <3>1. js.value = FlattenSeq(hs[i].value)
      BY <2>6
    <3>2. Got(js) = base \o JoinedTo(hs, i)
      BY <1>2, <2>7, <3>1, GotLine
    <3>3. js.value # Null /\ js.field # Null
      BY <1>2, <2>7, <3>1, LineHeld
    <3>4. QED
      BY <3>2, <3>3
  <2>9. i \in 0 .. Len(hs) /\ (i < Len(hs) => <<flags, toRead>> = before)
    <3>1. i \in 0 .. Len(hs) /\ (i < Len(hs) => i # Len(hs))
      BY <1>2
    <3>2. QED
      BY <2>7, <3>1, Zenon DEF Either
  <2>10. GotField(js) = <<>>
    BY <2>8 DEF GotField
  <2>11. QED
    BY <1>1, <2>5, <2>8, <2>9, <2>10, EnterField
<1>7. QED
  BY <1>1, <1>3, <1>5, <1>6 DEF InLines, InField, InValueStart, InValue

\* MoreBytes, in a field.
LEMMA MoreFieldStep ==
  ASSUME NEW hs, NEW base, NEW before, NEW seen, NEW cur, NEW end,
         At(hs, base, before, seen, cur, end), MoreBytes, state = "field"
  PROVE  Onward(hs, base, before, seen, cur, end)
<1>1. /\ ListOf(hs, base, before, seen, cur, end) /\ ParserTyped
      /\ InLines(hs, base, before, seen, cur, end)
      /\ running /\ Head(left) = Head(cur)
  BY DEF At
<1>2. /\ hs \in Seq(AnyLines) /\ base \in Seq(HeaderPairs) /\ end \in Seq(Bytes)
      /\ end # <<>> /\ Head(end) = "N" /\ Len(hs) \in Nat
  BY <1>1 DEF ListOf
<1>3. /\ Head(cur) \in FieldBytes /\ pending' = Append(pending, Head(cur))
      /\ state' = state /\ running' = running /\ flags' = flags /\ toRead' = toRead
      /\ js' = js
  BY <1>1 DEF MoreBytes, More, Reads
<1>4. ":" \notin FieldBytes
  BY DEF FieldBytes
<1>5. PICK i \in 1 .. Len(hs) : InField(hs, base, before, cur, end, i)
  BY <1>1 DEF InLines, InFieldStart, InValueStart, InValue, InValueLws
<1>6. PICK u \in Seq(FieldBytes) : /\ hs[i].field = GotField(js) \o (Behind \o u)
                                   /\ cur = u \o AfterPieces(hs, i, 0, end)
  BY <1>5 DEF InField
<1> DEFINE v == AfterPieces(hs, i, 0, end)
<1>7. v \in Seq(Bytes) /\ Head(v) = ":"
  <2> DEFINE n == Len(hs[i].value)
  <2>1. n \in Nat \ {0}
    BY <1>2, LineFacts
  <2>2. 0 \in 0 .. n /\ 0 < n
    <3> HIDE DEF n
    <3>1. QED
      BY <2>1
  <2>3. QED
    BY <1>2, <2>2, Starts
<1> HIDE DEF v
<1>8. cur = u \o v /\ u \in Seq(Bytes)
  BY <1>6, ByteSets, SeqOfSubset DEF v
<1>9. u # <<>>
  <2>1. u = <<>> => cur = v
    BY <1>7, <1>8, ConcatEmptySeq
  <2>2. QED
    BY <1>3, <1>4, <1>7, <2>1
<1>10. Head(cur) = Head(u) /\ Tail(cur) = Tail(u) \o v /\ Head(u) \in Bytes
       /\ Tail(u) \in Seq(FieldBytes)
  <2>1. Tail(u) \in Seq(FieldBytes)
    BY <1>9
  <2>2. QED
    BY <1>7, <1>8, <1>9, <2>1, ByteHead
<1>11. pending \in Seq(Bytes) /\ Behind = pending
  BY <1>1, PendingTyped DEF Marked
<1> DEFINE q == Append(pending, Head(u))
<1>12. q \in Seq(Bytes) /\ pending' = q
  BY <1>3, <1>10, <1>11, AppendProperties
<1>13. q \o Tail(u) = pending \o u
  BY <1>8, <1>9, <1>11, Shift
<1> HIDE DEF q
<1>14. Behind' = q /\ ParserTyped'
  <2>1. q # Null
    BY <1>12, ParserAssumption
  <2>2. QED
    BY <1>1, <1>3, <1>12, <2>1 DEF Behind, ParserTyped, Marked
<1>15. InField(hs, base, before, Tail(cur), end, i)'
  <2>1. Got(js') = base \o JoinedTo(hs, i - 1) /\ (js'.value # Null => js'.field # Null)
        /\ <<flags', toRead'>> = before /\ state' = "field"
    BY <1>3, <1>5 DEF InField
  <2>2. hs[i].field = GotField(js') \o (Behind' \o Tail(u))
    BY <1>3, <1>6, <1>11, <1>13, <1>14
  <2>3. Tail(cur) = Tail(u) \o AfterPieces(hs, i, 0, end)
    BY <1>10 DEF v
  <2>4. \E w \in Seq(FieldBytes) : /\ hs[i].field = GotField(js') \o (Behind' \o w)
                                   /\ Tail(cur) = w \o AfterPieces(hs, i, 0, end)
    BY <1>10, <2>2, <2>3
  <2>5. QED
    BY <2>1, <2>4 DEF InField
<1>16. QED
  BY <1>3, <1>14, <1>15 DEF Onward, InLines, SameMessage

\* OnHeaderField: the field is whole.
LEMMA HeaderFieldStep ==
  ASSUME NEW hs, NEW base, NEW before, NEW seen, NEW cur, NEW end,
         At(hs, base, before, seen, cur, end), OnHeaderField
  PROVE  Onward(hs, base, before, seen, cur, end)
<1>1. /\ ListOf(hs, base, before, seen, cur, end) /\ ParserTyped
      /\ InLines(hs, base, before, seen, cur, end)
      /\ running /\ Head(left) = Head(cur)
  BY DEF At
<1>2. /\ hs \in Seq(AnyLines) /\ base \in Seq(HeaderPairs) /\ end \in Seq(Bytes)
      /\ end # <<>> /\ Head(end) = "N" /\ Len(hs) \in Nat
  BY <1>1 DEF ListOf
<1>3. /\ Head(cur) = ":" /\ pending' = Null /\ state = "field" /\ state' = "value_start"
      /\ running' = running /\ flags' = flags /\ toRead' = toRead
      /\ js' = onHeaderField(js, pending)
  BY <1>1 DEF OnHeaderField, Reads
<1>4. ":" \notin FieldBytes
  BY DEF FieldBytes
<1>5. PICK i \in 1 .. Len(hs) : InField(hs, base, before, cur, end, i)
  BY <1>1, <1>3 DEF InLines, InFieldStart, InValueStart, InValue, InValueLws
<1>6. PICK u \in Seq(FieldBytes) : /\ hs[i].field = GotField(js) \o (Behind \o u)
                                   /\ cur = u \o AfterPieces(hs, i, 0, end)
  BY <1>5 DEF InField
<1> DEFINE v == AfterPieces(hs, i, 0, end)
           w == hs[i].value[1]
           z == <<"N">> \o AfterPieces(hs, i, 1, end)
           n == Len(hs[i].value)
<1>7. n \in Nat \ {0} /\ hs[i].value \in Seq(Seq(Bytes))
  BY <1>2, LineFacts
<1>8. v \in Seq(Bytes) /\ Tail(v) = w \o z
  <2>1. 0 \in 0 .. n /\ 0 < n
    <3> HIDE DEF n
    <3>1. QED
      BY <1>7
  <2>2. 0 + 1 = 1
    OBVIOUS
  <2>3. v \in Seq(Bytes)
    BY <1>2, <2>1, Starts
  <2>4. Tail(v) = hs[i].value[0 + 1] \o (<<"N">> \o AfterPieces(hs, i, 0 + 1, end))
    BY <1>2, <2>1, Starts
  <2>5. QED
    BY <2>2, <2>3, <2>4
<1> HIDE DEF v
<1>9. cur = u \o v /\ u \in Seq(Bytes)
  BY <1>6, ByteSets, SeqOfSubset DEF v
<1>10. u = <<>>
  <2> SUFFICES ASSUME u # <<>> PROVE FALSE
    OBVIOUS
  <2>1. Head(cur) = Head(u) /\ Head(u) \in FieldBytes
    BY <1>8, <1>9, ByteHead
  <2>2. QED
    BY <1>3, <1>4, <2>1
<1>11. pending \in Seq(Bytes) /\ Behind = pending /\ js \in Handlers /\ js.incoming \in Messages
  BY <1>1, <1>3, PendingTyped DEF Marked
<1>12. Tail(cur) = w \o z
  <2>1. cur = v
    BY <1>8, <1>9, <1>10, ConcatEmptySeq
  <2>2. QED
    BY <1>8, <2>1
<1>13. js.value # Null => js.field # Null
  BY <1>5 DEF InField
<1>14. /\ js' \in Handlers /\ js'.incoming \in Messages /\ SameMessage(js, js')
       /\ Got(js') = Got(js) /\ js'.value = Null /\ js'.field = GotField(js) \o pending
  BY <1>3, <1>11, <1>13, FieldHandler
<1>15. js'.field = hs[i].field
  <2>1. pending \o u = pending
    BY <1>10, <1>11, ConcatEmptySeq
  <2>2. QED
    BY <1>6, <1>11, <1>14, <2>1
<1>16. OnLine(hs, base, i)'
  <2>1. Got(js) = base \o JoinedTo(hs, i - 1)
    BY <1>5 DEF InField
  <2>2. js'.incoming.headers = base \o JoinedTo(hs, i - 1)
    BY <1>14, <2>1 DEF Got
  <2>3. QED
    BY <1>15, <2>2 DEF OnLine
<1>17. InValueStart(hs, base, before, Tail(cur), end, i)'
  <2>1. GotValue(js') = FlatTo(hs[i].value, 0)
    <3> DEFINE val == hs[i].value
    <3>1. val \in Seq(Seq(Bytes))
      BY <1>7
    <3> HIDE DEF val
    <3>2. 0 \in 0 .. Len(val)
      BY <3>1
    <3>3. FlatTo(val, 0) = <<>>
      BY <3>1, <3>2, FlatToFacts
    <3>4. QED
      BY <1>14, <3>3 DEF GotValue, val
  <2>2. 0 \in 0 .. n - 1 /\ 0 + 1 = 1
    <3> HIDE DEF n
    <3>1. QED
      BY <1>7
  <2>3. \E p \in 0 .. n - 1 :
          /\ GotValue(js') = FlatTo(hs[i].value, p)
          /\ Tail(cur) = hs[i].value[p + 1] \o (<<"N">> \o AfterPieces(hs, i, p + 1, end))
    BY <1>12, <2>1, <2>2
  <2>4. <<flags', toRead'>> = before
    BY <1>3, <1>5 DEF InField
  <2>5. QED
    BY <1>3, <1>16, <2>3, <2>4 DEF InValueStart
<1>18. ParserTyped'
  BY <1>3, <1>14 DEF ParserTyped, Marked
<1>19. QED
  BY <1>14, <1>17, <1>18 DEF Onward, InLines

\* The pieces of a value.
LEMMA ValueFacts ==
  ASSUME NEW hs \in Seq(AnyLines), NEW i \in 1 .. Len(hs), NEW p \in 0 .. Len(hs[i].value) - 1,
         NEW end \in Seq(Bytes)
  PROVE  /\ p \in 0 .. Len(hs[i].value) /\ p + 1 \in 0 .. Len(hs[i].value)
         /\ p + 1 \in 1 .. Len(hs[i].value)
         /\ hs[i].value[p + 1] \in Seq(ValueBytes) /\ hs[i].value[p + 1] \in Seq(Bytes)
         /\ FlatTo(hs[i].value, p) \in Seq(Bytes) /\ FlatTo(hs[i].value, p + 1) \in Seq(Bytes)
         /\ FlatTo(hs[i].value, p + 1) = FlatTo(hs[i].value, p) \o hs[i].value[p + 1]
         /\ AfterPieces(hs, i, p + 1, end) \in Seq(Bytes)
         /\ Head(<<"N">> \o AfterPieces(hs, i, p + 1, end)) = "N"
         /\ Tail(<<"N">> \o AfterPieces(hs, i, p + 1, end)) = AfterPieces(hs, i, p + 1, end)
         /\ <<"N">> \o AfterPieces(hs, i, p + 1, end) \in Seq(Bytes)
<1> DEFINE val == hs[i].value
           n == Len(val)
           z == AfterPieces(hs, i, p + 1, end)
<1>1. val \in Seq(Seq(ValueBytes)) /\ val \in Seq(Seq(Bytes)) /\ n \in Nat \ {0}
  BY LineFacts
<1>2. p \in 0 .. n /\ p + 1 \in 0 .. n /\ p + 1 \in 1 .. n /\ p < n
  <2>1. p \in 0 .. n - 1
    OBVIOUS
  <2> HIDE DEF n
  <2>2. QED
    BY <1>1, <2>1
<1>3. val[p + 1] \in Seq(ValueBytes) /\ val[p + 1] \in Seq(Bytes)
  <2> HIDE DEF val
  <2>1. QED
    BY <1>1, <1>2
<1>4. /\ FlatTo(val, p) \in Seq(Bytes) /\ FlatTo(val, p + 1) \in Seq(Bytes)
      /\ FlatTo(val, p + 1) = FlatTo(val, p) \o val[p + 1]
  <2> HIDE DEF val
  <2>1. QED
    BY <1>1, <1>2, FlatToFacts
<1>5. z \in Seq(Bytes)
  BY <1>2, AfterPiecesFacts
<1>6. Head(<<"N">> \o z) = "N" /\ Tail(<<"N">> \o z) = z /\ <<"N">> \o z \in Seq(Bytes)
  <2>1. "N" \in Bytes
    BY ByteSets
  <2> HIDE DEF z
  <2>2. QED
    BY <1>5, <2>1, ByteOne
<1>7. QED
  BY <1>2, <1>3, <1>4, <1>5, <1>6

\* A piece of a value is text, or the single byte that frames the message.
LEMMA FramedAt ==
  ASSUME NEW hs \in Seq(AnyLines), NEW before, NEW seen, Framed(hs, before, seen),
         NEW i \in 1 .. Len(hs), NEW p \in 0 .. Len(hs[i].value) - 1
  PROVE  \/ /\ hs[i].value[p + 1] \in Seq(TextBytes)
            /\ Either(hs, i, before, seen) = before
         \/ \E byte \in ValueBytes : /\ hs[i].value = << <<byte>> >> /\ p = 0
                                     /\ hs[i].value[p + 1] = <<byte>>
                                     /\ Either(hs, i, before, seen) = Effect(byte, before)
<1> DEFINE val == hs[i].value
           n == Len(val)
<1>1. n \in Nat \ {0} /\ p \in 0 .. n - 1
  BY LineFacts
<1>2. p + 1 \in 1 .. n
  <2> HIDE DEF n
  <2>1. QED
    BY <1>1
<1>3. CASE val \in Seq(Seq(TextBytes)) /\ (i = Len(hs) => seen = before)
  <2>1. val[p + 1] \in Seq(TextBytes)
    <3>1. p + 1 \in 1 .. Len(val)
      BY <1>2
    <3> HIDE DEF val
    <3>2. QED
      BY <1>3, <3>1
  <2>2. Either(hs, i, before, seen) = before
    BY <1>3 DEF Either
  <2>3. QED
    BY <2>1, <2>2
<1>4. ASSUME i = Len(hs), NEW byte \in ValueBytes, val = << <<byte>> >>,
             seen = Effect(byte, before)
      PROVE  /\ p = 0 /\ val[p + 1] = <<byte>>
             /\ Either(hs, i, before, seen) = Effect(byte, before)
  <2>1. n = 1
    BY <1>4
  <2>2. p = 0
    <3> HIDE DEF n
    <3>1. QED
      BY <1>1, <2>1
  <2>3. val[p + 1] = <<byte>>
    <3>1. p + 1 = 1
      BY <2>2
    <3> HIDE DEF val
    <3>2. QED
      BY <1>4, <3>1
  <2>4. QED
    BY <1>4, <2>2, <2>3 DEF Either
<1>5. QED
  BY <1>3, <1>4 DEF Framed

\* The first byte of a piece has the effect on flags and length that its line
\* has.
LEMMA EffectOfPiece ==
  ASSUME NEW hs \in Seq(AnyLines), NEW before, NEW seen, Framed(hs, before, seen),
         NEW i \in 1 .. Len(hs), NEW p \in 0 .. Len(hs[i].value) - 1,
         hs[i].value[p + 1] # <<>>, NEW a, NEW b, before = <<a, b>>
  PROVE  Effect(Head(hs[i].value[p + 1]), before) = Either(hs, i, before, seen)
<1> DEFINE w == hs[i].value[p + 1]
<1>1. CASE w \in Seq(TextBytes) /\ Either(hs, i, before, seen) = before
  <2> DEFINE x == Head(w)
  <2>1. x \in TextBytes
    BY <1>1
  <2> HIDE DEF x
  <2>2. x \notin {"T", "W", "C"} /\ x \notin Digits
    BY <2>1, ByteSets DEF TextBytes
  <2>3. Effect(x, before) = <<a \cup {}, b>>
    BY <2>2 DEF Effect
  <2>4. a \cup {} = a
    OBVIOUS
  <2>5. QED
    BY <1>1, <2>3, <2>4 DEF x
<1>2. ASSUME NEW byte \in ValueBytes, w = <<byte>>,
             Either(hs, i, before, seen) = Effect(byte, before)
      PROVE  Effect(Head(w), before) = Either(hs, i, before, seen)
  <2>1. Head(w) = byte
    BY <1>2
  <2>2. QED
    BY <1>2, <2>1
<1>3. QED
  BY <1>1, <1>2, FramedAt

\* MarkValue.
LEMMA MarkValueStep ==
  ASSUME NEW hs, NEW base, NEW before, NEW seen, NEW cur, NEW end,
         At(hs, base, before, seen, cur, end), MarkValue
  PROVE  Onward(hs, base, before, seen, cur, end)
<1>1. /\ ListOf(hs, base, before, seen, cur, end) /\ ParserTyped
      /\ InLines(hs, base, before, seen, cur, end)
      /\ running /\ Head(left) = Head(cur)
  BY DEF At
<1>2. /\ hs \in Seq(AnyLines) /\ base \in Seq(HeaderPairs) /\ end \in Seq(Bytes)
      /\ end # <<>> /\ Head(end) = "N" /\ Len(hs) \in Nat /\ Framed(hs, before, seen)
  BY <1>1 DEF ListOf
<1>3. /\ Head(cur) \in ValueBytes /\ pending' = <<Head(cur)>>
      /\ state = "value_start" /\ state' = "value" /\ running' = running /\ js' = js
  BY <1>1 DEF MarkValue, Mark, Reads
<1>4. <<flags', toRead'>> = Effect(Head(cur), <<flags, toRead>>)
  <2> DEFINE x == Head(cur)
             known == [T |-> "chunked", W |-> "upgrade", C |-> "close"]
  <2>1. /\ flags' = IF x \in DOMAIN known THEN flags \cup {known[x]} ELSE flags
        /\ toRead' = IF x \in Digits THEN Number(x) ELSE toRead
    BY <1>1 DEF MarkValue
  <2>2. DOMAIN known = {"T", "W", "C"} /\ known["T"] = "chunked" /\ known["W"] = "upgrade"
        /\ known["C"] = "close"
    OBVIOUS
  <2> HIDE DEF known, x
  <2>3. flags' = flags \cup (CASE x = "T" -> {"chunked"} [] x = "W" -> {"upgrade"}
                              [] x = "C" -> {"close"} [] OTHER -> {})
    BY <2>1, <2>2
  <2>4. QED
    BY <2>1, <2>3 DEF Effect, x
<1>5. "N" \notin ValueBytes
  BY ByteSets DEF ValueBytes, TextBytes
<1>6. PICK i \in 1 .. Len(hs) : InValueStart(hs, base, before, cur, end, i)
  BY <1>1, <1>3 DEF InLines, InFieldStart, InField, InValue, InValueLws
<1>7. PICK p \in 0 .. Len(hs[i].value) - 1 :
        /\ GotValue(js) = FlatTo(hs[i].value, p)
        /\ cur = hs[i].value[p + 1] \o (<<"N">> \o AfterPieces(hs, i, p + 1, end))
  BY <1>6 DEF InValueStart
<1> DEFINE w == hs[i].value[p + 1]
           z == <<"N">> \o AfterPieces(hs, i, p + 1, end)
           f == FlatTo(hs[i].value, p + 1)
<1>8. /\ w \in Seq(ValueBytes) /\ w \in Seq(Bytes) /\ z \in Seq(Bytes) /\ Head(z) = "N"
      /\ f = FlatTo(hs[i].value, p) \o w
  BY <1>2, ValueFacts
<1>9. w # <<>> => Effect(Head(w), before) = Either(hs, i, before, seen)
  <2>1. before = <<flags, toRead>>
    BY <1>6 DEF InValueStart
  <2>2. PICK a, b : a = flags /\ b = toRead
    OBVIOUS
  <2>3. before = <<a, b>>
    BY <2>1, <2>2
  <2> HIDE DEF w
  <2>4. QED
    BY <1>2, <2>3, EffectOfPiece DEF w
<1> HIDE DEF w, z, f
<1>10. cur = w \o z
  BY <1>7 DEF w, z
<1>11. w # <<>>
  <2>1. w = <<>> => cur = z
    BY <1>8, <1>10, ConcatEmptySeq
  <2>2. QED
    BY <1>3, <1>5, <1>8, <2>1
<1>12. /\ Head(cur) = Head(w) /\ Tail(cur) = Tail(w) \o z /\ Head(w) \in Bytes
       /\ Tail(w) \in Seq(ValueBytes) /\ w = <<Head(w)>> \o Tail(w)
  <2>1. Tail(w) \in Seq(ValueBytes) /\ w = <<Head(w)>> \o Tail(w)
    BY <1>8, <1>11, HeadAndTail
  <2>2. QED
    BY <1>8, <1>10, <1>11, <2>1, ByteHead
<1> DEFINE x == Head(cur)
<1>13. x \in Bytes /\ w = <<x>> \o Tail(w)
  BY <1>12
<1>14. pending' = <<x>>
  BY <1>3
<1> HIDE DEF x
<1>15. <<x>> \in Seq(Bytes) /\ <<x>> # Null
  <2>1. <<x>> \in Seq(Bytes)
    BY <1>13
  <2>2. QED
    BY <2>1, ParserAssumption
<1>16. Behind' = <<x>> /\ ParserTyped'
  BY <1>1, <1>3, <1>14, <1>15 DEF Behind, ParserTyped, Marked
<1>17. InValue(hs, base, before, seen, Tail(cur), end, i)'
  <2>1. OnLine(hs, base, i)'
    BY <1>3, <1>6 DEF InValueStart, OnLine
  <2>2. <<flags', toRead'>> = Either(hs, i, before, seen)
    <3>1. before = <<flags, toRead>>
      BY <1>6 DEF InValueStart
    <3>2. QED
      BY <1>4, <1>9, <1>11, <1>12, <3>1
  <2>3. f = GotValue(js') \o (Behind' \o Tail(w))
    BY <1>3, <1>7, <1>8, <1>13, <1>16
  <2>4. FlatTo(hs[i].value, p + 1) = GotValue(js') \o (Behind' \o Tail(w))
        /\ Tail(cur) = Tail(w) \o (<<"N">> \o AfterPieces(hs, i, p + 1, end))
    BY <1>12, <2>3 DEF f, z
  <2>5. \E q \in 0 .. Len(hs[i].value) - 1 : \E u \in Seq(ValueBytes) :
          /\ FlatTo(hs[i].value, q + 1) = GotValue(js') \o (Behind' \o u)
          /\ Tail(cur) = u \o (<<"N">> \o AfterPieces(hs, i, q + 1, end))
    BY <1>12, <2>4
  <2>6. QED
    BY <1>3, <2>1, <2>2, <2>5 DEF InValue
<1>18. QED
  BY <1>3, <1>16, <1>17 DEF Onward, InLines, SameMessage

\* MoreBytes, in a value.
LEMMA MoreValueStep ==
  ASSUME NEW hs, NEW base, NEW before, NEW seen, NEW cur, NEW end,
         At(hs, base, before, seen, cur, end), MoreBytes, state = "value"
  PROVE  Onward(hs, base, before, seen, cur, end)
<1>1. /\ ListOf(hs, base, before, seen, cur, end) /\ ParserTyped
      /\ InLines(hs, base, before, seen, cur, end)
      /\ running /\ Head(left) = Head(cur)
  BY DEF At
<1>2. /\ hs \in Seq(AnyLines) /\ end \in Seq(Bytes)
  BY <1>1 DEF ListOf
<1>3. /\ Head(cur) \in ValueBytes \cup {" "} /\ pending' = Append(pending, Head(cur))
      /\ state' = state /\ running' = running /\ flags' = flags /\ toRead' = toRead
      /\ js' = js
  BY <1>1 DEF MoreBytes, More, Reads
<1>4. "N" \notin ValueBytes \cup {" "}
  BY ByteSets DEF ValueBytes, TextBytes
<1>5. PICK i \in 1 .. Len(hs) : InValue(hs, base, before, seen, cur, end, i)
  BY <1>1 DEF InLines, InFieldStart, InValueStart, InField, InValueLws
<1>6. PICK p \in 0 .. Len(hs[i].value) - 1 : \E u \in Seq(ValueBytes) :
        /\ FlatTo(hs[i].value, p + 1) = GotValue(js) \o (Behind \o u)
        /\ cur = u \o (<<"N">> \o AfterPieces(hs, i, p + 1, end))
  BY <1>5 DEF InValue
<1>7. PICK u \in Seq(ValueBytes) :
        /\ FlatTo(hs[i].value, p + 1) = GotValue(js) \o (Behind \o u)
        /\ cur = u \o (<<"N">> \o AfterPieces(hs, i, p + 1, end))
  BY <1>6
<1> DEFINE z == <<"N">> \o AfterPieces(hs, i, p + 1, end)
           f == FlatTo(hs[i].value, p + 1)
<1>8. z \in Seq(Bytes) /\ Head(z) = "N"
  BY <1>2, ValueFacts
<1> HIDE DEF z, f
<1>9. cur = u \o z /\ u \in Seq(Bytes) /\ f = GotValue(js) \o (Behind \o u)
  BY <1>7, ByteSets, SeqOfSubset DEF z, f
<1>10. u # <<>>
  <2>1. u = <<>> => cur = z
    BY <1>8, <1>9, ConcatEmptySeq
  <2>2. QED
    BY <1>3, <1>4, <1>8, <2>1
<1>11. Head(cur) = Head(u) /\ Tail(cur) = Tail(u) \o z /\ Head(u) \in Bytes
       /\ Tail(u) \in Seq(ValueBytes)
  <2>1. Tail(u) \in Seq(ValueBytes)
    BY <1>10
  <2>2. QED
    BY <1>8, <1>9, <1>10, <2>1, ByteHead
<1>12. pending \in Seq(Bytes) /\ Behind = pending
  BY <1>1, PendingTyped DEF Marked
<1> DEFINE q == Append(pending, Head(u))
<1>13. q \in Seq(Bytes) /\ pending' = q
  BY <1>3, <1>11, <1>12, AppendProperties
<1>14. q \o Tail(u) = pending \o u
  BY <1>9, <1>10, <1>12, Shift
<1> HIDE DEF q
<1>15. Behind' = q /\ ParserTyped'
  <2>1. q # Null
    BY <1>13, ParserAssumption
  <2>2. QED
    BY <1>1, <1>3, <1>13, <2>1 DEF Behind, ParserTyped, Marked
<1>16. InValue(hs, base, before, seen, Tail(cur), end, i)'
  <2>1. OnLine(hs, base, i)' /\ <<flags', toRead'>> = Either(hs, i, before, seen)
        /\ state' = "value"
    BY <1>3, <1>5 DEF InValue, OnLine
  <2>2. f = GotValue(js') \o (Behind' \o Tail(u))
    BY <1>3, <1>9, <1>12, <1>14, <1>15
  <2>3. FlatTo(hs[i].value, p + 1) = GotValue(js') \o (Behind' \o Tail(u))
        /\ Tail(cur) = Tail(u) \o (<<"N">> \o AfterPieces(hs, i, p + 1, end))
    BY <1>11, <2>2 DEF f, z
  <2>4. \E k \in 0 .. Len(hs[i].value) - 1 : \E v \in Seq(ValueBytes) :
          /\ FlatTo(hs[i].value, k + 1) = GotValue(js') \o (Behind' \o v)
          /\ Tail(cur) = v \o (<<"N">> \o AfterPieces(hs, i, k + 1, end))
    BY <1>11, <2>3
  <2>5. QED
    BY <2>1, <2>4 DEF InValue
<1>17. QED
  BY <1>3, <1>15, <1>16 DEF Onward, InLines, SameMessage

\* No separator is a byte of a field, a value or a url.
LEMMA OtherBytes ==
  /\ "N" \notin ValueBytes /\ " " \notin ValueBytes /\ ":" \notin ValueBytes /\ "X" \notin ValueBytes
  /\ "N" \notin FieldBytes /\ " " \notin FieldBytes /\ ":" \notin FieldBytes /\ "X" \notin FieldBytes
  /\ "N" \notin UrlBytes /\ "V" \notin UrlBytes /\ "X" \notin UrlBytes
BY ByteSets DEF ValueBytes, TextBytes, FieldBytes, UrlBytes

FromPiece(hs, i, p, end) == hs[i].value[p] \o (<<"N">> \o AfterPieces(hs, i, p, end))

\* The end of the pieces of a line: the next line or the end of the list.
AtPiece(hs, i, p, end) ==
  LET c == AfterPieces(hs, i, p, end)
      n == Len(hs[i].value)
  IN /\ c \in Seq(Bytes)
     /\ p < n => /\ Head(c) = (IF p = 0 THEN ":" ELSE " ")
                 /\ Tail(c) = FromPiece(hs, i, p + 1, end)
     /\ ~(p < n) => /\ p = n /\ c = AfterLines(hs, i, end)
                    /\ i = Len(hs) => c = end
                    /\ i # Len(hs) => Head(c) \in FieldBytes

\* Where the pieces of a value end the next line starts, or the list ends.
LEMMA EndOfPieces ==
  ASSUME NEW hs \in Seq(AnyLines), NEW end \in Seq(Bytes), end # <<>>, Head(end) = "N",
         NEW i \in 1 .. Len(hs), NEW p \in 0 .. Len(hs[i].value)
  PROVE  AtPiece(hs, i, p, end)
<1> DEFINE n == Len(hs[i].value)
           m == Len(hs)
           c == AfterPieces(hs, i, p, end)
<1>1. n \in Nat \ {0} /\ m \in Nat
  BY LineFacts
<1>2. /\ c \in Seq(Bytes)
      /\ p = n => c = AfterLines(hs, i, end)
      /\ p < n => /\ Head(c) = (IF p = 0 THEN ":" ELSE " ")
                  /\ Tail(c) = FromPiece(hs, i, p + 1, end)
  BY Starts DEF FromPiece
<1>3. ~(p < n) => p = n
  <2>1. p \in 0 .. n
    OBVIOUS
  <2> HIDE DEF n
  <2>2. QED
    BY <1>1, <2>1
<1>4. i \in 0 .. m /\ (i # m => i < m)
  <2>1. i \in 1 .. m
    OBVIOUS
  <2> HIDE DEF m
  <2>2. QED
    BY <1>1, <2>1
<1>5. /\ i = m => AfterLines(hs, i, end) = end
      /\ i < m => Head(AfterLines(hs, i, end)) \in FieldBytes
  BY <1>4, Starts
<1> HIDE DEF c, n, m
<1>6. /\ c \in Seq(Bytes)
      /\ p < n => /\ Head(c) = (IF p = 0 THEN ":" ELSE " ")
                  /\ Tail(c) = FromPiece(hs, i, p + 1, end)
      /\ ~(p < n) => /\ p = n /\ c = AfterLines(hs, i, end)
                     /\ i = m => c = end
                     /\ i # m => Head(c) \in FieldBytes
  BY <1>2, <1>3, <1>4, <1>5
<1>7. QED
  BY <1>6 DEF AtPiece, c, n, m

\* SkipSpace: before a further line of a value.
LEMMA SkipSpaceStep ==
  ASSUME NEW hs, NEW base, NEW before, NEW seen, NEW cur, NEW end,
         At(hs, base, before, seen, cur, end), SkipSpace
  PROVE  Onward(hs, base, before, seen, cur, end)
<1>1. /\ ListOf(hs, base, before, seen, cur, end) /\ ParserTyped
      /\ InLines(hs, base, before, seen, cur, end)
      /\ running /\ Head(left) = Head(cur)
  BY DEF At
<1>2. /\ hs \in Seq(AnyLines) /\ base \in Seq(HeaderPairs) /\ end \in Seq(Bytes)
      /\ end # <<>> /\ Head(end) = "N" /\ Len(hs) \in Nat /\ Framed(hs, before, seen)
  BY <1>1 DEF ListOf
<1>3. /\ Head(cur) = " " /\ pending' = pending /\ state \in {"value_start", "value_lws"}
      /\ state' = "value_start" /\ running' = running /\ js' = js
      /\ flags' = flags /\ toRead' = toRead
  BY <1>1 DEF SkipSpace, Reads
<1>4. ASSUME NEW i \in 1 .. Len(hs), InValueStart(hs, base, before, cur, end, i)
      PROVE  FALSE
  <2>1. PICK p \in 0 .. Len(hs[i].value) - 1 :
          /\ GotValue(js) = FlatTo(hs[i].value, p)
          /\ cur = hs[i].value[p + 1] \o (<<"N">> \o AfterPieces(hs, i, p + 1, end))
    BY <1>4 DEF InValueStart
  <2> DEFINE w == hs[i].value[p + 1]
             z == <<"N">> \o AfterPieces(hs, i, p + 1, end)
  <2>2. w \in Seq(ValueBytes) /\ w \in Seq(Bytes) /\ z \in Seq(Bytes) /\ Head(z) = "N"
    BY <1>2, ValueFacts
  <2>3. cur = w \o z
    BY <2>1
  <2> HIDE DEF w, z
  <2>4. w = <<>> => cur = z
    BY <2>2, <2>3, ConcatEmptySeq
  <2>5. w # <<>> => Head(cur) \in ValueBytes
    <3> SUFFICES ASSUME w # <<>> PROVE Head(cur) \in ValueBytes
      OBVIOUS
    <3>1. Head(w) \in ValueBytes /\ Head(cur) = Head(w)
      BY <2>2, <2>3, ByteHead
    <3>2. QED
      BY <3>1
  <2>6. QED
    BY <1>3, <2>2, <2>4, <2>5, OtherBytes
<1>5. PICK i \in 1 .. Len(hs) : InValueLws(hs, base, before, seen, cur, end, i)
  BY <1>1, <1>3, <1>4 DEF InLines, InFieldStart, InField, InValue
<1>6. PICK p \in 1 .. Len(hs[i].value) : /\ js.value = FlatTo(hs[i].value, p)
                                         /\ cur = AfterPieces(hs, i, p, end)
  BY <1>5 DEF InValueLws
<1> DEFINE n == Len(hs[i].value)
<1>7. n \in Nat \ {0} /\ p \in 1 .. n /\ p \in 0 .. n
  <2>1. n \in Nat \ {0} /\ p \in 1 .. n
    BY <1>2, LineFacts
  <2> HIDE DEF n
  <2>2. QED
    BY <2>1
<1>8. p < n
  <2> DEFINE c == AfterPieces(hs, i, p, end)
  <2>1. ~(p < n) => /\ i = Len(hs) => c = end
                    /\ i # Len(hs) => Head(c) \in FieldBytes
    BY <1>2, <1>7, EndOfPieces DEF AtPiece
  <2>2. Head(c) = " " /\ Head(end) = "N"
    BY <1>2, <1>3, <1>6
  <2> HIDE DEF c, n
  <2>3. QED
    BY <2>1, <2>2, OtherBytes
<1>9. p \in 0 .. n - 1 /\ p # 0
  <2> HIDE DEF n
  <2>1. QED
    BY <1>7, <1>8
<1>10. Tail(cur) = FromPiece(hs, i, p + 1, end)
  <2>1. Tail(AfterPieces(hs, i, p, end)) = FromPiece(hs, i, p + 1, end)
    BY <1>2, <1>7, <1>8, EndOfPieces DEF AtPiece
  <2>2. QED
    BY <1>6, <2>1
<1>11. Either(hs, i, before, seen) = before
  <2>1. Either(hs, i, before, seen) = before \/ p = 0
    BY <1>2, <1>9, FramedAt
  <2>2. QED
    BY <1>9, <2>1
<1>12. GotValue(js) = FlatTo(hs[i].value, p)
  <2>1. FlatTo(hs[i].value, p) \in Seq(Bytes)
    BY <1>2, <1>9, ValueFacts
  <2>2. QED
    BY <1>6, <2>1, ParserAssumption DEF GotValue
<1>13. InValueStart(hs, base, before, Tail(cur), end, i)'
  <2>1. OnLine(hs, base, i)' /\ <<flags', toRead'>> = before
    BY <1>3, <1>5, <1>11 DEF InValueLws, OnLine
  <2>2. \E q \in 0 .. Len(hs[i].value) - 1 :
          /\ GotValue(js') = FlatTo(hs[i].value, q)
          /\ Tail(cur) = hs[i].value[q + 1] \o (<<"N">> \o AfterPieces(hs, i, q + 1, end))
    BY <1>3, <1>9, <1>10, <1>12 DEF FromPiece
  <2>3. QED
    BY <1>3, <2>1, <2>2 DEF InValueStart
<1>14. ParserTyped'
  BY <1>1, <1>3 DEF ParserTyped, Marked
<1>15. QED
  BY <1>3, <1>13, <1>14 DEF Onward, InLines, SameMessage

\* OnHeaderValue, at the end of a value's line.
LEMMA HeaderValueStep ==
  ASSUME NEW hs, NEW base, NEW before, NEW seen, NEW cur, NEW end,
         At(hs, base, before, seen, cur, end), OnHeaderValue
  PROVE  Onward(hs, base, before, seen, cur, end)
<1>1. /\ ListOf(hs, base, before, seen, cur, end) /\ ParserTyped
      /\ InLines(hs, base, before, seen, cur, end)
      /\ running /\ Head(left) = Head(cur)
  BY DEF At
<1>2. /\ hs \in Seq(AnyLines) /\ base \in Seq(HeaderPairs) /\ end \in Seq(Bytes)
      /\ Framed(hs, before, seen)
  BY <1>1 DEF ListOf
<1> DEFINE s == IF state = "value" THEN pending ELSE <<>>
<1>3. /\ Head(cur) = "N" /\ pending' = Null /\ state \in {"value", "value_start"}
      /\ state' = "value_lws" /\ running' = running /\ js' = onHeaderValue(js, s)
      /\ flags' = flags /\ toRead' = toRead
  BY <1>1 DEF OnHeaderValue, Reads
<1>4. /\ js \in Handlers /\ js.incoming \in Messages
      /\ state = "value" => pending \in Seq(Bytes) /\ Behind = pending
  BY <1>1, PendingTyped DEF Marked
<1>5. s \in Seq(Bytes) /\ (state = "value" => s = pending) /\ (state = "value_start" => s = <<>>)
  BY <1>4
<1> HIDE DEF s
<1>6. /\ js' \in Handlers /\ js'.incoming = js.incoming /\ js'.field = js.field
      /\ js'.announced = js.announced /\ js'.finished = js.finished
      /\ js'.value = GotValue(js) \o s
  BY <1>3, <1>4, <1>5, ValueHandler
<1>7. ParserTyped' /\ SameMessage(js, js')
  BY <1>3, <1>4, <1>6 DEF ParserTyped, Marked, SameMessage
\* What remains to be shown of the line that was being read.
<1>8. ASSUME NEW i \in 1 .. Len(hs), NEW p \in 0 .. Len(hs[i].value) - 1,
             OnLine(hs, base, i), <<flags, toRead>> = Either(hs, i, before, seen),
             js'.value = FlatTo(hs[i].value, p + 1),
             Tail(cur) = AfterPieces(hs, i, p + 1, end)
      PROVE  Onward(hs, base, before, seen, cur, end)
  <2>1. p + 1 \in 1 .. Len(hs[i].value)
    BY <1>2, ValueFacts
  <2>2. OnLine(hs, base, i)' /\ <<flags', toRead'>> = Either(hs, i, before, seen)
    BY <1>3, <1>6, <1>8 DEF OnLine
  <2>3. InValueLws(hs, base, before, seen, Tail(cur), end, i)'
    BY <1>3, <1>8, <2>1, <2>2 DEF InValueLws
  <2>4. QED
    BY <1>7, <2>3 DEF Onward, InLines
<1>9. ASSUME NEW i \in 1 .. Len(hs), InValue(hs, base, before, seen, cur, end, i)
      PROVE  Onward(hs, base, before, seen, cur, end)
  <2>1. PICK p \in 0 .. Len(hs[i].value) - 1 : \E u \in Seq(ValueBytes) :
          /\ FlatTo(hs[i].value, p + 1) = GotValue(js) \o (Behind \o u)
          /\ cur = u \o (<<"N">> \o AfterPieces(hs, i, p + 1, end))
    BY <1>9 DEF InValue
  <2>2. PICK u \in Seq(ValueBytes) :
          /\ FlatTo(hs[i].value, p + 1) = GotValue(js) \o (Behind \o u)
          /\ cur = u \o (<<"N">> \o AfterPieces(hs, i, p + 1, end))
    BY <2>1
  <2> DEFINE y == AfterPieces(hs, i, p + 1, end)
             z == <<"N">> \o y
             f == FlatTo(hs[i].value, p + 1)
  <2>3. z \in Seq(Bytes) /\ Tail(z) = y
    BY <1>2, ValueFacts
  <2> HIDE DEF z, f, y
  <2>4. cur = u \o z /\ u \in Seq(Bytes) /\ f = GotValue(js) \o (Behind \o u)
    BY <2>2, ByteSets, SeqOfSubset DEF z, f, y
  <2>5. u = <<>>
    <3> SUFFICES ASSUME u # <<>> PROVE FALSE
      OBVIOUS
    <3>1. Head(u) \in ValueBytes /\ Head(cur) = Head(u)
      BY <2>3, <2>4, ByteHead
    <3>2. QED
      BY <1>3, <3>1, OtherBytes
  <2>6. Tail(cur) = y
    <3>1. cur = z
      BY <2>3, <2>4, <2>5, ConcatEmptySeq
    <3>2. QED
      BY <2>3, <3>1
  <2>7. state = "value"
    BY <1>9 DEF InValue
  <2>8. js'.value = f
    <3>1. s = pending /\ Behind = pending /\ pending \in Seq(Bytes)
      BY <1>4, <1>5, <2>7
    <3>2. pending \o u = pending
      BY <2>5, <3>1, ConcatEmptySeq
    <3>3. QED
      BY <1>6, <2>4, <3>1, <3>2
  <2>9. OnLine(hs, base, i) /\ <<flags, toRead>> = Either(hs, i, before, seen)
    BY <1>9 DEF InValue
  <2>10. QED
    BY <1>8, <2>6, <2>8, <2>9 DEF f, y
<1>10. ASSUME NEW i \in 1 .. Len(hs), InValueStart(hs, base, before, cur, end, i)
       PROVE  Onward(hs, base, before, seen, cur, end)
  <2>1. PICK p \in 0 .. Len(hs[i].value) - 1 :
          /\ GotValue(js) = FlatTo(hs[i].value, p)
          /\ cur = hs[i].value[p + 1] \o (<<"N">> \o AfterPieces(hs, i, p + 1, end))
    BY <1>10 DEF InValueStart
  <2> DEFINE w == hs[i].value[p + 1]
             y == AfterPieces(hs, i, p + 1, end)
             z == <<"N">> \o y
             f == FlatTo(hs[i].value, p + 1)
             g == FlatTo(hs[i].value, p)
  <2>2. /\ w \in Seq(ValueBytes) /\ w \in Seq(Bytes) /\ z \in Seq(Bytes) /\ Tail(z) = y
        /\ f = g \o w
    BY <1>2, ValueFacts
  <2>3. Framed(hs, before, seen) /\ (w = <<>> => Either(hs, i, before, seen) = before)
    <3>1. \A byte : <<byte>> # <<>>
      OBVIOUS
    <3>2. \/ Either(hs, i, before, seen) = before
          \/ \E byte \in ValueBytes : w = <<byte>>
      BY <1>2, FramedAt
    <3> HIDE DEF w
    <3>3. QED
      BY <1>2, <3>1, <3>2
  <2>4. cur = w \o z /\ GotValue(js) = g
    BY <2>1
  <2> HIDE DEF w, z, f, g, y
  <2>5. w = <<>>
    <3> SUFFICES ASSUME w # <<>> PROVE FALSE
      OBVIOUS
    <3>1. Head(w) \in ValueBytes /\ Head(cur) = Head(w)
      BY <2>2, <2>4, ByteHead
    <3>2. QED
      BY <1>3, <3>1, OtherBytes
  <2>6. Tail(cur) = y
    <3>1. cur = z
      BY <2>2, <2>4, <2>5, ConcatEmptySeq
    <3>2. QED
      BY <2>2, <3>1
  <2>7. state = "value_start" /\ OnLine(hs, base, i) /\ <<flags, toRead>> = before
    BY <1>10 DEF InValueStart
  <2>8. js'.value = f
    BY <1>5, <1>6, <2>2, <2>4, <2>5, <2>7
  <2>9. QED
    BY <1>8, <2>3, <2>5, <2>6, <2>7, <2>8 DEF f, y
<1>11. QED
  BY <1>1, <1>3, <1>9, <1>10 DEF InLines, InFieldStart, InField, InValueLws

\* The empty line behind the list.
LEMMA EndOfList ==
  ASSUME NEW hs, NEW base, NEW before, NEW seen, NEW cur, NEW end,
         At(hs, base, before, seen, cur, end),
         state \in {"field_start", "value_lws"}, Head(left) = "N"
  PROVE  /\ cur = end /\ <<flags, toRead>> = seen /\ LineComplete(js)
         /\ Got(js) = base \o JoinedTo(hs, Len(hs))
<1>1. /\ ListOf(hs, base, before, seen, cur, end) /\ ParserTyped
      /\ InLines(hs, base, before, seen, cur, end) /\ Head(cur) = "N"
  BY DEF At
<1>2. /\ hs \in Seq(AnyLines) /\ base \in Seq(HeaderPairs) /\ end \in Seq(Bytes)
      /\ end # <<>> /\ Head(end) = "N" /\ Len(hs) \in Nat /\ Framed(hs, before, seen)
  BY <1>1 DEF ListOf
<1>3. CASE InFieldStart(hs, base, before, cur, end)
  <2>1. /\ js.field = Null /\ js.value = Null /\ js.incoming.headers = base
        /\ <<flags, toRead>> = before /\ cur = AfterLines(hs, 0, end)
    BY <1>3 DEF InFieldStart
  <2> DEFINE c == AfterLines(hs, 0, end)
  <2>2. 0 \in 0 .. Len(hs)
    BY <1>2
  <2>3. /\ 0 = Len(hs) => c = end
        /\ 0 < Len(hs) => Head(c) \in FieldBytes
    BY <1>2, <2>2, Starts
  <2> HIDE DEF c
  <2>4. Len(hs) = 0
    <3>1. ~(0 < Len(hs))
      BY <1>1, <2>1, <2>3, OtherBytes DEF c
    <3>2. QED
      BY <1>2, <3>1
  <2>5. hs = <<>>
    BY <1>2, <2>4, EmptySeq
  <2>6. seen = before
    BY <1>2, <2>5 DEF Framed
  <2>7. base \o JoinedTo(hs, Len(hs)) = base
    <3>1. JoinedTo(hs, Len(hs)) = <<>>
      BY <1>2, <2>4, JoinedFacts
    <3>2. base \o <<>> = base
      BY <1>2, ConcatEmptySeq
    <3>3. QED
      BY <3>1, <3>2
  <2>8. Got(js) = base \o JoinedTo(hs, Len(hs))
    BY <2>1, <2>7 DEF Got
  <2>9. QED
    BY <2>1, <2>3, <2>4, <2>6, <2>8 DEF LineComplete, c
<1>4. ASSUME NEW i \in 1 .. Len(hs), InValueLws(hs, base, before, seen, cur, end, i)
      PROVE  /\ cur = end /\ <<flags, toRead>> = seen /\ LineComplete(js)
             /\ Got(js) = base \o JoinedTo(hs, Len(hs))
  <2>1. PICK p \in 1 .. Len(hs[i].value) : /\ js.value = FlatTo(hs[i].value, p)
                                           /\ cur = AfterPieces(hs, i, p, end)
    BY <1>4 DEF InValueLws
  <2> DEFINE n == Len(hs[i].value)
             val == hs[i].value
             c == AfterPieces(hs, i, p, end)
  <2>2. n \in Nat \ {0} /\ val \in Seq(Seq(Bytes)) /\ p \in 1 .. n
    BY <1>2, LineFacts
  <2>3. p \in 0 .. n /\ p # 0
    <3> HIDE DEF n
    <3>1. QED
      BY <2>2
  <2>4. /\ p < n => Head(c) = (IF p = 0 THEN ":" ELSE " ")
        /\ ~(p < n) => /\ p = n
                       /\ i = Len(hs) => c = end
                       /\ i # Len(hs) => Head(c) \in FieldBytes
    <3>1. AtPiece(hs, i, p, end)
      BY <1>2, <2>3, EndOfPieces
    <3>2. QED
      BY <3>1 DEF AtPiece
  <2> HIDE DEF c
  <2>5. p = n /\ i = Len(hs) /\ c = end
    <3>1. Head(c) = "N"
      BY <1>1, <2>1 DEF c
    <3> HIDE DEF n
    <3>2. QED
      BY <2>3, <2>4, <3>1, OtherBytes
  <2>6. js.value = FlattenSeq(val)
    <3> HIDE DEF val
    <3>1. 0 \in 0 .. Len(val)
      BY <2>2
    <3>2. FlatTo(val, Len(val)) = FlattenSeq(val)
      BY <2>2, <3>1, FlatToFacts
    <3>3. QED
      BY <2>1, <2>5, <3>2 DEF val
  <2>7. js.field = hs[i].field /\ js.incoming.headers = base \o JoinedTo(hs, i - 1)
        /\ <<flags, toRead>> = Either(hs, i, before, seen)
    BY <1>4 DEF InValueLws, OnLine
  <2>8. Got(js) = base \o JoinedTo(hs, i)
    <3>1. js.value = FlattenSeq(hs[i].value)
      BY <2>6
    <3>2. QED
      BY <1>2, <2>7, <3>1, GotLine
  <2>9. LineComplete(js)
    <3>1. js.value = FlattenSeq(hs[i].value)
      BY <2>6
    <3>2. js.value \in Seq(Bytes) /\ js.field \in Seq(Bytes) \ {<<>>}
      BY <1>2, <2>7, <3>1, LineHeld
    <3>3. QED
      BY <3>2 DEF LineComplete
  <2>10. <<flags, toRead>> = seen
    BY <2>5, <2>7 DEF Either
  <2>11. QED
    BY <2>1, <2>5, <2>8, <2>9, <2>10 DEF c
<1>5. QED
  BY <1>1, <1>3, <1>4 DEF InLines, InField, InValue, InValueStart

\* What starts with bytes of S, before something that does not break, does not
\* break.
LEMMA ConcatShape ==
  ASSUME NEW S, S \subseteq Bytes, "X" \notin S, NEW u \in Seq(S), NEW v \in Seq(Bytes),
         v # <<>>, Head(v) # "X"
  PROVE  u \o v # <<>> /\ Len(v) <= Len(u \o v) /\ Head(u \o v) # "X"
<1>1. u \in Seq(Bytes)
  BY SeqOfSubset
<1>2. Len(u \o v) = Len(u) + Len(v) /\ (u = <<>> => u \o v = v) /\ Len(u) \in Nat /\ Len(v) \in Nat
  BY <1>1, ByteConcat
<1>3. CASE u = <<>>
  BY <1>2, <1>3
<1>4. CASE u # <<>>
  <2>1. u \o v # <<>> /\ Head(u \o v) = Head(u)
    BY <1>1, <1>4, ByteHead
  <2>2. Head(u) \in S
    BY <1>4
  <2>3. QED
    BY <1>2, <2>1, <2>2
<1>5. QED
  BY <1>3, <1>4

ListStates == {"field_start", "field", "value_start", "value", "value_lws"}

\* In a list there are bytes to come, none of them out of place.
LEMMA ListShape ==
  ASSUME NEW hs, NEW base, NEW before, NEW seen, NEW cur, NEW end,
         ListOf(hs, base, before, seen, cur, end),
         InLines(hs, base, before, seen, cur, end)
  PROVE  /\ cur # <<>> /\ Head(cur) # "X" /\ Len(end) <= Len(cur)
         /\ state \in ListStates
<1>1. /\ hs \in Seq(AnyLines) /\ end \in Seq(Bytes) /\ cur \in Seq(Bytes)
      /\ end # <<>> /\ Head(end) = "N" /\ Len(hs) \in Nat
  BY DEF ListOf
<1>2. Len(end) \in Nat /\ Len(cur) \in Nat
  BY <1>1
<1>3. ASSUME NEW i \in 1 .. Len(hs), NEW p \in 0 .. Len(hs[i].value)
      PROVE  LET c == AfterPieces(hs, i, p, end)
             IN c \in Seq(Bytes) /\ c # <<>> /\ Head(c) # "X" /\ Len(end) <= Len(c)
  <2> DEFINE c == AfterPieces(hs, i, p, end)
             n == Len(hs[i].value)
  <2>1. c \in Seq(Bytes) /\ c # <<>> /\ Len(end) <= Len(c)
    BY <1>1, Starts
  <2>2. /\ p < n => Head(c) = (IF p = 0 THEN ":" ELSE " ")
        /\ ~(p < n) => /\ i = Len(hs) => c = end
                       /\ i # Len(hs) => Head(c) \in FieldBytes
    <3>1. AtPiece(hs, i, p, end)
      BY <1>1, EndOfPieces
    <3>2. QED
      BY <3>1 DEF AtPiece
  <2> HIDE DEF c, n
  <2>3. Head(c) # "X"
    BY <1>1, <2>2, OtherBytes
  <2>4. QED
    BY <2>1, <2>3 DEF c
<1>4. ASSUME NEW i \in 1 .. Len(hs), NEW p \in 0 .. Len(hs[i].value) - 1, NEW u \in Seq(ValueBytes),
             cur = u \o (<<"N">> \o AfterPieces(hs, i, p + 1, end))
      PROVE  cur # <<>> /\ Head(cur) # "X" /\ Len(end) <= Len(cur)
  <2> DEFINE c == AfterPieces(hs, i, p + 1, end)
             z == <<"N">> \o c
             k == p + 1
  <2>1. k \in 0 .. Len(hs[i].value)
    BY <1>1, ValueFacts
  <2>2. Len(end) <= Len(c) /\ c \in Seq(Bytes)
    <3> HIDE DEF k
    <3>1. Len(end) <= Len(AfterPieces(hs, i, k, end)) /\ AfterPieces(hs, i, k, end) \in Seq(Bytes)
      BY <1>3, <2>1
    <3>2. QED
      BY <3>1 DEF k
  <2> HIDE DEF c
  <2>3. z \in Seq(Bytes) /\ z # <<>> /\ Head(z) # "X" /\ Len(z) = 1 + Len(c)
    <3>1. "N" \in Bytes
      BY ByteSets
    <3>2. QED
      BY <2>2, <3>1, ByteOne
  <2>4. cur = u \o z
    BY <1>4 DEF c
  <2> HIDE DEF z
  <2>5. cur # <<>> /\ Head(cur) # "X" /\ Len(z) <= Len(cur)
    BY <2>3, <2>4, ConcatShape, ByteSets, OtherBytes
  <2>6. Len(c) \in Nat /\ Len(z) \in Nat
    BY <2>2, <2>3
  <2>7. QED
    BY <1>2, <2>2, <2>3, <2>5, <2>6
<1>5. CASE InFieldStart(hs, base, before, cur, end)
  <2> DEFINE c == AfterLines(hs, 0, end)
  <2>1. 0 \in 0 .. Len(hs)
    BY <1>1
  <2>2. /\ c # <<>> /\ Len(end) <= Len(c)
        /\ 0 = Len(hs) => c = end
        /\ 0 < Len(hs) => Head(c) \in FieldBytes
    BY <1>1, <2>1, Starts
  <2>3. cur = c
    BY <1>5 DEF InFieldStart
  <2> HIDE DEF c
  <2>4. Head(c) # "X"
    <3>1. 0 = Len(hs) \/ 0 < Len(hs)
      BY <1>1
    <3>2. QED
      BY <1>1, <2>2, <3>1, OtherBytes
  <2>5. QED
    BY <1>5, <2>2, <2>3, <2>4 DEF InFieldStart, ListStates
<1>6. ASSUME NEW i \in 1 .. Len(hs), InField(hs, base, before, cur, end, i)
      PROVE  cur # <<>> /\ Head(cur) # "X" /\ Len(end) <= Len(cur) /\ state \in ListStates
  <2>1. PICK u \in Seq(FieldBytes) : cur = u \o AfterPieces(hs, i, 0, end)
    BY <1>6 DEF InField
  <2> DEFINE n == Len(hs[i].value)
             c == AfterPieces(hs, i, 0, end)
  <2>2. n \in Nat \ {0}
    BY <1>1, LineFacts
  <2>3. 0 \in 0 .. n
    <3> HIDE DEF n
    <3>1. QED
      BY <2>2
  <2>4. c \in Seq(Bytes) /\ c # <<>> /\ Head(c) # "X" /\ Len(end) <= Len(c)
    BY <1>3, <2>3
  <2> HIDE DEF c
  <2>5. cur = u \o c
    BY <2>1 DEF c
  <2>6. cur # <<>> /\ Head(cur) # "X" /\ Len(c) <= Len(cur)
    BY <2>4, <2>5, ConcatShape, ByteSets, OtherBytes
  <2>7. Len(c) \in Nat
    BY <2>4
  <2>8. QED
    BY <1>2, <1>6, <2>4, <2>6, <2>7 DEF InField, ListStates
<1>7. ASSUME NEW i \in 1 .. Len(hs), InValueStart(hs, base, before, cur, end, i)
      PROVE  cur # <<>> /\ Head(cur) # "X" /\ Len(end) <= Len(cur) /\ state \in ListStates
  <2>1. PICK p \in 0 .. Len(hs[i].value) - 1 :
          cur = hs[i].value[p + 1] \o (<<"N">> \o AfterPieces(hs, i, p + 1, end))
    BY <1>7 DEF InValueStart
  <2>2. hs[i].value[p + 1] \in Seq(ValueBytes)
    BY <1>1, ValueFacts
  <2>3. cur # <<>> /\ Head(cur) # "X" /\ Len(end) <= Len(cur)
    BY <1>4, <2>1, <2>2
  <2>4. QED
    BY <1>7, <2>3 DEF InValueStart, ListStates
<1>8. ASSUME NEW i \in 1 .. Len(hs), InValue(hs, base, before, seen, cur, end, i)
      PROVE  cur # <<>> /\ Head(cur) # "X" /\ Len(end) <= Len(cur) /\ state \in ListStates
  <2>1. PICK p \in 0 .. Len(hs[i].value) - 1 : \E u \in Seq(ValueBytes) :
          cur = u \o (<<"N">> \o AfterPieces(hs, i, p + 1, end))
    BY <1>8 DEF InValue
  <2>2. cur # <<>> /\ Head(cur) # "X" /\ Len(end) <= Len(cur)
    BY <1>4, <2>1
  <2>3. QED
    BY <1>8, <2>2 DEF InValue, ListStates
<1>9. ASSUME NEW i \in 1 .. Len(hs), InValueLws(hs, base, before, seen, cur, end, i)
      PROVE  cur # <<>> /\ Head(cur) # "X" /\ Len(end) <= Len(cur) /\ state \in ListStates
  <2>1. PICK p \in 1 .. Len(hs[i].value) : cur = AfterPieces(hs, i, p, end)
    BY <1>9 DEF InValueLws
  <2> DEFINE n == Len(hs[i].value)
             c == AfterPieces(hs, i, p, end)
  <2>2. n \in Nat \ {0} /\ p \in 1 .. n
    BY <1>1, LineFacts
  <2>3. p \in 0 .. n
    <3> HIDE DEF n
    <3>1. QED
      BY <2>2
  <2>4. c \in Seq(Bytes) /\ c # <<>> /\ Head(c) # "X" /\ Len(end) <= Len(c)
    BY <1>3, <2>3
  <2>5. QED
    BY <1>9, <2>1, <2>4 DEF InValueLws, ListStates
<1>10. QED
  BY <1>5, <1>6, <1>7, <1>8, <1>9 DEF InLines

\* What only moves the mark or the chunk leaves a list as it is.
LEMMA StillList ==
  ASSUME NEW hs, NEW base, NEW before, NEW seen, NEW cur, NEW end,
         InLines(hs, base, before, seen, cur, end),
         state' = state, js' = js, flags' = flags, toRead' = toRead, Behind' = Behind
  PROVE  InLines(hs, base, before, seen, cur, end)'
<1>1. InFieldStart(hs, base, before, cur, end) => InFieldStart(hs, base, before, cur, end)'
  BY DEF InFieldStart
<1>2. ASSUME NEW i \in 1 .. Len(hs)
      PROVE  InField(hs, base, before, cur, end, i) => InField(hs, base, before, cur, end, i)'
  BY DEF InField
<1>3. ASSUME NEW i \in 1 .. Len(hs)
      PROVE  InValueStart(hs, base, before, cur, end, i) =>
               InValueStart(hs, base, before, cur, end, i)'
  BY DEF InValueStart, OnLine
<1>4. ASSUME NEW i \in 1 .. Len(hs)
      PROVE  InValue(hs, base, before, seen, cur, end, i) =>
               InValue(hs, base, before, seen, cur, end, i)'
  BY DEF InValue, OnLine
<1>5. ASSUME NEW i \in 1 .. Len(hs)
      PROVE  InValueLws(hs, base, before, seen, cur, end, i) =>
               InValueLws(hs, base, before, seen, cur, end, i)'
  BY DEF InValueLws, OnLine
<1>6. QED
  BY <1>1, <1>2, <1>3, <1>4, <1>5 DEF InLines

\* The end of execute hands over the bytes behind the mark.
LEMMA FlushList ==
  ASSUME NEW hs, NEW base, NEW before, NEW seen, NEW cur, NEW end,
         ListOf(hs, base, before, seen, cur, end), ParserTyped,
         InLines(hs, base, before, seen, cur, end), running,
         js' = Flush(js), pending' = Null, state' = state, flags' = flags, toRead' = toRead
  PROVE  /\ InLines(hs, base, before, seen, cur, end)' /\ SameMessage(js, js')
         /\ js' \in Handlers /\ js'.incoming \in Messages
<1>1. /\ hs \in Seq(AnyLines) /\ base \in Seq(HeaderPairs) /\ end \in Seq(Bytes)
  BY DEF ListOf
<1>2. /\ js \in Handlers /\ js.incoming \in Messages
      /\ state \in Marked => pending \in Seq(Bytes) /\ Behind = pending /\ pending # Null
      /\ state \notin Marked => pending = Null
  BY PendingTyped, ParserAssumption
<1>3. Behind' = <<>>
  BY DEF Behind
<1>4. CASE state \notin Marked
  <2>1. js' = js /\ Behind = <<>>
    BY <1>2, <1>4 DEF Flush, Behind, Marked
  <2>2. QED
    BY <1>2, <1>3, <2>1, StillList DEF SameMessage
<1>5. ASSUME NEW i \in 1 .. Len(hs), InField(hs, base, before, cur, end, i)
      PROVE  /\ InLines(hs, base, before, seen, cur, end)' /\ SameMessage(js, js')
             /\ js' \in Handlers /\ js'.incoming \in Messages
  <2>1. state = "field" /\ (js.value # Null => js.field # Null)
        /\ Got(js) = base \o JoinedTo(hs, i - 1) /\ <<flags, toRead>> = before
    BY <1>5 DEF InField
  <2>2. pending \in Seq(Bytes) /\ Behind = pending /\ pending # Null
    BY <1>2, <2>1 DEF Marked
  <2>3. js' = onHeaderField(js, pending)
    BY <2>1, <2>2 DEF Flush
  <2>4. /\ js' \in Handlers /\ js'.incoming \in Messages /\ SameMessage(js, js')
        /\ Got(js') = Got(js) /\ js'.value = Null
        /\ js'.field = GotField(js) \o pending /\ GotField(js') = js'.field
    <3>1. PICK j, k, s : j = js /\ k = js' /\ s = pending
      OBVIOUS
    <3>2. /\ j \in Handlers /\ j.incoming \in Messages /\ (j.value # Null => j.field # Null)
          /\ s \in Seq(Bytes) /\ k = onHeaderField(j, s)
      BY <1>2, <2>1, <2>2, <2>3, <3>1
    <3>3. /\ k \in Handlers /\ k.incoming \in Messages /\ SameMessage(j, k)
          /\ Got(k) = Got(j) /\ k.value = Null
          /\ k.field = GotField(j) \o s /\ GotField(k) = k.field
      BY <3>2, FieldHandler
    <3>4. QED
      BY <3>1, <3>3
  <2>5. PICK u \in Seq(FieldBytes) : /\ hs[i].field = GotField(js) \o (Behind \o u)
                                     /\ cur = u \o AfterPieces(hs, i, 0, end)
    BY <1>5 DEF InField
  <2>6. hs[i].field = GotField(js') \o (Behind' \o u)
    <3> DEFINE a == GotField(js)
               b == pending
    <3>1. a \in Seq(Bytes)
      BY <1>2, HandlersType DEF GotField
    <3>2. u \in Seq(Bytes) /\ b \in Seq(Bytes)
      BY <2>2, ByteSets, SeqOfSubset
    <3>3. <<>> \o u = u
      BY <3>2, ConcatEmptySeq
    <3> HIDE DEF a, b
    <3>4. (a \o b) \o u = a \o (b \o u)
      BY <3>1, <3>2, ByteAssociate DEF Associative
    <3>5. QED
      BY <1>3, <2>2, <2>4, <2>5, <3>3, <3>4 DEF a, b
  <2>7. InField(hs, base, before, cur, end, i)'
    BY <2>1, <2>4, <2>5, <2>6 DEF InField
  <2>8. QED
    BY <2>4, <2>7 DEF InLines
<1>6. ASSUME NEW i \in 1 .. Len(hs), InValue(hs, base, before, seen, cur, end, i)
      PROVE  /\ InLines(hs, base, before, seen, cur, end)' /\ SameMessage(js, js')
             /\ js' \in Handlers /\ js'.incoming \in Messages
  <2>1. state = "value" /\ OnLine(hs, base, i) /\ <<flags, toRead>> = Either(hs, i, before, seen)
    BY <1>6 DEF InValue
  <2>2. pending \in Seq(Bytes) /\ Behind = pending /\ pending # Null
    BY <1>2, <2>1 DEF Marked
  <2>3. js' = onHeaderValue(js, pending)
    BY <2>1, <2>2 DEF Flush
  <2>4. /\ js' \in Handlers /\ js'.incoming = js.incoming /\ js'.field = js.field
        /\ js'.announced = js.announced /\ js'.finished = js.finished
        /\ js'.value = GotValue(js) \o pending /\ GotValue(js') = js'.value
    BY <1>2, <2>2, <2>3, ValueHandler
  <2>5. PICK p \in 0 .. Len(hs[i].value) - 1 : \E u \in Seq(ValueBytes) :
          /\ FlatTo(hs[i].value, p + 1) = GotValue(js) \o (Behind \o u)
          /\ cur = u \o (<<"N">> \o AfterPieces(hs, i, p + 1, end))
    BY <1>6 DEF InValue
  <2>6. PICK u \in Seq(ValueBytes) :
          /\ FlatTo(hs[i].value, p + 1) = GotValue(js) \o (Behind \o u)
          /\ cur = u \o (<<"N">> \o AfterPieces(hs, i, p + 1, end))
    BY <2>5
  <2>7. FlatTo(hs[i].value, p + 1) = GotValue(js') \o (Behind' \o u)
    <3> DEFINE a == GotValue(js)
               b == pending
    <3>1. a \in Seq(Bytes)
      BY <1>2, HandlersType DEF GotValue
    <3>2. u \in Seq(Bytes) /\ b \in Seq(Bytes)
      BY <2>2, ByteSets, SeqOfSubset
    <3>3. <<>> \o u = u
      BY <3>2, ConcatEmptySeq
    <3> HIDE DEF a, b
    <3>4. (a \o b) \o u = a \o (b \o u)
      BY <3>1, <3>2, ByteAssociate DEF Associative
    <3>5. QED
      BY <1>3, <2>2, <2>4, <2>6, <3>3, <3>4 DEF a, b
  <2>8. InValue(hs, base, before, seen, cur, end, i)'
    <3>1. OnLine(hs, base, i)'
      BY <2>1, <2>4 DEF OnLine
    <3>2. \E q \in 0 .. Len(hs[i].value) - 1 : \E w \in Seq(ValueBytes) :
            /\ FlatTo(hs[i].value, q + 1) = GotValue(js') \o (Behind' \o w)
            /\ cur = w \o (<<"N">> \o AfterPieces(hs, i, q + 1, end))
      BY <2>6, <2>7
    <3>3. QED
      BY <2>1, <3>1, <3>2 DEF InValue
  <2>9. QED
    BY <1>2, <2>4, <2>8 DEF InLines, SameMessage
<1>7. QED
  BY <1>4, <1>5, <1>6 DEF InLines, InFieldStart, InValueStart, InValueLws, Marked

-----------------------------------------------------------------------------
(* A request in the parser: cur is what is still to come of it.            *)

InUrlStart(r, cur) ==
  /\ state = "url_start" /\ flags = {} /\ toRead = 0
  /\ js.incoming.url = <<>> /\ js.incoming.headers = <<>>
  /\ js.field = Null /\ js.value = Null
  /\ cur = r.url \o AfterUrl(r)

InUrl(r, cur) ==
  /\ state = "url" /\ flags = {} /\ toRead = 0
  /\ js.incoming.headers = <<>>
  /\ js.field = Null /\ js.value = Null
  /\ \E u \in Seq(UrlBytes) : /\ r.url = js.incoming.url \o (Behind \o u)
                              /\ cur = u \o AfterUrl(r)

InHeaders(r, cur) ==
  /\ js.incoming.url = r.url
  /\ InLines(Lined(r), <<>>, Before, Seen(r), cur, EndOfHead(r))

\* Within the head of r: before its url, in it, or in its lines.
InHead(r, cur) ==
  /\ cur \in Seq(Bytes)
  /\ js.incoming.body = <<>>
  /\ InUrlStart(r, cur) \/ InUrl(r, cur) \/ InHeaders(r, cur)

HeadersKept(r) ==
  js.field = Null /\ js.value = Null /\ js.incoming.headers = Joined(Lined(r))

InBody(r, cur) ==
  /\ state = "body" /\ flags = {} /\ r.kind = "length"
  /\ HeadersKept(r)
  /\ r.body = js.incoming.body \o cur
  /\ cur # <<>>
  /\ toRead = Len(cur)

InChunk(r, cur, q) ==
  /\ flags = {"chunked"} /\ r.kind = "chunked"
  /\ HeadersKept(r)
  /\ js.incoming.body = SubSeq(r.body, 1, q)
  /\ \/ state = "chunk_size" /\ cur = AfterChunks(r, q)
     \/ /\ state = "body" /\ toRead = 1 /\ q < Len(r.body)
        /\ cur = <<r.body[q + 1]>> \o (<<"N">> \o AfterChunks(r, q + 1))
     \/ state = "chunk_data_end" /\ cur = <<"N">> \o AfterChunks(r, q)

InTrailers(r, cur) ==
  /\ r.kind = "chunked"
  /\ js.incoming.body = r.body
  /\ InLines(r.trailers, Joined(Lined(r)), Trailing, Trailing, cur, <<"N">>)

\* Behind the head of r: in its body, its chunks, or its trailer.
InRest(r, cur) ==
  /\ cur \in Seq(Bytes) /\ Len(cur) <= Len(Rest(r))
  /\ js.incoming.url = r.url
  /\ \/ InBody(r, cur)
     \/ \E q \in 0 .. Len(r.body) : InChunk(r, cur, q)
     \/ InTrailers(r, cur)

\* A step within a message that tells the server nothing.
Silent == /\ ParserTyped' /\ js'.incoming.upgrade = js.incoming.upgrade
          /\ js'.announced = js.announced /\ js'.finished = js.finished

\* The lines of a head are a list with nothing got before it.
LEMMA HeadList ==
  ASSUME NEW r, RequestType(r), NEW cur \in Seq(Bytes)
  PROVE  ListOf(Lined(r), <<>>, Before, Seen(r), cur, EndOfHead(r))
<1>1. Lined(r) \in Seq(AnyLines) /\ Framed(Lined(r), Before, Seen(r))
  BY LinedFacts
<1>2. EndOfHead(r) \in Seq(Bytes) /\ EndOfHead(r) # <<>> /\ Head(EndOfHead(r)) = "N"
  <2> DEFINE t == Rest(r)
  <2>1. t \in Seq(Bytes) /\ "N" \in Bytes
    BY RestFacts, ByteSets
  <2>2. EndOfHead(r) = <<"N">> \o t
    BY DEF EndOfHead
  <2> HIDE DEF t
  <2>3. QED
    BY <2>1, <2>2, ByteOne
<1>3. <<>> \in Seq(HeaderPairs)
  OBVIOUS
<1>4. QED
  BY <1>1, <1>2, <1>3 DEF ListOf

\* The lines of a trailer are a list that follows the head's lines.
LEMMA TrailerList ==
  ASSUME NEW r, RequestType(r), NEW cur \in Seq(Bytes)
  PROVE  ListOf(r.trailers, Joined(Lined(r)), Trailing, Trailing, cur, <<"N">>)
<1>1. r.trailers \in Seq(AnyLines) /\ Framed(r.trailers, Trailing, Trailing)
  BY TrailerFacts
<1>2. Joined(Lined(r)) \in Seq(HeaderPairs)
  <2> DEFINE hs == Lined(r)
             n == Len(hs)
  <2>1. hs \in Seq(AnyLines)
    BY LinedFacts
  <2> HIDE DEF hs
  <2>2. n \in 0 .. Len(hs)
    BY <2>1
  <2>3. Joined(hs) = JoinedTo(hs, n) /\ JoinedTo(hs, n) \in Seq(Seq(Bytes) \X Seq(Bytes))
    BY <2>1, <2>2, JoinedFacts
  <2>4. QED
    BY <2>3 DEF HeaderPairs, hs
<1>3. <<"N">> \in Seq(Bytes) /\ <<"N">> # <<>> /\ Head(<<"N">>) = "N"
  <2>1. "N" \in Bytes
    BY ByteSets
  <2>2. QED
    BY <2>1
<1>4. QED
  BY <1>1, <1>2, <1>3 DEF ListOf

\* The steps of a list of header lines, but for the empty line at its end.
ListByte ==
  \/ MarkField \/ MarkValue \/ SkipSpace \/ OnHeaderField \/ OnHeaderValue
  \/ MoreBytes /\ state \in {"field", "value"}

\* A byte of a list of lines leads further into the list.
LEMMA ListStep ==
  ASSUME NEW hs, NEW base, NEW before, NEW seen, NEW cur, NEW end,
         At(hs, base, before, seen, cur, end), ListByte
  PROVE  Onward(hs, base, before, seen, cur, end)
<1>1. CASE MarkField
  BY <1>1, MarkFieldStep
<1>2. CASE MarkValue
  BY <1>2, MarkValueStep
<1>3. CASE SkipSpace
  BY <1>3, SkipSpaceStep
<1>4. CASE OnHeaderField
  BY <1>4, HeaderFieldStep
<1>5. CASE OnHeaderValue
  BY <1>5, HeaderValueStep
<1>6. CASE MoreBytes /\ state = "field"
  BY <1>6, MoreFieldStep
<1>7. CASE MoreBytes /\ state = "value"
  BY <1>7, MoreValueStep
<1>8. QED
  BY <1>1, <1>2, <1>3, <1>4, <1>5, <1>6, <1>7 DEF ListByte

\* The parser is about to read the first byte of cur, what is left of r.
AtRequest(r, cur) ==
  /\ RequestType(r) /\ cur \in Seq(Bytes)
  /\ ParserTyped /\ running /\ Head(left) = Head(cur)

\* A byte of the head's lines leads further into the head.
LEMMA HeadersStep ==
  ASSUME NEW r, NEW cur, AtRequest(r, cur), InHeaders(r, cur),
         js.incoming.body = <<>>, ListByte
  PROVE  InHead(r, Tail(cur))' /\ Silent
<1>1. ListOf(Lined(r), <<>>, Before, Seen(r), cur, EndOfHead(r))
  BY HeadList DEF AtRequest
<1>2. /\ InLines(Lined(r), <<>>, Before, Seen(r), cur, EndOfHead(r))
      /\ js.incoming.url = r.url /\ cur \in Seq(Bytes)
  BY DEF InHeaders, AtRequest
<1>3. At(Lined(r), <<>>, Before, Seen(r), cur, EndOfHead(r))
  BY <1>1, <1>2 DEF At, AtRequest
<1>4. Onward(Lined(r), <<>>, Before, Seen(r), cur, EndOfHead(r))
  BY <1>3, ListStep
<1>5. /\ InLines(Lined(r), <<>>, Before, Seen(r), Tail(cur), EndOfHead(r))'
      /\ ParserTyped' /\ SameMessage(js, js')
  BY <1>4 DEF Onward
<1>6. Tail(cur) \in Seq(Bytes)
  BY <1>1, <1>2, ListShape
<1>7. InHeaders(r, Tail(cur))' /\ js'.incoming.body = <<>>
  BY <1>2, <1>5 DEF InHeaders, SameMessage
<1>8. QED
  BY <1>5, <1>6, <1>7 DEF InHead, Silent, SameMessage

\* After the url come the version and the lines.
LEMMA AfterUrlFacts ==
  ASSUME NEW r, RequestType(r)
  PROVE  /\ AfterUrl(r) \in Seq(Bytes) /\ AfterUrl(r) # <<>> /\ Head(AfterUrl(r)) = "V"
         /\ Tail(AfterUrl(r)) = AfterLines(Lined(r), 0, EndOfHead(r))
         /\ AfterLines(Lined(r), 0, EndOfHead(r)) \in Seq(Bytes)
<1> DEFINE t == AfterLines(Lined(r), 0, EndOfHead(r))
<1>1. t \in Seq(Bytes) /\ AfterUrl(r) = <<"V">> \o t /\ "V" \in Bytes
  BY EncodedFacts, ByteSets DEF AfterUrl
<1> HIDE DEF t
<1>2. QED
  BY <1>1, ByteOne DEF t

\* The first byte of the url is marked.
LEMMA MarkUrlStep ==
  ASSUME NEW r, NEW cur, AtRequest(r, cur), InUrlStart(r, cur),
         js.incoming.body = <<>>, MarkUrl
  PROVE  InHead(r, Tail(cur))' /\ Silent
<1> DEFINE u == r.url
           v == AfterUrl(r)
<1>1. /\ u \in Seq(UrlBytes) /\ u \in Seq(Bytes) /\ u # <<>> /\ v \in Seq(Bytes) /\ cur = u \o v
      /\ r.url = u
  BY RequestFacts, AfterUrlFacts DEF AtRequest, InUrlStart
<1>2. v = AfterUrl(r)
  OBVIOUS
<1> HIDE DEF u, v
<1>3. /\ Head(cur) = Head(u) /\ Tail(cur) = Tail(u) \o v /\ Head(u) \in Bytes
      /\ Tail(u) \in Seq(UrlBytes) /\ Tail(u) \in Seq(Bytes)
  <2>1. Tail(u) \in Seq(UrlBytes)
    BY <1>1
  <2>2. QED
    BY <1>1, <2>1, ByteHead
<1>4. /\ pending' = <<Head(u)>> /\ state' = "url" /\ running' = running
      /\ flags' = {} /\ toRead' = 0 /\ js' = js
  BY <1>3 DEF MarkUrl, Mark, Reads, InUrlStart, AtRequest
<1>5. pending' \in Seq(Bytes) /\ pending' # Null /\ Behind' = <<Head(u)>>
  <2>1. <<Head(u)>> \in Seq(Bytes)
    <3> DEFINE x == Head(u)
    <3>1. x \in Bytes
      BY <1>3
    <3> HIDE DEF x
    <3>2. <<x>> \in Seq(Bytes)
      BY <3>1
    <3>3. QED
      BY <3>2 DEF x
  <2>2. pending' \in Seq(Bytes)
    BY <1>4, <2>1
  <2>3. pending' # Null
    BY <2>2, ParserAssumption
  <2>4. QED
    BY <1>4, <2>2, <2>3 DEF Behind
<1>6. u = <<>> \o (<<Head(u)>> \o Tail(u))
  <2>1. u = <<Head(u)>> \o Tail(u)
    BY <1>1, HeadAndTail
  <2>2. <<>> \o u = u
    BY <1>1, ConcatEmptySeq
  <2>3. QED
    BY <2>1, <2>2
<1>7. InUrl(r, Tail(cur))'
  <2>1. /\ js'.incoming.url = <<>> /\ js'.incoming.headers = <<>>
        /\ js'.field = Null /\ js'.value = Null
    BY <1>4 DEF InUrlStart
  <2>2. r.url = js'.incoming.url \o (Behind' \o Tail(u)) /\ Tail(cur) = Tail(u) \o AfterUrl(r)
    BY <1>1, <1>2, <1>3, <1>5, <1>6, <2>1
  <2>3. \E w \in Seq(UrlBytes) : /\ r.url = js'.incoming.url \o (Behind' \o w)
                                 /\ Tail(cur) = w \o AfterUrl(r)
    BY <1>3, <2>2
  <2>4. QED
    BY <1>4, <2>1, <2>3 DEF InUrl
<1>8. ParserTyped'
  BY <1>4, <1>5 DEF ParserTyped, AtRequest, Marked
<1>9. Tail(cur) \in Seq(Bytes)
  BY <1>1, <1>3, ByteConcat
<1>10. QED
  BY <1>4, <1>7, <1>8, <1>9 DEF InHead, Silent

\* A further byte of the url is kept behind the mark.
LEMMA MoreUrlStep ==
  ASSUME NEW r, NEW cur, AtRequest(r, cur), InUrl(r, cur),
         js.incoming.body = <<>>, MoreBytes
  PROVE  InHead(r, Tail(cur))' /\ Silent
<1>1. /\ Head(cur) \in UrlBytes /\ pending' = Append(pending, Head(cur))
      /\ state = "url" /\ state' = state /\ running' = running /\ flags' = flags
      /\ toRead' = toRead /\ js' = js
  BY DEF MoreBytes, More, Reads, AtRequest, InUrl
<1>2. PICK u \in Seq(UrlBytes) : /\ r.url = js.incoming.url \o (Behind \o u)
                                 /\ cur = u \o AfterUrl(r)
  BY DEF InUrl
<1> DEFINE v == AfterUrl(r)
<1>3. v \in Seq(Bytes) /\ Head(v) = "V" /\ cur = u \o v /\ u \in Seq(Bytes)
  BY <1>2, AfterUrlFacts, ByteSets, SeqOfSubset DEF AtRequest
<1>4. v = AfterUrl(r)
  OBVIOUS
<1> HIDE DEF v
<1>5. u # <<>>
  <2>1. u = <<>> => cur = v
    BY <1>3, ConcatEmptySeq
  <2>2. QED
    BY <1>1, <1>3, <2>1, OtherBytes
<1>6. Head(cur) = Head(u) /\ Tail(cur) = Tail(u) \o v /\ Head(u) \in Bytes
      /\ Tail(u) \in Seq(UrlBytes) /\ Tail(u) \in Seq(Bytes)
  <2>1. Tail(u) \in Seq(UrlBytes)
    BY <1>5
  <2>2. QED
    BY <1>3, <1>5, <2>1, ByteHead
<1>7. pending \in Seq(Bytes) /\ Behind = pending
  BY <1>1, PendingTyped DEF Marked, AtRequest
<1> DEFINE q == Append(pending, Head(u))
<1>8. q \in Seq(Bytes) /\ pending' = q
  BY <1>1, <1>6, <1>7, AppendProperties
<1>9. q \o Tail(u) = pending \o u
  BY <1>3, <1>5, <1>7, Shift
<1> HIDE DEF q
<1>10. Behind' = q /\ ParserTyped'
  <2>1. q # Null
    BY <1>8, ParserAssumption
  <2>2. QED
    BY <1>1, <1>8, <2>1 DEF Behind, ParserTyped, Marked, AtRequest
<1>11. InUrl(r, Tail(cur))'
  <2>1. /\ state' = "url" /\ flags' = {} /\ toRead' = 0 /\ js'.incoming.headers = <<>>
        /\ js'.field = Null /\ js'.value = Null
    BY <1>1 DEF InUrl
  <2>2. r.url = js'.incoming.url \o (Behind' \o Tail(u)) /\ Tail(cur) = Tail(u) \o AfterUrl(r)
    BY <1>1, <1>2, <1>4, <1>6, <1>7, <1>9, <1>10
  <2>3. \E w \in Seq(UrlBytes) : /\ r.url = js'.incoming.url \o (Behind' \o w)
                                 /\ Tail(cur) = w \o AfterUrl(r)
    BY <1>6, <2>2
  <2>4. QED
    BY <2>1, <2>3 DEF InUrl
<1>12. Tail(cur) \in Seq(Bytes)
  BY <1>3, <1>6, ByteConcat
<1>13. QED
  BY <1>1, <1>10, <1>11, <1>12 DEF InHead, Silent

\* The version hands the url over and starts the lines.
LEMMA UrlStep ==
  ASSUME NEW r, NEW cur, AtRequest(r, cur), InUrl(r, cur),
         js.incoming.body = <<>>, OnUrl
  PROVE  InHead(r, Tail(cur))' /\ Silent
<1>1. /\ Head(cur) = "V" /\ pending' = Null /\ state = "url" /\ state' = "field_start"
      /\ running' = running /\ flags' = flags /\ toRead' = toRead
      /\ js' = onURL(js, pending)
  BY DEF OnUrl, Reads, AtRequest
<1>2. PICK u \in Seq(UrlBytes) : /\ r.url = js.incoming.url \o (Behind \o u)
                                 /\ cur = u \o AfterUrl(r)
  BY DEF InUrl
<1>3. u = <<>>
  <2> DEFINE v == AfterUrl(r)
  <2>1. v \in Seq(Bytes) /\ cur = u \o v /\ u \in Seq(Bytes)
    BY <1>2, AfterUrlFacts, ByteSets, SeqOfSubset DEF AtRequest
  <2> HIDE DEF v
  <2>2. u # <<>> => Head(cur) = Head(u) /\ Head(u) \in UrlBytes
    BY <2>1, ByteHead
  <2>3. QED
    BY <1>1, <2>2, OtherBytes
<1>4. cur = AfterUrl(r)
  <2>1. AfterUrl(r) \in Seq(Bytes)
    BY AfterUrlFacts DEF AtRequest
  <2>2. <<>> \o AfterUrl(r) = AfterUrl(r)
    BY <2>1, ConcatEmptySeq
  <2>3. QED
    BY <1>2, <1>3, <2>2
<1>5. Tail(cur) = AfterLines(Lined(r), 0, EndOfHead(r)) /\ Tail(cur) \in Seq(Bytes)
  BY <1>4, AfterUrlFacts DEF AtRequest
<1>6. pending \in Seq(Bytes) /\ Behind = pending /\ js \in Handlers /\ js.incoming \in Messages
  BY <1>1, PendingTyped DEF Marked, AtRequest
<1>7. /\ js' \in Handlers /\ js'.incoming \in Messages
      /\ js'.incoming.url = js.incoming.url \o pending
      /\ js'.incoming.headers = js.incoming.headers /\ js'.incoming.body = js.incoming.body
      /\ js'.incoming.upgrade = js.incoming.upgrade
      /\ js'.field = js.field /\ js'.value = js.value
      /\ js'.announced = js.announced /\ js'.finished = js.finished
  BY <1>1, <1>6, UrlHandler
<1>8. js'.incoming.url = r.url
  <2>1. pending \o <<>> = pending
    BY <1>6, ConcatEmptySeq
  <2>2. QED
    BY <1>2, <1>3, <1>6, <1>7, <2>1
<1>9. InFieldStart(Lined(r), <<>>, Before, Tail(cur), EndOfHead(r))'
  BY <1>1, <1>5, <1>7 DEF InUrl, InFieldStart, Before
<1>10. ParserTyped'
  BY <1>1, <1>7 DEF ParserTyped, Marked, AtRequest
<1>11. QED
  BY <1>5, <1>7, <1>8, <1>9, <1>10 DEF InHead, InHeaders, InLines, Silent

HeadByte == MarkUrl \/ MoreBytes \/ OnUrl \/ ListByte

\* A byte of the head that does not end it leads further into it.
LEMMA HeadStep ==
  ASSUME NEW r, NEW cur, AtRequest(r, cur), InHead(r, cur), HeadByte
  PROVE  InHead(r, Tail(cur))' /\ Silent
<1>1. js.incoming.body = <<>>
  BY DEF InHead
<1>2. CASE InUrlStart(r, cur)
  <2>1. MarkUrl
    BY <1>2 DEF HeadByte, InUrlStart, MarkUrl, Mark, MoreBytes, More, OnUrl, ListByte, MarkField,
                MarkValue, SkipSpace, OnHeaderField, OnHeaderValue
  <2>2. QED
    BY <1>1, <1>2, <2>1, MarkUrlStep
<1>3. CASE InUrl(r, cur)
  <2>1. MoreBytes \/ OnUrl
    BY <1>3 DEF HeadByte, InUrl, MarkUrl, Mark, ListByte, MarkField,
                MarkValue, SkipSpace, OnHeaderField, OnHeaderValue
  <2>2. QED
    BY <1>1, <1>3, <2>1, MoreUrlStep, UrlStep
<1>4. CASE InHeaders(r, cur)
  <2>1. state \in ListStates
    <3>1. ListOf(Lined(r), <<>>, Before, Seen(r), cur, EndOfHead(r))
      BY HeadList DEF AtRequest
    <3>2. InLines(Lined(r), <<>>, Before, Seen(r), cur, EndOfHead(r))
      BY <1>4 DEF InHeaders
    <3>3. QED
      BY <3>1, <3>2, ListShape
  <2>2. ListByte
    BY <2>1 DEF HeadByte, ListStates, MarkUrl, Mark, MoreBytes, More, OnUrl, ListByte
  <2>3. QED
    BY <1>1, <1>4, <2>2, HeadersStep
<1>5. QED
  BY <1>2, <1>3, <1>4 DEF InHead

-----------------------------------------------------------------------------
(* The end of a head.                                                      *)

\* The headers of all lines.
LEMMA JoinedType ==
  ASSUME NEW hs \in Seq(AnyLines)
  PROVE  Joined(hs) = JoinedTo(hs, Len(hs)) /\ Joined(hs) \in Seq(HeaderPairs)
<1> DEFINE n == Len(hs)
<1>1. n \in 0 .. Len(hs)
  OBVIOUS
<1>2. Joined(hs) = JoinedTo(hs, n) /\ JoinedTo(hs, n) \in Seq(Seq(Bytes) \X Seq(Bytes))
  BY <1>1, JoinedFacts
<1>3. QED
  BY <1>2 DEF HeaderPairs

\* What holds when the empty line behind the headers is read.
AtEndOfHead(r, cur) ==
  /\ Tail(cur) = Rest(r) /\ Rest(r) \in Seq(Bytes)
  /\ flags = Marks(r) /\ toRead = (IF r.kind = "length" THEN Len(r.body) ELSE 0)
  /\ LineComplete(js) /\ Got(js) = Joined(Lined(r)) /\ js.incoming.url = r.url
  /\ js \in Handlers /\ js.incoming \in Messages /\ js.incoming.body = <<>>
  /\ Joined(Lined(r)) \in Seq(HeaderPairs)

\* An empty line is met only where the head ends, with every line got.
LEMMA EndOfHeaders ==
  ASSUME NEW r, NEW cur, AtRequest(r, cur), InHead(r, cur),
         state \in {"field_start", "value_lws"}, Head(left) = "N"
  PROVE  AtEndOfHead(r, cur)
<1>1. InHeaders(r, cur) /\ js.incoming.body = <<>>
  BY DEF InHead, InUrlStart, InUrl
<1>2. ListOf(Lined(r), <<>>, Before, Seen(r), cur, EndOfHead(r))
  BY HeadList DEF AtRequest
<1>3. At(Lined(r), <<>>, Before, Seen(r), cur, EndOfHead(r))
  BY <1>1, <1>2 DEF At, AtRequest, InHeaders
<1>4. /\ cur = EndOfHead(r) /\ <<flags, toRead>> = Seen(r) /\ LineComplete(js)
      /\ Got(js) = <<>> \o JoinedTo(Lined(r), Len(Lined(r)))
  BY <1>3, EndOfList
<1>5. Tail(cur) = Rest(r) /\ Rest(r) \in Seq(Bytes)
  <2> DEFINE t == Rest(r)
  <2>1. t \in Seq(Bytes) /\ "N" \in Bytes
    BY RestFacts, ByteSets DEF AtRequest
  <2>2. EndOfHead(r) = <<"N">> \o t
    BY DEF EndOfHead
  <2> HIDE DEF t
  <2>3. Tail(EndOfHead(r)) = t
    BY <2>1, <2>2, ByteOne
  <2>4. QED
    BY <1>4, <2>1, <2>3 DEF t
<1>6. Got(js) = Joined(Lined(r)) /\ Joined(Lined(r)) \in Seq(HeaderPairs)
  <2> DEFINE hs == Lined(r)
             w == JoinedTo(hs, Len(hs))
  <2>1. Joined(hs) = w /\ Joined(hs) \in Seq(HeaderPairs)
    BY LinedFacts, JoinedType DEF AtRequest
  <2> HIDE DEF w
  <2>2. <<>> \o w = w
    BY <2>1, ConcatEmptySeq
  <2>3. QED
    BY <1>4, <2>1, <2>2 DEF w
<1>7. js \in Handlers /\ js.incoming \in Messages
  BY DEF AtRequest, ParserTyped
<1>8. flags = Marks(r) /\ toRead = (IF r.kind = "length" THEN Len(r.body) ELSE 0)
  BY <1>4 DEF Seen
<1>9. QED
  BY <1>1, <1>4, <1>5, <1>6, <1>7, <1>8 DEF AtEndOfHead, InHeaders

\* The end of a request in the parser.
Completes(r) ==
  /\ state' = (IF r.kind = "close" THEN "dead" ELSE "start") /\ r.kind # "upgrade"
  /\ "upgrade" \notin flags' /\ ~js'.incoming.upgrade /\ ParserTyped'
  /\ js'.finished = Append(js.finished, MessageOf(r))

\* What the end of the headers comes to.
ToUpgrade(r) ==
  /\ r.kind = "upgrade" /\ Rest(r) = <<>>
  /\ state' = "start" /\ "upgrade" \in flags' /\ ParserTyped'
  /\ js'.incoming.upgrade /\ js'.incoming.url = r.url
  /\ js'.incoming.headers = Joined(Lined(r))
  /\ js'.announced = js.announced /\ js'.finished = js.finished
ToRest(r) ==
  /\ InRest(r, Rest(r))' /\ ~js'.incoming.upgrade /\ ParserTyped'
  /\ js'.announced = Append(js.announced, HeadOf(r)) /\ js'.finished = js.finished
ToEnd(r) ==
  /\ Completes(r) /\ Rest(r) = <<>>
  /\ js'.announced = Append(js.announced, HeadOf(r))

\* Without chunks there is no trailer, and the message is the head with its
\* body.
LEMMA WholeMessage ==
  ASSUME NEW r, RequestType(r), r.kind # "chunked"
  PROVE  MessageOf(r) = [url |-> r.url, headers |-> Joined(Lined(r)), body |-> r.body,
                         upgrade |-> FALSE]
<1>1. r.trailers = <<>> /\ Lined(r) \in Seq(AnyLines)
  BY RequestFacts, LinedFacts
<1>2. Lined(r) \o <<>> = Lined(r)
  BY <1>1, ConcatEmptySeq
<1>3. r.headers \o Framing(r) \o r.trailers = Lined(r)
  BY <1>1, <1>2 DEF Lined
<1>4. QED
  BY <1>3 DEF MessageOf

\* OnHeadersComplete.
LEMMA HeadEndStep ==
  ASSUME NEW r, NEW cur, AtRequest(r, cur), InHead(r, cur), OnHeadersComplete
  PROVE  Tail(cur) = Rest(r) /\ (ToUpgrade(r) \/ ToRest(r) \/ ToEnd(r))
<1> DEFINE told == onHeadersComplete(js, "upgrade" \in flags)
           next == CASE "upgrade" \in flags -> "start"
                     [] "chunked" \in flags -> "chunk_size"
                     [] toRead > 0          -> "body"
                     [] OTHER               -> NewMessage
<1>1. /\ state \in {"field_start", "value_lws"} /\ Head(left) = "N"
      /\ running' = running /\ flags' = flags /\ toRead' = toRead /\ pending' = pending
      /\ state' = next
      /\ js' = (IF next \in {"start", "dead"} THEN onMessageComplete(told) ELSE told)
  BY DEF OnHeadersComplete, Reads
<1>2. AtEndOfHead(r, cur)
  BY <1>1, EndOfHeaders
<1>3. RequestType(r) /\ ParserTyped /\ running
  BY DEF AtRequest
<1>4. /\ "upgrade" \in flags <=> r.kind = "upgrade"
      /\ "chunked" \in flags <=> r.kind = "chunked"
      /\ "close" \in flags <=> r.kind = "close"
      /\ r.kind = "length" => flags = {}
      /\ r.kind = "chunked" => flags = {"chunked"}
  BY <1>2, <1>3, RequestFacts DEF AtEndOfHead, Marks
<1>5. pending = Null /\ pending' = Null
  BY <1>1, <1>3, PendingTyped DEF Marked
<1>6. /\ told \in Handlers /\ told.incoming \in Messages
      /\ told.field = Null /\ told.value = Null
      /\ told.incoming.url = r.url /\ told.incoming.headers = Joined(Lined(r))
      /\ told.incoming.body = <<>> /\ (told.incoming.upgrade <=> r.kind = "upgrade")
      /\ told.finished = js.finished
      /\ r.kind = "upgrade" => told.announced = js.announced
      /\ r.kind # "upgrade" => told.announced = Append(js.announced, HeadOf(r))
  <2> DEFINE up == "upgrade" \in flags
  <2>1. /\ js \in Handlers /\ js.incoming \in Messages /\ LineComplete(js)
        /\ up \in BOOLEAN /\ told = onHeadersComplete(js, up)
    BY <1>2 DEF AtEndOfHead
  <2>2. (up <=> r.kind = "upgrade") /\ js.incoming.url = r.url /\ Got(js) = Joined(Lined(r))
        /\ js.incoming.body = <<>>
    BY <1>2, <1>4 DEF AtEndOfHead
  <2>3. HeadOf(r) = [url |-> r.url, headers |-> Joined(Lined(r))]
    BY DEF HeadOf, Lined
  <2> HIDE DEF up, told
  <2>4. /\ told \in Handlers /\ told.incoming \in Messages
        /\ told.field = Null /\ told.value = Null
        /\ told.incoming.url = js.incoming.url /\ told.incoming.headers = Got(js)
        /\ told.incoming.body = js.incoming.body /\ told.incoming.upgrade = up
        /\ told.finished = js.finished
        /\ up => told.announced = js.announced
        /\ ~up => told.announced = Append(js.announced, [url |-> js.incoming.url,
                                                         headers |-> Got(js)])
    BY <2>1, HeadersHandler
  <2>5. QED
    BY <2>2, <2>3, <2>4
<1> HIDE DEF told
<1>7. r.kind # "chunked" => Rest(r) = r.body
  BY <1>3, RestFacts
<1>8. CASE r.kind = "upgrade"
  <2>1. next = "start"
    <3>1. "upgrade" \in flags /\ "chunked" \notin flags /\ ~(toRead > 0)
      BY <1>2, <1>4, <1>8 DEF AtEndOfHead
    <3>2. QED
      BY <3>1
  <2>2. js' = told
    <3>1. js' = onMessageComplete(told)
      BY <1>1, <2>1
    <3>2. ~HasHeaderLine(told)
      BY <1>6 DEF HasHeaderLine, Truthy
    <3>3. QED
      BY <1>6, <1>8, <3>1, <3>2 DEF onMessageComplete
  <2>3. Rest(r) = <<>>
    BY <1>3, <1>7, <1>8, RequestFacts
  <2>4. ParserTyped'
    BY <1>1, <1>5, <1>6, <2>1, <2>2 DEF ParserTyped, Marked
  <2>5. ToUpgrade(r)
    BY <1>1, <1>4, <1>6, <1>8, <2>1, <2>2, <2>3, <2>4 DEF ToUpgrade
  <2>6. QED
    BY <1>2, <2>5 DEF AtEndOfHead
<1>9. CASE r.kind = "chunked"
  <2>1. next = "chunk_size"
    <3>1. "upgrade" \notin flags /\ "chunked" \in flags /\ ~(toRead > 0)
      BY <1>2, <1>4, <1>9 DEF AtEndOfHead
    <3>2. QED
      BY <3>1
  <2>2. js' = told
    BY <1>1, <2>1
  <2>3. Rest(r) = AfterChunks(r, 0) /\ 0 \in 0 .. Len(r.body) /\ r.body \in Seq(Bytes)
    BY <1>3, <1>9, RestFacts, RequestFacts
  <2>4. SubSeq(r.body, 1, 0) = <<>>
    BY <2>3
  <2>5. InChunk(r, Rest(r), 0)'
    BY <1>1, <1>4, <1>6, <1>9, <2>1, <2>2, <2>3, <2>4 DEF InChunk, HeadersKept
  <2>6. Rest(r) \in Seq(Bytes) /\ Len(Rest(r)) <= Len(Rest(r))
    BY <1>2 DEF AtEndOfHead
  <2>7. InRest(r, Rest(r))'
    BY <1>6, <2>2, <2>3, <2>5, <2>6 DEF InRest
  <2>8. ParserTyped'
    BY <1>1, <1>5, <1>6, <2>1, <2>2 DEF ParserTyped, Marked
  <2>9. ToRest(r)
    BY <1>6, <1>9, <2>2, <2>7, <2>8 DEF ToRest
  <2>10. QED
    BY <1>2, <2>9 DEF AtEndOfHead
<1>10. CASE r.kind = "length" /\ r.body # <<>>
  <2>1. Len(r.body) \in Nat /\ Len(r.body) > 0 /\ r.body \in Seq(Bytes)
    <3>1. r.body \in Seq(Bytes)
      BY <1>3, RequestFacts
    <3> DEFINE b == r.body
    <3> HIDE DEF b
    <3>2. b \in Seq(Bytes) /\ b # <<>> => Len(b) \in Nat /\ Len(b) > 0
      OBVIOUS
    <3>3. QED
      BY <1>10, <3>1, <3>2 DEF b
  <2>2. toRead = Len(r.body) /\ toRead > 0
    BY <1>2, <1>10, <2>1 DEF AtEndOfHead
  <2>3. next = "body"
    BY <1>4, <1>10, <2>2
  <2>4. js' = told
    BY <1>1, <2>3
  <2>5. <<>> \o r.body = r.body
    BY <2>1, ConcatEmptySeq
  <2>6. InBody(r, Rest(r))'
    BY <1>1, <1>4, <1>6, <1>7, <1>10, <2>2, <2>3, <2>4, <2>5 DEF InBody, HeadersKept
  <2>7. Rest(r) \in Seq(Bytes) /\ Len(Rest(r)) <= Len(Rest(r))
    BY <1>2 DEF AtEndOfHead
  <2>8. InRest(r, Rest(r))'
    BY <1>6, <2>4, <2>6, <2>7 DEF InRest
  <2>9. ParserTyped'
    BY <1>1, <1>5, <1>6, <2>3, <2>4 DEF ParserTyped, Marked
  <2>10. ToRest(r)
    BY <1>6, <1>10, <2>4, <2>8, <2>9 DEF ToRest
  <2>11. QED
    BY <1>2, <2>10 DEF AtEndOfHead
<1>11. CASE r.kind \in {"none", "close"} \/ (r.kind = "length" /\ r.body = <<>>)
  <2>1. r.body = <<>> /\ toRead = 0 /\ Len(<<>>) = 0
    BY <1>2, <1>3, <1>11, RequestFacts DEF AtEndOfHead
  <2>2. next = NewMessage /\ NewMessage = (IF r.kind = "close" THEN "dead" ELSE "start")
    BY <1>4, <1>11, <2>1 DEF NewMessage
  <2>3. js' = onMessageComplete(told)
    BY <1>1, <2>2
  <2>4. LineComplete(told) /\ ~told.incoming.upgrade /\ Got(told) = Joined(Lined(r))
    BY <1>6, <1>11 DEF LineComplete, Got
  <2>5. /\ js' \in Handlers /\ js'.incoming \in Messages /\ ~js'.incoming.upgrade
        /\ js'.announced = told.announced
        /\ js'.finished = Append(told.finished,
                            [url |-> told.incoming.url, headers |-> Got(told),
                             body |-> told.incoming.body, upgrade |-> FALSE])
    BY <1>6, <2>3, <2>4, CompleteHandler
  <2>6. MessageOf(r) = [url |-> r.url, headers |-> Joined(Lined(r)), body |-> <<>>,
                        upgrade |-> FALSE]
    BY <1>3, <1>11, <2>1, WholeMessage
  <2>7. js'.finished = Append(js.finished, MessageOf(r))
    BY <1>6, <2>4, <2>5, <2>6
  <2>8. ParserTyped'
    BY <1>1, <1>5, <2>2, <2>5 DEF ParserTyped, Marked
  <2>9. state' = (IF r.kind = "close" THEN "dead" ELSE "start")
    BY <1>1, <2>2
  <2>10. Completes(r)
    BY <1>1, <1>4, <1>11, <2>5, <2>7, <2>8, <2>9 DEF Completes
  <2>11. Rest(r) = <<>> /\ r.kind # "upgrade"
    BY <1>7, <1>11, <2>1
  <2>12. ToEnd(r)
    BY <1>6, <2>5, <2>10, <2>11 DEF ToEnd
  <2>13. QED
    BY <1>2, <2>12 DEF AtEndOfHead
<1>12. QED
  BY <1>3, <1>8, <1>9, <1>10, <1>11, RequestFacts

-----------------------------------------------------------------------------
(* Cutting the bytes of a body.                                            *)

\* A request goes on without the server being told, or ends, with c to come.
GoesOn(r, c) == InRest(r, c)' /\ Silent
Ends(r) == Completes(r) /\ js'.announced = js.announced

\* Cutting u \o w within u cuts u.
LEMMA Cut ==
  ASSUME NEW u \in Seq(Bytes), NEW w \in Seq(Bytes), NEW n \in 0 .. Len(u)
  PROVE  /\ SubSeq(u \o w, 1, n) = SubSeq(u, 1, n)
         /\ SubSeq(u \o w, n + 1, Len(u \o w)) = SubSeq(u, n + 1, Len(u)) \o w
         /\ u = SubSeq(u, 1, n) \o SubSeq(u, n + 1, Len(u))
         /\ SubSeq(u, 1, n) \in Seq(Bytes) /\ SubSeq(u, n + 1, Len(u)) \in Seq(Bytes)
         /\ Len(SubSeq(u, n + 1, Len(u))) = Len(u) - n
<1> DEFINE x == u \o w
           a == SubSeq(u, 1, n)
           c == SubSeq(u, n + 1, Len(u))
           d == SubSeq(x, n + 1, Len(x))
           y == a \o c
           z == c \o w
<1>1. /\ x \in Seq(Bytes) /\ Len(x) = Len(u) + Len(w) /\ Len(u) \in Nat /\ Len(w) \in Nat
      /\ n \in Nat /\ n <= Len(u)
      /\ \A k \in 1 .. Len(u) : x[k] = u[k]
      /\ \A k \in Len(u) + 1 .. Len(u) + Len(w) : x[k] = w[k - Len(u)]
  BY ConcatProperties
<1>2. a \in Seq(Bytes) /\ Len(a) = n /\ \A k \in 1 .. n : a[k] = u[k]
  BY <1>1
<1>3. /\ c \in Seq(Bytes) /\ Len(c) = Len(u) - n
      /\ \A k \in 1 .. Len(u) - n : c[k] = u[n + k]
  BY <1>1
<1> HIDE DEF x
<1>4. /\ d \in Seq(Bytes) /\ Len(d) = Len(u) + Len(w) - n
      /\ \A k \in 1 .. Len(u) + Len(w) - n : d[k] = x[n + k]
  BY <1>1
<1>5. SubSeq(x, 1, n) = a
  <2> DEFINE e == SubSeq(x, 1, n)
  <2>1. e \in Seq(Bytes) /\ Len(e) = n /\ \A k \in 1 .. n : e[k] = x[k]
    BY <1>1
  <2> HIDE DEF a, e
  <2>2. ASSUME NEW k \in 1 .. n
        PROVE  e[k] = a[k]
    <3>1. k \in 1 .. Len(u)
      BY <1>1
    <3>2. e[k] = x[k] /\ x[k] = u[k] /\ a[k] = u[k]
      BY <1>1, <1>2, <2>1, <3>1
    <3>3. QED
      BY <3>2
  <2>3. QED
    BY <1>1, <1>2, <2>1, <2>2, SeqEqual DEF e
<1> HIDE DEF a, c, d
<1>6. d = z
  <2>1. /\ z \in Seq(Bytes) /\ Len(z) = Len(c) + Len(w)
        /\ \A k \in 1 .. Len(c) : z[k] = c[k]
        /\ \A k \in Len(c) + 1 .. Len(c) + Len(w) : z[k] = w[k - Len(c)]
    <3>1. c \in Seq(Bytes)
      BY <1>3
    <3>2. QED
      BY ONLY <3>1, w \in Seq(Bytes), ConcatProperties DEF z
  <2> HIDE DEF z
  <2>2. Len(d) = Len(z)
    BY <1>1, <1>3, <1>4, <2>1
  <2>3. ASSUME NEW k \in 1 .. Len(d)
        PROVE  d[k] = z[k]
    <3>1. k \in Nat /\ k >= 1 /\ k <= Len(u) + Len(w) - n /\ d[k] = x[n + k]
      BY <1>1, <1>4
    <3>2. CASE k <= Len(u) - n
      <4>1. k \in 1 .. Len(c) /\ k \in 1 .. Len(u) - n /\ n + k \in 1 .. Len(u)
        BY <1>1, <1>3, <3>1, <3>2
      <4>2. QED
        BY <1>1, <1>3, <2>1, <3>1, <4>1
    <3>3. CASE k > Len(u) - n
      <4>1. /\ k \in Len(c) + 1 .. Len(c) + Len(w)
            /\ n + k \in Len(u) + 1 .. Len(u) + Len(w) /\ (n + k) - Len(u) = k - Len(c)
        BY <1>1, <1>3, <3>1, <3>3
      <4>2. QED
        BY <1>1, <2>1, <3>1, <4>1
    <3>4. QED
      BY <1>1, <3>1, <3>2, <3>3
  <2>4. QED
    BY <1>4, <2>1, <2>2, <2>3, SeqEqual
<1>7. u = y
  <2>1. /\ y \in Seq(Bytes) /\ Len(y) = Len(a) + Len(c)
        /\ \A k \in 1 .. Len(a) : y[k] = a[k]
        /\ \A k \in Len(a) + 1 .. Len(a) + Len(c) : y[k] = c[k - Len(a)]
    BY <1>2, <1>3, ConcatProperties
  <2> HIDE DEF y
  <2>2. Len(u) = Len(y)
    BY <1>1, <1>2, <1>3, <2>1
  <2>3. ASSUME NEW k \in 1 .. Len(u)
        PROVE  u[k] = y[k]
    <3>1. CASE k <= n
      <4>1. k \in 1 .. Len(a) /\ k \in 1 .. n
        BY <1>1, <1>2, <3>1
      <4>2. QED
        BY <1>2, <2>1, <4>1
    <3>2. CASE k > n
      <4>1. k \in Len(a) + 1 .. Len(a) + Len(c) /\ k - Len(a) \in 1 .. Len(u) - n
            /\ n + (k - Len(a)) = k
        BY <1>1, <1>2, <1>3, <3>2
      <4>2. QED
        BY <1>3, <2>1, <4>1
    <3>3. QED
      BY <1>1, <3>1, <3>2
  <2>4. QED
    BY <2>1, <2>2, <2>3, SeqEqual
<1>8. QED
  BY <1>2, <1>3, <1>5, <1>6, <1>7 DEF a, c, d, x, y, z

\* One byte of a chunk more.
LEMMA NextByte ==
  ASSUME NEW b \in Seq(Bytes), NEW q \in 0 .. Len(b) - 1
  PROVE  SubSeq(b, 1, q) \o <<b[q + 1]>> = SubSeq(b, 1, q + 1)
<1> DEFINE e == b[q + 1]
           g == SubSeq(b, 1, q)
           w == SubSeq(b, 1, q + 1)
<1>1. q \in Nat /\ q + 1 <= Len(b) /\ e \in Bytes
  OBVIOUS
<1>2. /\ g \in Seq(Bytes) /\ Len(g) = q /\ (\A i \in 1 .. q : g[i] = b[i])
      /\ w \in Seq(Bytes) /\ Len(w) = q + 1 /\ (\A i \in 1 .. q + 1 : w[i] = b[i])
  BY <1>1
<1>3. w[Len(g) + 1] = e /\ Len(w) = Len(g) + 1
  BY <1>1, <1>2
<1>4. \A i \in 1 .. Len(g) : w[i] = g[i]
  BY <1>1, <1>2
<1> HIDE DEF e, g, w
<1>5. w = Append(g, e)
  BY <1>1, <1>2, <1>3, <1>4, AppendPointwise
<1>6. g \o <<e>> = Append(g, e)
  BY <1>1, <1>2, AppendIsConcat
<1>7. QED
  BY <1>5, <1>6 DEF e, g, w

-----------------------------------------------------------------------------
(* The rest of a request: a body, or chunks and a trailer.                 *)

\* The forms of what is to come of a chunk.
LEMMA ChunkFacts ==
  ASSUME NEW r, RequestType(r), NEW q \in 0 .. Len(r.body)
  PROVE  LET c == AfterChunks(r, q)
             d == <<"N">> \o c
         IN /\ c \in Seq(Bytes) /\ c # <<>> /\ d \in Seq(Bytes) /\ d # <<>>
            /\ Head(d) = "N" /\ Tail(d) = c
            /\ q = Len(r.body) => /\ Head(c) = "0"
                                  /\ Tail(c) = AfterLines(r.trailers, 0, <<"N">>)
            /\ q < Len(r.body) =>
                 LET e == <<"N">> \o AfterChunks(r, q + 1)
                     b == <<r.body[q + 1]>> \o e
                 IN /\ Head(c) = "1" /\ Tail(c) = b /\ b \in Seq(Bytes) /\ b # <<>>
                    /\ Head(b) = r.body[q + 1] /\ Tail(b) = e /\ e \in Seq(Bytes)
                    /\ r.body[q + 1] \in Bytes
<1> DEFINE c == AfterChunks(r, q)
           t == AfterLines(r.trailers, 0, <<"N">>)
           g == AfterChunks(r, q + 1)
           x == r.body[q + 1]
           e == <<"N">> \o g
           b == <<x>> \o e
<1>1. "N" \in Bytes /\ "0" \in Bytes /\ "1" \in Bytes
  BY ByteSets
<1>2. c \in Seq(Bytes) /\ Head(<<"N">> \o c) = "N" /\ Tail(<<"N">> \o c) = c
      /\ <<"N">> \o c \in Seq(Bytes) /\ <<"N">> \o c # <<>>
  <2>1. c \in Seq(Bytes)
    BY AfterChunksFacts
  <2> HIDE DEF c
  <2>2. QED
    BY <1>1, <2>1, ByteOne
<1>3. Len(r.body) \in Nat /\ q \in Nat
  BY RequestFacts
<1>4. CASE q = Len(r.body)
  <2>1. c = <<"0">> \o t /\ t \in Seq(Bytes)
    BY <1>4, AfterChunksFacts, LastChunkFacts
  <2> HIDE DEF c, t
  <2>2. c # <<>> /\ Head(c) = "0" /\ Tail(c) = t
    BY <1>1, <2>1, ByteOne
  <2>3. ~(q < Len(r.body))
    BY <1>3, <1>4
  <2>4. QED
    BY <1>2, <1>4, <2>2, <2>3 DEF c, t
<1>5. CASE q < Len(r.body)
  <2>1. x \in Bytes /\ g \in Seq(Bytes) /\ c = <<"1">> \o b
    BY <1>5, AfterChunksFacts
  <2> HIDE DEF c, g, x
  <2>2. e \in Seq(Bytes)
    BY <1>1, <2>1, ByteOne
  <2> HIDE DEF e
  <2>3. b \in Seq(Bytes) /\ b # <<>> /\ Head(b) = x /\ Tail(b) = e
    BY <2>1, <2>2, ByteOne
  <2> HIDE DEF b
  <2>4. c # <<>> /\ Head(c) = "1" /\ Tail(c) = b
    BY <1>1, <2>1, <2>3, ByteOne
  <2>5. q # Len(r.body)
    BY <1>3, <1>5
  <2>6. QED
    BY <1>2, <1>5, <2>1, <2>2, <2>3, <2>4, <2>5 DEF c, g, x, e, b
<1>6. q = Len(r.body) \/ q < Len(r.body)
  BY <1>3
<1> HIDE DEF c, t, g, x, e, b
<1>7. QED
  BY <1>4, <1>5, <1>6

\* There are bytes to come, and none of them is out of place.
LEMMA RestShape ==
  ASSUME NEW r, RequestType(r), NEW cur, InRest(r, cur)
  PROVE  /\ cur \in Seq(Bytes) /\ cur # <<>> /\ Len(cur) <= Len(Rest(r))
         /\ state # "body" => Head(cur) # "X"
         /\ InTrailers(r, cur) => state \in ListStates
         /\ InBody(r, cur) => state = "body"
         /\ \A q \in 0 .. Len(r.body) :
              InChunk(r, cur, q) => state \in {"chunk_size", "body", "chunk_data_end"}
<1>1. cur \in Seq(Bytes) /\ Len(cur) <= Len(Rest(r))
  BY DEF InRest
<1>2. CASE InBody(r, cur)
  <2>1. cur # <<>> /\ state = "body"
    BY <1>2 DEF InBody
  <2>2. ~InTrailers(r, cur)
    BY <1>2 DEF InBody, InTrailers
  <2>3. QED
    BY <1>1, <2>1, <2>2 DEF InChunk
<1>3. ASSUME NEW q \in 0 .. Len(r.body), InChunk(r, cur, q)
      PROVE  cur # <<>> /\ (state # "body" => Head(cur) # "X")
             /\ state \in {"chunk_size", "body", "chunk_data_end"}
  <2> DEFINE c == AfterChunks(r, q)
             d == <<"N">> \o c
             b == <<r.body[q + 1]>> \o (<<"N">> \o AfterChunks(r, q + 1))
  <2>1. c # <<>> /\ (q = Len(r.body) => Head(c) = "0") /\ (q < Len(r.body) => Head(c) = "1")
        /\ d # <<>> /\ Head(d) = "N" /\ (q < Len(r.body) => b # <<>>)
    BY ChunkFacts
  <2>2. q = Len(r.body) \/ q < Len(r.body)
    <3>1. Len(r.body) \in Nat
      BY RequestFacts
    <3>2. QED
      BY <3>1
  <2>3. \/ state = "chunk_size" /\ cur = c
        \/ state = "body" /\ q < Len(r.body) /\ cur = b
        \/ state = "chunk_data_end" /\ cur = d
    BY <1>3 DEF InChunk
  <2> HIDE DEF c, d, b
  <2>4. QED
    BY <2>1, <2>2, <2>3
<1>4. ASSUME InTrailers(r, cur)
      PROVE  cur # <<>> /\ Head(cur) # "X" /\ state \in ListStates
  <2>1. ListOf(r.trailers, Joined(Lined(r)), Trailing, Trailing, cur, <<"N">>)
    BY <1>1, TrailerList
  <2>2. InLines(r.trailers, Joined(Lined(r)), Trailing, Trailing, cur, <<"N">>)
    BY <1>4 DEF InTrailers
  <2>3. QED
    BY <2>1, <2>2, ListShape
<1>5. QED
  BY <1>1, <1>2, <1>3, <1>4 DEF InRest

\* The tail of what is at most n long is at most n long.
LEMMA ShorterTail ==
  ASSUME NEW u \in Seq(Bytes), u # <<>>, NEW n \in Nat, Len(u) <= n
  PROVE  Tail(u) \in Seq(Bytes) /\ Len(Tail(u)) <= n
<1>1. Tail(u) \in Seq(Bytes) /\ Len(Tail(u)) = Len(u) - 1 /\ Len(u) \in Nat
  OBVIOUS
<1> DEFINE a == Len(u)
           b == Len(Tail(u))
<1> HIDE DEF a, b
<1>2. a \in Nat /\ b = a - 1 /\ a <= n
  BY <1>1 DEF a, b
<1>3. b <= n
  BY <1>2
<1>4. QED
  BY <1>1, <1>3 DEF b

\* The rest gets shorter with every byte.
LEMMA RestTail ==
  ASSUME NEW r, RequestType(r), NEW cur, InRest(r, cur)
  PROVE  Tail(cur) \in Seq(Bytes) /\ Len(Tail(cur)) <= Len(Rest(r))
<1> DEFINE n == Len(Rest(r))
<1>1. n \in Nat
  BY RestFacts
<1> HIDE DEF n
<1>2. cur \in Seq(Bytes) /\ cur # <<>> /\ Len(cur) <= n
  BY RestShape DEF n
<1>3. QED
  BY <1>1, <1>2, ShorterTail DEF n

\* The size of a chunk leads to its body, that of the last one to the trailer.
LEMMA ChunkSizeStep ==
  ASSUME NEW r, NEW cur, AtRequest(r, cur), InRest(r, cur), ChunkSize
  PROVE  GoesOn(r, Tail(cur))
<1>1. /\ state = "chunk_size" /\ js' = js /\ pending' = pending /\ running' = running
      /\ toRead' = Number(Head(cur))
      /\ state' = (IF toRead' = 0 THEN "field_start" ELSE "body")
      /\ flags' = (IF toRead' = 0 THEN flags \cup {"trailing"} ELSE flags)
  BY DEF ChunkSize, Reads, AtRequest
<1>2. RequestType(r) /\ ParserTyped
  BY DEF AtRequest
<1>3. PICK q \in 0 .. Len(r.body) : InChunk(r, cur, q)
  <2>1. ~InBody(r, cur) /\ ~InTrailers(r, cur)
    BY <1>1, <1>2, RestShape DEF ListStates
  <2>2. QED
    BY <2>1 DEF InRest
<1>4. /\ cur = AfterChunks(r, q) /\ flags = {"chunked"} /\ r.kind = "chunked"
      /\ HeadersKept(r) /\ js.incoming.body = SubSeq(r.body, 1, q)
  BY <1>1, <1>3 DEF InChunk
<1>5. pending' = Null /\ pending = Null
  BY <1>1, <1>2, PendingTyped DEF Marked
<1>6. Tail(cur) \in Seq(Bytes) /\ Len(Tail(cur)) <= Len(Rest(r))
  BY <1>2, RestTail
<1>7. r.body \in Seq(Bytes) /\ Len(r.body) \in Nat
  BY <1>2, RequestFacts
<1>8. Number("0") = 0 /\ Number("1") = 1
  <2>1. 0 \in 0 .. 3 /\ 1 \in 0 .. 3
    OBVIOUS
  <2>2. Number(Digit(0)) = 0 /\ Number(Digit(1)) = 1
    BY <2>1, Numbers
  <2>3. QED
    BY <2>2, ByteSets
<1>9. CASE q < Len(r.body)
  <2> DEFINE b == <<r.body[q + 1]>> \o (<<"N">> \o AfterChunks(r, q + 1))
  <2>1. Head(cur) = "1" /\ Tail(cur) = b
    BY <1>2, <1>4, <1>9, ChunkFacts
  <2>2. toRead' = 1 /\ state' = "body" /\ flags' = {"chunked"}
    BY <1>1, <1>4, <1>8, <2>1
  <2>3. InChunk(r, Tail(cur), q)'
    BY <1>1, <1>4, <1>9, <2>1, <2>2 DEF InChunk, HeadersKept
  <2>4. ParserTyped'
    BY <1>1, <1>2, <1>5, <2>2 DEF ParserTyped, Marked
  <2>5. InRest(r, Tail(cur))'
    BY <1>1, <1>6, <2>3 DEF InRest
  <2>6. QED
    BY <1>1, <2>4, <2>5 DEF GoesOn, Silent
<1>10. CASE q = Len(r.body)
  <2>1. Head(cur) = "0" /\ Tail(cur) = AfterLines(r.trailers, 0, <<"N">>)
    BY <1>2, <1>4, <1>10, ChunkFacts
  <2>2. toRead' = 0 /\ state' = "field_start" /\ flags' = {"chunked", "trailing"}
    BY <1>1, <1>4, <1>8, <2>1
  <2>3. js.incoming.body = r.body
    <3> DEFINE b == r.body
               n == Len(b)
    <3>1. b \in Seq(Bytes)
      BY <1>7
    <3> HIDE DEF b
    <3>2. SubSeq(b, 1, n) = b
      BY <3>1
    <3>3. QED
      BY <1>4, <1>10, <3>2 DEF b
  <2>4. InFieldStart(r.trailers, Joined(Lined(r)), Trailing, Tail(cur), <<"N">>)'
    BY <1>1, <1>4, <2>1, <2>2 DEF InFieldStart, HeadersKept, Trailing
  <2>5. InTrailers(r, Tail(cur))'
    BY <1>1, <1>4, <2>3, <2>4 DEF InTrailers, InLines
  <2>6. ParserTyped'
    BY <1>1, <1>2, <1>5, <2>2 DEF ParserTyped, Marked
  <2>7. InRest(r, Tail(cur))'
    BY <1>1, <1>6, <2>5 DEF InRest
  <2>8. QED
    BY <1>1, <2>6, <2>7 DEF GoesOn, Silent
<1>11. QED
  BY <1>7, <1>9, <1>10

\* The end of a chunk leads to the next.
LEMMA ChunkDataEndStep ==
  ASSUME NEW r, NEW cur, AtRequest(r, cur), InRest(r, cur), ChunkDataEnd
  PROVE  GoesOn(r, Tail(cur))
<1>1. /\ state = "chunk_data_end" /\ js' = js /\ pending' = pending /\ running' = running
      /\ toRead' = toRead /\ flags' = flags /\ state' = "chunk_size"
  BY DEF ChunkDataEnd, Reads
<1>2. RequestType(r) /\ ParserTyped
  BY DEF AtRequest
<1>3. PICK q \in 0 .. Len(r.body) : InChunk(r, cur, q)
  <2>1. ~InBody(r, cur) /\ ~InTrailers(r, cur)
    BY <1>1, <1>2, RestShape DEF ListStates
  <2>2. QED
    BY <2>1 DEF InRest
<1>4. /\ cur = <<"N">> \o AfterChunks(r, q) /\ flags = {"chunked"} /\ r.kind = "chunked"
      /\ HeadersKept(r) /\ js.incoming.body = SubSeq(r.body, 1, q)
  BY <1>1, <1>3 DEF InChunk
<1>5. pending' = Null /\ pending = Null
  BY <1>1, <1>2, PendingTyped DEF Marked
<1>6. Tail(cur) \in Seq(Bytes) /\ Len(Tail(cur)) <= Len(Rest(r))
  BY <1>2, RestTail
<1>7. Tail(cur) = AfterChunks(r, q)
  BY <1>2, <1>4, ChunkFacts
<1>8. InChunk(r, Tail(cur), q)'
  BY <1>1, <1>4, <1>7 DEF InChunk, HeadersKept
<1>9. ParserTyped'
  BY <1>1, <1>2, <1>5 DEF ParserTyped, Marked
<1>10. InRest(r, Tail(cur))'
  BY <1>1, <1>3, <1>6, <1>8 DEF InRest
<1>11. QED
  BY <1>1, <1>9, <1>10 DEF GoesOn, Silent

\* What onBody leaves of j.
BodyTold(j, k, s) ==
  /\ k \in Handlers /\ k.incoming \in Messages
  /\ k.incoming.body = j.incoming.body \o s
  /\ k.incoming.headers = j.incoming.headers /\ k.incoming.url = j.incoming.url
  /\ k.incoming.upgrade = j.incoming.upgrade
  /\ k.field = j.field /\ k.value = j.value
  /\ k.announced = j.announced /\ k.finished = j.finished

\* A piece of body reaches the message's body.
LEMMA ToldBody ==
  \A j \in Handlers, s \in Seq(Bytes) :
    j.incoming \in Messages => BodyTold(j, onBody(j, s), s)
<1>1. SUFFICES ASSUME NEW j \in Handlers, NEW s \in Seq(Bytes), j.incoming \in Messages,
                      NEW k, k = onBody(j, s)
               PROVE  BodyTold(j, k, s)
  OBVIOUS
<1>2. QED
  BY <1>1, BodyHandler DEF BodyTold

\* OnBody in a body of known length.
LEMMA LengthBodyStep ==
  ASSUME NEW r, RequestType(r), NEW cur, NEW w \in Seq(Bytes), left = cur \o w,
         chunk \in Nat, ParserTyped, running, InRest(r, cur), InBody(r, cur),
         ~js.incoming.upgrade, OnBody
  PROVE  \E c \in Seq(Bytes) : left' = c \o w /\ (GoesOn(r, c) \/ (c = <<>> /\ Ends(r)))
<1>0. PICK n, s, told : /\ n = (IF chunk < toRead THEN chunk ELSE toRead)
                        /\ s = SubSeq(left, 1, n) /\ told = onBody(js, s)
  OBVIOUS
<1> DEFINE p == SubSeq(cur, 1, n)
           c == SubSeq(cur, n + 1, Len(cur))
<1>1. /\ chunk > 0 /\ left' = SubSeq(left, n + 1, Len(left)) /\ toRead' = toRead - n
      /\ running' = running /\ flags' = flags /\ pending' = pending
      /\ CASE n < toRead            -> state' = "body" /\ js' = told
           [] n = toRead /\ "chunked" \in flags
                                    -> state' = "chunk_data_end" /\ js' = told
           [] OTHER                 -> state' = NewMessage /\ js' = onMessageComplete(told)
  BY <1>0 DEF OnBody
<1>2. /\ state = "body" /\ flags = {} /\ r.kind = "length" /\ HeadersKept(r)
      /\ r.body = js.incoming.body \o cur /\ cur # <<>> /\ toRead = Len(cur)
  BY DEF InBody
<1>3. cur \in Seq(Bytes) /\ Len(cur) <= Len(Rest(r)) /\ js.incoming.url = r.url
  BY DEF InRest
<1>4. js \in Handlers /\ js.incoming \in Messages /\ pending = Null /\ pending' = Null
  BY <1>1, <1>2, PendingTyped DEF Marked
<1>5. toRead \in Nat /\ toRead > 0
  BY <1>2, <1>3
<1>6. n \in 1 .. toRead /\ n \in Nat /\ (n < toRead \/ n = toRead)
  BY <1>0, <1>1, <1>5
<1>7. n \in 0 .. Len(cur)
  BY <1>2, <1>5, <1>6
<1>8. /\ s = p /\ left' = c \o w /\ cur = p \o c
      /\ p \in Seq(Bytes) /\ c \in Seq(Bytes) /\ Len(c) = Len(cur) - n
  <2>1. /\ SubSeq(cur \o w, 1, n) = p /\ cur = p \o c
        /\ SubSeq(cur \o w, n + 1, Len(cur \o w)) = c \o w
        /\ p \in Seq(Bytes) /\ c \in Seq(Bytes) /\ Len(c) = Len(cur) - n
    BY <1>3, <1>7, Cut
  <2> HIDE DEF p, c
  <2>2. QED
    BY <1>0, <1>1, <2>1
<1>9. Len(c) = toRead - n
  BY <1>2, <1>8
<1> HIDE DEF p, c
<1>10. /\ told \in Handlers /\ told.incoming \in Messages
       /\ told.incoming.body = js.incoming.body \o p
       /\ told.incoming.headers = js.incoming.headers /\ told.incoming.url = js.incoming.url
       /\ told.incoming.upgrade = js.incoming.upgrade
       /\ told.field = js.field /\ told.value = js.value
       /\ told.announced = js.announced /\ told.finished = js.finished
  <2>1. BodyTold(js, told, p)
    BY <1>0, <1>4, <1>8, ToldBody
  <2>2. QED
    BY <2>1 DEF BodyTold
<1>11. r.body = told.incoming.body \o c
  <2> DEFINE a == js.incoming.body
  <2>1. a \in Seq(Bytes)
    BY <1>4, MessagesType
  <2> HIDE DEF a
  <2>2. (a \o p) \o c = a \o (p \o c)
    BY <1>8, <2>1, ByteAssociate DEF Associative
  <2>3. QED
    BY <1>2, <1>8, <1>10, <2>2 DEF a
<1>12. CASE n < toRead
  <2>1. state' = "body" /\ js' = told
    <3>1. n # toRead
      BY <1>5, <1>6, <1>12
    <3>2. QED
      BY <1>1, <1>12, <3>1
  <2>2. Len(c) > 0 /\ toRead' = Len(c)
    BY <1>1, <1>5, <1>6, <1>9, <1>12
  <2>3. c # <<>>
    BY <1>8, <2>2
  <2>4. InBody(r, c)'
    BY <1>1, <1>2, <1>10, <1>11, <2>1, <2>2, <2>3 DEF InBody, HeadersKept
  <2>5. Len(c) <= Len(Rest(r))
    <3> DEFINE a == Len(cur)
               b == Len(Rest(r))
    <3>1. b \in Nat
      BY RestFacts
    <3>2. a = toRead /\ a <= b
      BY <1>2, <1>3
    <3> HIDE DEF a, b
    <3>3. Len(c) <= b
      BY <1>5, <1>6, <1>9, <3>1, <3>2
    <3>4. QED
      BY <3>3 DEF b
  <2>6. InRest(r, c)'
    BY <1>3, <1>8, <1>10, <2>1, <2>4, <2>5 DEF InRest
  <2>7. ParserTyped'
    BY <1>1, <1>4, <1>10, <2>1 DEF ParserTyped, Marked
  <2>8. GoesOn(r, c)
    BY <1>10, <2>1, <2>6, <2>7 DEF GoesOn, Silent
  <2>9. QED
    BY <1>8, <2>8
<1>13. CASE n = toRead
  <2>1. ~(n < toRead) /\ "chunked" \notin flags
    BY <1>2, <1>5, <1>13
  <2>2. state' = NewMessage /\ js' = onMessageComplete(told)
    BY <1>1, <2>1
  <2>3. state' = "start"
    BY <1>2, <2>2 DEF NewMessage
  <2>4. c = <<>>
    <3>1. Len(c) = 0
      BY <1>5, <1>9, <1>13
    <3>2. QED
      BY <1>8, <3>1, EmptySeq
  <2>5. told.incoming.body = r.body
    <3> DEFINE a == told.incoming.body
    <3>1. a \in Seq(Bytes)
      BY <1>10, MessagesType
    <3> HIDE DEF a
    <3>2. a \o <<>> = a
      BY <3>1, ConcatEmptySeq
    <3>3. QED
      BY <1>11, <2>4, <3>2 DEF a
  <2>6. LineComplete(told) /\ Got(told) = Joined(Lined(r)) /\ ~told.incoming.upgrade
    BY <1>2, <1>10 DEF LineComplete, Got, HeadersKept
  <2>7. /\ js' \in Handlers /\ js'.incoming \in Messages /\ ~js'.incoming.upgrade
        /\ js'.announced = told.announced
        /\ js'.finished = Append(told.finished,
                            [url |-> told.incoming.url, headers |-> Got(told),
                             body |-> told.incoming.body, upgrade |-> FALSE])
    BY <1>10, <2>2, <2>6, CompleteHandler
  <2>8. MessageOf(r) = [url |-> r.url, headers |-> Joined(Lined(r)), body |-> r.body,
                        upgrade |-> FALSE]
    BY <1>2, WholeMessage
  <2>9. js'.finished = Append(js.finished, MessageOf(r))
    BY <1>3, <1>10, <2>5, <2>6, <2>7, <2>8
  <2>10. ParserTyped'
    BY <1>1, <1>4, <2>3, <2>7 DEF ParserTyped, Marked
  <2>11. Completes(r)
    BY <1>1, <1>2, <2>3, <2>7, <2>9, <2>10 DEF Completes
  <2>12. Ends(r)
    BY <1>10, <2>7, <2>11 DEF Ends
  <2>13. QED
    BY <1>8, <2>4, <2>12
<1>14. QED
  BY <1>6, <1>12, <1>13

\* OnBody in a chunk, of one byte.
LEMMA ChunkBodyStep ==
  ASSUME NEW r, RequestType(r), NEW cur, NEW w \in Seq(Bytes), left = cur \o w,
         chunk \in Nat, ParserTyped, running, InRest(r, cur),
         NEW q \in 0 .. Len(r.body), InChunk(r, cur, q), OnBody
  PROVE  left' = Tail(cur) \o w /\ GoesOn(r, Tail(cur))
<1>0. PICK n, s, told : /\ n = (IF chunk < toRead THEN chunk ELSE toRead)
                        /\ s = SubSeq(left, 1, n) /\ told = onBody(js, s)
  OBVIOUS
<1>1. /\ chunk > 0 /\ left' = SubSeq(left, n + 1, Len(left)) /\ toRead' = toRead - n
      /\ running' = running /\ flags' = flags /\ pending' = pending /\ state = "body"
      /\ CASE n < toRead            -> state' = "body" /\ js' = told
           [] n = toRead /\ "chunked" \in flags
                                    -> state' = "chunk_data_end" /\ js' = told
           [] OTHER                 -> state' = NewMessage /\ js' = onMessageComplete(told)
  BY <1>0 DEF OnBody
<1>2. /\ flags = {"chunked"} /\ r.kind = "chunked" /\ HeadersKept(r)
      /\ js.incoming.body = SubSeq(r.body, 1, q) /\ toRead = 1 /\ q < Len(r.body)
      /\ cur = <<r.body[q + 1]>> \o (<<"N">> \o AfterChunks(r, q + 1))
  BY <1>1 DEF InChunk
<1>3. n = 1
  BY <1>0, <1>1, <1>2
<1>4. js \in Handlers /\ js.incoming \in Messages /\ pending = Null /\ pending' = Null
  BY <1>1, PendingTyped DEF Marked
<1> DEFINE x == r.body[q + 1]
           e == <<"N">> \o AfterChunks(r, q + 1)
<1>5. /\ Head(cur) = x /\ Tail(cur) = e /\ e \in Seq(Bytes) /\ x \in Bytes
      /\ cur = <<x>> \o e
  BY <1>2, ChunkFacts
<1> HIDE DEF x, e
<1>6. left' = e \o w /\ s = <<x>>
  <2> DEFINE u == e \o w
             y == <<x>> \o u
  <2>1. u \in Seq(Bytes)
    BY <1>5, ByteConcat
  <2>2. <<x>> \in Seq(Bytes)
    BY <1>5
  <2>3. (<<x>> \o e) \o w = <<x>> \o (e \o w)
    <3> DEFINE g == <<x>>
    <3>1. g \in Seq(Bytes)
      BY <2>2
    <3> HIDE DEF g
    <3>2. (g \o e) \o w = g \o (e \o w)
      BY <1>5, <3>1, ByteAssociate DEF Associative
    <3>3. QED
      BY <3>2 DEF g
  <2>4. left = y
    BY <1>5, <2>3
  <2> HIDE DEF u
  <2>5. y \in Seq(Bytes) /\ y # <<>> /\ Tail(y) = u /\ Head(y) = x
    BY <1>5, <2>1, ByteOne
  <2> HIDE DEF y
  <2>6. SubSeq(y, 2, Len(y)) = Tail(y)
    BY <2>5, TailIsSubSeq
  <2>7. SubSeq(y, 1, 1) = <<x>>
    <3> DEFINE a == SubSeq(y, 1, 1)
               d == <<x>>
    <3>1. Len(y) \in Nat /\ Len(y) >= 1 /\ y[1] = x
      BY <2>5
    <3>2. a \in Seq(Bytes) /\ Len(a) = 1 /\ a[1] = x
      BY <2>5, <3>1
    <3>3. d \in Seq(Bytes) /\ Len(d) = 1 /\ d[1] = x
      BY <1>5
    <3> HIDE DEF a, d
    <3>4. \A k \in 1 .. Len(a) : a[k] = d[k]
      BY <3>2, <3>3
    <3>5. a = d
      BY <3>2, <3>3, <3>4, SeqEqual
    <3>6. QED
      BY <3>5 DEF a, d
  <2>8. left' = SubSeq(y, 2, Len(y)) /\ s = SubSeq(y, 1, 1)
    <3>1. n + 1 = 2 /\ left' = SubSeq(left, n + 1, Len(left)) /\ s = SubSeq(left, 1, n)
      BY <1>0, <1>1, <1>3
    <3>2. QED
      BY <1>3, <2>4, <3>1, Zenon
  <2>9. QED
    BY <2>5, <2>6, <2>7, <2>8 DEF u
<1>7. /\ told \in Handlers /\ told.incoming \in Messages
      /\ told.incoming.body = js.incoming.body \o <<x>>
      /\ told.incoming.headers = js.incoming.headers /\ told.incoming.url = js.incoming.url
      /\ told.incoming.upgrade = js.incoming.upgrade
      /\ told.field = js.field /\ told.value = js.value
      /\ told.announced = js.announced /\ told.finished = js.finished
  <2>1. s \in Seq(Bytes)
    <3>1. <<x>> \in Seq(Bytes)
      BY <1>5
    <3>2. QED
      BY <1>6, <3>1
  <2>2. /\ told \in Handlers /\ told.incoming \in Messages
        /\ told.incoming.body = js.incoming.body \o s
        /\ told.incoming.headers = js.incoming.headers /\ told.incoming.url = js.incoming.url
        /\ told.incoming.upgrade = js.incoming.upgrade
        /\ told.field = js.field /\ told.value = js.value
        /\ told.announced = js.announced /\ told.finished = js.finished
    <3>1. BodyTold(js, told, s)
      BY <1>0, <1>4, <2>1, ToldBody
    <3>2. QED
      BY <3>1 DEF BodyTold
  <2>3. QED
    BY <1>6, <2>2
<1>8. js' = told /\ state' = "chunk_data_end"
  BY <1>1, <1>2, <1>3
<1>9. q + 1 \in 0 .. Len(r.body) /\ told.incoming.body = SubSeq(r.body, 1, q + 1)
  <2> DEFINE b == r.body
  <2>1. b \in Seq(Bytes)
    BY RequestFacts
  <2>2. q < Len(b) /\ x = b[q + 1] /\ told.incoming.body = SubSeq(b, 1, q) \o <<x>>
    BY <1>2, <1>7 DEF x
  <2> HIDE DEF b
  <2>3. q \in 0 .. Len(b) - 1 /\ q + 1 \in 0 .. Len(b)
    <3>1. q \in 0 .. Len(b)
      BY DEF b
    <3>2. QED
      BY <2>1, <2>2, <3>1
  <2>4. SubSeq(b, 1, q) \o <<b[q + 1]>> = SubSeq(b, 1, q + 1)
    BY <2>1, <2>3, NextByte
  <2>5. QED
    BY <2>2, <2>3, <2>4 DEF b
<1>10. InChunk(r, Tail(cur), q + 1)'
  BY <1>1, <1>2, <1>5, <1>7, <1>8, <1>9 DEF InChunk, HeadersKept, e
<1>11. Tail(cur) \in Seq(Bytes) /\ Len(Tail(cur)) <= Len(Rest(r)) /\ js.incoming.url = r.url
  BY RestTail DEF InRest
<1>12. InRest(r, Tail(cur))'
  BY <1>7, <1>8, <1>9, <1>10, <1>11 DEF InRest
<1>13. ParserTyped'
  BY <1>1, <1>4, <1>7, <1>8 DEF ParserTyped, Marked
<1>14. QED
  BY <1>5, <1>6, <1>7, <1>8, <1>12, <1>13 DEF GoesOn, Silent

\* A piece of body leads further into the rest, or ends the message.
LEMMA BodyStep ==
  ASSUME NEW r, RequestType(r), NEW cur, NEW w \in Seq(Bytes), left = cur \o w,
         chunk \in Nat, ParserTyped, running, InRest(r, cur), ~js.incoming.upgrade, OnBody
  PROVE  \E c \in Seq(Bytes) : left' = c \o w /\ (GoesOn(r, c) \/ (c = <<>> /\ Ends(r)))
<1>1. CASE InBody(r, cur)
  BY <1>1, LengthBodyStep
<1>2. ASSUME NEW q \in 0 .. Len(r.body), InChunk(r, cur, q)
      PROVE  \E c \in Seq(Bytes) : left' = c \o w /\ (GoesOn(r, c) \/ (c = <<>> /\ Ends(r)))
  <2>1. left' = Tail(cur) \o w /\ GoesOn(r, Tail(cur))
    BY <1>2, ChunkBodyStep
  <2>2. Tail(cur) \in Seq(Bytes)
    BY RestTail
  <2>3. QED
    BY <2>1, <2>2
<1>3. ~InTrailers(r, cur)
  BY RestShape DEF OnBody, ListStates
<1>4. QED
  BY <1>1, <1>2, <1>3 DEF InRest

\* The headers of a list of lines, line by line.
LEMMA JoinedLine ==
  ASSUME NEW hs \in Seq(AnyLines)
  PROVE  /\ Joined(hs) \in Seq(HeaderPairs) /\ Len(Joined(hs)) = Len(hs)
         /\ \A i \in 1 .. Len(hs) : Joined(hs)[i] = <<hs[i].field, FlattenSeq(hs[i].value)>>
<1>1. Joined(hs) \in Seq(HeaderPairs)
  BY JoinedType
<1>2. DOMAIN hs = 1 .. Len(hs) /\ Len(hs) \in Nat
  OBVIOUS
<1>3. DOMAIN Joined(hs) = 1 .. Len(hs)
  BY <1>2 DEF Joined
<1>4. \A i \in 1 .. Len(hs) : Joined(hs)[i] = <<hs[i].field, FlattenSeq(hs[i].value)>>
  BY <1>2 DEF Joined
<1> DEFINE w == Joined(hs)
<1> HIDE DEF w
<1>5. w \in Seq(HeaderPairs) /\ DOMAIN w = 1 .. Len(hs)
  BY <1>1, <1>3 DEF w
<1>6. Len(w) = Len(hs)
  BY <1>2, <1>5
<1>7. QED
  BY <1>1, <1>4, <1>6 DEF w

\* The headers of two lists are those of one after the other.
LEMMA JoinedConcat ==
  ASSUME NEW hs \in Seq(AnyLines), NEW ts \in Seq(AnyLines)
  PROVE  Joined(hs \o ts) = Joined(hs) \o Joined(ts)
<1> DEFINE x == hs \o ts
           a == Joined(hs)
           b == Joined(ts)
           u == Joined(x)
           v == a \o b
           m == Len(hs)
           n == Len(ts)
<1>1. /\ x \in Seq(AnyLines) /\ Len(x) = m + n /\ m \in Nat /\ n \in Nat
      /\ \A i \in 1 .. m : x[i] = hs[i]
      /\ \A i \in m + 1 .. m + n : x[i] = ts[i - m]
  BY ConcatProperties
<1>2. /\ a \in Seq(HeaderPairs) /\ Len(a) = m
      /\ \A i \in 1 .. m : a[i] = <<hs[i].field, FlattenSeq(hs[i].value)>>
  BY JoinedLine
<1>3. /\ b \in Seq(HeaderPairs) /\ Len(b) = n
      /\ \A i \in 1 .. n : b[i] = <<ts[i].field, FlattenSeq(ts[i].value)>>
  BY JoinedLine
<1> HIDE DEF x
<1>4. /\ u \in Seq(HeaderPairs) /\ Len(u) = m + n
      /\ \A i \in 1 .. m + n : u[i] = <<x[i].field, FlattenSeq(x[i].value)>>
  <2>1. /\ u \in Seq(HeaderPairs) /\ Len(u) = Len(x)
        /\ \A i \in 1 .. Len(x) : u[i] = <<x[i].field, FlattenSeq(x[i].value)>>
    BY <1>1, JoinedLine
  <2> HIDE DEF u, m, n
  <2>2. QED
    BY <1>1, <2>1
<1> HIDE DEF a, b, u
<1>5. /\ v \in Seq(HeaderPairs) /\ Len(v) = Len(a) + Len(b)
      /\ \A i \in 1 .. Len(a) : v[i] = a[i]
      /\ \A i \in Len(a) + 1 .. Len(a) + Len(b) : v[i] = b[i - Len(a)]
  <2>1. a \in Seq(HeaderPairs) /\ b \in Seq(HeaderPairs)
    BY <1>2, <1>3
  <2> DEFINE T == HeaderPairs
  <2> HIDE DEF T
  <2>2. a \in Seq(T) /\ b \in Seq(T)
    BY <2>1 DEF T
  <2>3. /\ v \in Seq(T) /\ Len(v) = Len(a) + Len(b)
        /\ \A i \in 1 .. Len(a) : v[i] = a[i]
        /\ \A i \in Len(a) + 1 .. Len(a) + Len(b) : v[i] = b[i - Len(a)]
    BY <2>2, ConcatProperties
  <2>4. QED
    BY <2>3 DEF T
<1> HIDE DEF v, m, n
<1>6. Len(u) = Len(v)
  BY <1>1, <1>2, <1>3, <1>4, <1>5
<1>7. ASSUME NEW i \in 1 .. Len(u)
      PROVE  u[i] = v[i]
  <2>1. i \in 1 .. m + n /\ i \in Nat
    BY <1>1, <1>4
  <2>2. CASE i <= m
    <3>1. i \in 1 .. m
      BY <1>1, <2>1, <2>2
    <3>2. u[i] = <<x[i].field, FlattenSeq(x[i].value)>> /\ x[i] = hs[i]
          /\ a[i] = <<hs[i].field, FlattenSeq(hs[i].value)>> /\ v[i] = a[i]
      BY <1>1, <1>2, <1>4, <1>5, <2>1, <3>1
    <3>3. QED
      BY <3>2
  <2>3. CASE i > m
    <3> DEFINE k == i - m
    <3>1. i \in m + 1 .. m + n /\ k \in 1 .. n
      BY <1>1, <2>1, <2>3
    <3>2. x[i] = ts[k] /\ v[i] = b[k]
      BY <1>1, <1>2, <1>3, <1>5, <3>1
    <3> HIDE DEF k
    <3>3. u[i] = <<x[i].field, FlattenSeq(x[i].value)>>
          /\ b[k] = <<ts[k].field, FlattenSeq(ts[k].value)>>
      BY <1>3, <1>4, <2>1, <3>1
    <3>4. QED
      BY <3>2, <3>3
  <2>4. QED
    BY <1>1, <2>1, <2>2, <2>3
<1>8. u = v
  BY <1>4, <1>5, <1>6, <1>7, SeqEqual
<1>9. QED
  BY <1>8 DEF u, v, x, a, b

\* A byte of the trailer leads further into it.
LEMMA TrailerStep ==
  ASSUME NEW r, NEW cur, AtRequest(r, cur), InRest(r, cur), InTrailers(r, cur), ListByte
  PROVE  GoesOn(r, Tail(cur))
<1>1. ListOf(r.trailers, Joined(Lined(r)), Trailing, Trailing, cur, <<"N">>)
  BY TrailerList DEF AtRequest
<1>2. /\ InLines(r.trailers, Joined(Lined(r)), Trailing, Trailing, cur, <<"N">>)
      /\ js.incoming.url = r.url /\ js.incoming.body = r.body /\ r.kind = "chunked"
  BY DEF InTrailers, InRest, Trailing
<1>3. At(r.trailers, Joined(Lined(r)), Trailing, Trailing, cur, <<"N">>)
  BY <1>1, <1>2 DEF At, AtRequest
<1>4. Onward(r.trailers, Joined(Lined(r)), Trailing, Trailing, cur, <<"N">>)
  BY <1>3, ListStep
<1>5. /\ InLines(r.trailers, Joined(Lined(r)), Trailing, Trailing, Tail(cur), <<"N">>)'
      /\ ParserTyped' /\ SameMessage(js, js')
  BY <1>4 DEF Onward
<1>6. InTrailers(r, Tail(cur))' /\ js'.incoming.url = r.url
  BY <1>2, <1>5 DEF InTrailers, SameMessage
<1>7. Tail(cur) \in Seq(Bytes) /\ Len(Tail(cur)) <= Len(Rest(r))
  BY RestTail DEF AtRequest
<1>8. InRest(r, Tail(cur))'
  BY <1>6, <1>7 DEF InRest
<1>9. QED
  BY <1>5, <1>8 DEF GoesOn, Silent, SameMessage

\* The empty line of a trailer is met only where the message ends, with every
\* line got.
LEMMA EndOfTrailers ==
  ASSUME NEW r, NEW cur, AtRequest(r, cur), InRest(r, cur),
         state \in {"field_start", "value_lws"}, Head(left) = "N"
  PROVE  /\ cur = <<"N">> /\ flags = {"chunked", "trailing"} /\ LineComplete(js)
         /\ Got(js) = Joined(Lined(r)) \o Joined(r.trailers)
         /\ js.incoming.url = r.url /\ js.incoming.body = r.body
<1>1. InTrailers(r, cur)
  BY RestShape DEF InRest, AtRequest
<1>2. ListOf(r.trailers, Joined(Lined(r)), Trailing, Trailing, cur, <<"N">>)
  BY TrailerList DEF AtRequest
<1>3. /\ InLines(r.trailers, Joined(Lined(r)), Trailing, Trailing, cur, <<"N">>)
      /\ js.incoming.url = r.url /\ js.incoming.body = r.body
  BY <1>1 DEF InTrailers, InRest, Trailing
<1>4. At(r.trailers, Joined(Lined(r)), Trailing, Trailing, cur, <<"N">>)
  BY <1>2, <1>3 DEF At, AtRequest
<1>5. /\ cur = <<"N">> /\ <<flags, toRead>> = Trailing /\ LineComplete(js)
      /\ Got(js) = Joined(Lined(r)) \o JoinedTo(r.trailers, Len(r.trailers))
  BY <1>4, EndOfList
<1>6. JoinedTo(r.trailers, Len(r.trailers)) = Joined(r.trailers)
  <2>1. r.trailers \in Seq(AnyLines)
    BY TrailerFacts DEF AtRequest
  <2>2. QED
    BY <2>1, JoinedType
<1>7. QED
  BY <1>3, <1>5, <1>6 DEF Trailing

\* The empty line of a trailer ends the message.
LEMMA TrailerEndStep ==
  ASSUME NEW r, NEW cur, AtRequest(r, cur), InRest(r, cur), ~js.incoming.upgrade,
         OnTrailerComplete
  PROVE  Tail(cur) = <<>> /\ Ends(r)
<1>1. /\ state \in {"field_start", "value_lws"} /\ Head(left) = "N"
      /\ js' = onMessageComplete(js) /\ state' = NewMessage
      /\ flags' = flags /\ pending' = pending /\ running' = running
  BY DEF OnTrailerComplete, Reads
<1>2. /\ cur = <<"N">> /\ flags = {"chunked", "trailing"} /\ LineComplete(js)
      /\ Got(js) = Joined(Lined(r)) \o Joined(r.trailers)
      /\ js.incoming.url = r.url /\ js.incoming.body = r.body
  BY <1>1, EndOfTrailers
<1>3. RequestType(r) /\ ParserTyped
  BY DEF AtRequest
<1>4. js \in Handlers /\ js.incoming \in Messages /\ pending = Null
  BY <1>1, <1>3, PendingTyped DEF Marked
<1>5. /\ js' \in Handlers /\ js'.incoming \in Messages /\ ~js'.incoming.upgrade
      /\ js'.announced = js.announced
      /\ js'.finished = Append(js.finished,
                            [url |-> js.incoming.url, headers |-> Got(js),
                             body |-> js.incoming.body, upgrade |-> FALSE])
  BY <1>1, <1>2, <1>4, CompleteHandler
<1>6. Got(js) = Joined(r.headers \o Framing(r) \o r.trailers)
  <2>1. Lined(r) \in Seq(AnyLines) /\ r.trailers \in Seq(AnyLines)
    BY <1>3, LinedFacts, TrailerFacts
  <2>2. Joined(Lined(r) \o r.trailers) = Joined(Lined(r)) \o Joined(r.trailers)
    BY <2>1, JoinedConcat
  <2>3. QED
    BY <1>2, <2>2 DEF Lined
<1>7. js'.finished = Append(js.finished, MessageOf(r))
  BY <1>2, <1>5, <1>6 DEF MessageOf
<1>8. state' = "start"
  BY <1>1, <1>2 DEF NewMessage
<1>9. r.kind = "chunked"
  <2>1. InTrailers(r, cur)
    BY <1>1, <1>3, RestShape DEF InRest
  <2>2. QED
    BY <2>1 DEF InTrailers
<1>10. ParserTyped'
  BY <1>1, <1>4, <1>5, <1>8 DEF ParserTyped, Marked
<1>11. QED
  BY <1>1, <1>2, <1>5, <1>7, <1>8, <1>9, <1>10 DEF Ends, Completes

\* A step that reads one byte.
OneByte ==
  \/ OnMessageBegin \/ HeadByte \/ OnHeadersComplete \/ OnTrailerComplete
  \/ ChunkSize \/ ChunkDataEnd \/ Error

\* A byte of the rest leads further into it, or ends the message.
LEMMA RestStep ==
  ASSUME NEW r, NEW cur, AtRequest(r, cur), InRest(r, cur), ~js.incoming.upgrade, OneByte
  PROVE  GoesOn(r, Tail(cur)) \/ (Tail(cur) = <<>> /\ Ends(r))
<1>1. RequestType(r)
  BY DEF AtRequest
<1>2. /\ state # "body" => Head(cur) # "X"
      /\ state \in ListStates \cup {"body", "chunk_size", "chunk_data_end"}
      /\ state \in ListStates => InTrailers(r, cur)
  BY <1>1, RestShape DEF InRest, ListStates
<1>3. ~OnMessageBegin
  BY <1>2 DEF OnMessageBegin, ListStates
<1>4. ~Error
  BY <1>2 DEF Error, Reads, AtRequest
<1>5. CASE HeadByte
  <2>1. ListByte
    BY <1>2, <1>5 DEF HeadByte, ListStates, MarkUrl, Mark, MoreBytes, More, OnUrl, ListByte
  <2>2. state \in ListStates
    BY <2>1 DEF ListByte, ListStates, MarkField, Mark, MarkValue, SkipSpace, OnHeaderField,
                OnHeaderValue
  <2>3. QED
    BY <1>2, <2>1, <2>2, TrailerStep
<1>6. ~OnHeadersComplete
  <2>1. SUFFICES ASSUME OnHeadersComplete PROVE FALSE
    OBVIOUS
  <2>2. state \in {"field_start", "value_lws"} /\ Head(left) = "N" /\ "trailing" \notin flags
    BY <2>1 DEF OnHeadersComplete, Reads
  <2>3. QED
    BY <2>2, EndOfTrailers
<1>7. QED
  BY <1>3, <1>4, <1>5, <1>6, TrailerEndStep, ChunkSizeStep, ChunkDataEndStep DEF OneByte

-----------------------------------------------------------------------------
(* A request as a whole.                                                   *)

HeadStates == {"url_start", "url"} \cup ListStates

\* A head that is not complete has bytes to come, none of them the breaking
\* one.
LEMMA HeadShape ==
  ASSUME NEW r, RequestType(r), NEW cur, InHead(r, cur)
  PROVE  /\ cur \in Seq(Bytes) /\ cur # <<>> /\ Len(Rest(r)) < Len(cur)
         /\ Head(cur) # "X" /\ state \in HeadStates
         /\ InUrlStart(r, cur) => state = "url_start"
         /\ InUrl(r, cur) => state = "url"
         /\ InHeaders(r, cur) => state \in ListStates
<1> DEFINE e == EndOfHead(r)
           t == Rest(r)
           v == AfterUrl(r)
           d == AfterLines(Lined(r), 0, e)
<1>1. /\ t \in Seq(Bytes) /\ e = <<"N">> \o t /\ "N" \in Bytes /\ "V" \in Bytes
      /\ d \in Seq(Bytes) /\ v = <<"V">> \o d /\ cur \in Seq(Bytes)
  BY RestFacts, ByteSets, EncodedFacts DEF EndOfHead, AfterUrl, InHead
<1>2. Len(e) <= Len(d)
  <2>1. e \in Seq(Bytes) /\ Lined(r) \in Seq(AnyLines)
    BY EncodedFacts, LinedFacts
  <2>2. 0 \in 0 .. Len(Lined(r))
    <3> DEFINE hs == Lined(r)
    <3>1. hs \in Seq(AnyLines)
      BY <2>1
    <3> HIDE DEF hs
    <3>2. 0 \in 0 .. Len(hs)
      BY <3>1
    <3>3. QED
      BY <3>2 DEF hs
  <2> HIDE DEF e
  <2>3. QED
    BY <2>1, <2>2, AfterLinesFacts
<1> HIDE DEF e, t, v, d
<1>3. /\ Len(e) = 1 + Len(t) /\ Len(v) = 1 + Len(d) /\ Len(t) \in Nat /\ Len(d) \in Nat
      /\ e \in Seq(Bytes) /\ v \in Seq(Bytes) /\ v # <<>> /\ Head(v) = "V" /\ Len(cur) \in Nat
  BY <1>1, ByteOne
<1>4. Len(t) < Len(e) /\ Len(t) < Len(v) /\ Len(e) \in Nat /\ Len(v) \in Nat
  BY <1>2, <1>3
<1>5. UrlBytes \subseteq Bytes /\ "X" \notin UrlBytes
  BY ByteSets, OtherBytes
<1>6. ASSUME NEW u \in Seq(UrlBytes), cur = u \o v
      PROVE  cur # <<>> /\ Len(t) < Len(cur) /\ Head(cur) # "X"
  <2>1. cur # <<>> /\ Len(v) <= Len(cur) /\ Head(cur) # "X"
    BY <1>3, <1>5, <1>6, ConcatShape
  <2>2. QED
    BY <1>3, <1>4, <2>1
<1>7. CASE InUrlStart(r, cur)
  <2>1. r.url \in Seq(UrlBytes) /\ cur = r.url \o v /\ state = "url_start"
    BY <1>7, RequestFacts DEF InUrlStart, v
  <2>2. cur # <<>> /\ Len(t) < Len(cur) /\ Head(cur) # "X"
    BY <1>6, <2>1
  <2>3. ~InUrl(r, cur)
    BY <2>1 DEF InUrl
  <2>4. ~InHeaders(r, cur)
    BY <2>1 DEF InHeaders, InLines, InFieldStart, InField, InValueStart, InValue, InValueLws
  <2>5. QED
    BY <1>1, <2>1, <2>2, <2>3, <2>4 DEF HeadStates, t
<1>8. CASE InUrl(r, cur)
  <2>1. PICK u \in Seq(UrlBytes) : cur = u \o v
    BY <1>8 DEF InUrl, v
  <2>2. cur # <<>> /\ Len(t) < Len(cur) /\ Head(cur) # "X"
    BY <1>6, <2>1
  <2>3. state = "url"
    BY <1>8 DEF InUrl
  <2>4. ~InUrlStart(r, cur)
    BY <2>3 DEF InUrlStart
  <2>5. ~InHeaders(r, cur)
    BY <2>3 DEF InHeaders, InLines, InFieldStart, InField, InValueStart, InValue, InValueLws
  <2>6. QED
    BY <1>1, <2>2, <2>3, <2>4, <2>5 DEF HeadStates, t
<1>9. CASE InHeaders(r, cur)
  <2>1. ListOf(Lined(r), <<>>, Before, Seen(r), cur, EndOfHead(r))
    BY <1>1, HeadList
  <2>2. InLines(Lined(r), <<>>, Before, Seen(r), cur, EndOfHead(r))
    BY <1>9 DEF InHeaders
  <2>3. cur # <<>> /\ Head(cur) # "X" /\ Len(e) <= Len(cur) /\ state \in ListStates
    BY <2>1, <2>2, ListShape DEF e
  <2>4. Len(t) < Len(cur)
    BY <1>3, <1>4, <2>3
  <2>5. ~InUrlStart(r, cur) /\ ~InUrl(r, cur)
    BY <2>3 DEF InUrlStart, InUrl, ListStates
  <2>6. QED
    BY <1>1, <2>3, <2>4, <2>5 DEF HeadStates, t
<1>10. QED
  BY <1>7, <1>8, <1>9 DEF InHead

\* A byte of the head leads further into it, or ends it.
LEMMA HeadOneByte ==
  ASSUME NEW r, NEW cur, AtRequest(r, cur), InHead(r, cur), OneByte
  PROVE  \/ InHead(r, Tail(cur))' /\ Silent
         \/ Tail(cur) = Rest(r) /\ (ToUpgrade(r) \/ ToRest(r) \/ ToEnd(r))
<1>1. Head(cur) # "X" /\ state \in HeadStates
  BY HeadShape DEF AtRequest
<1>2. ~OnMessageBegin /\ ~ChunkSize /\ ~ChunkDataEnd
  BY <1>1 DEF HeadStates, ListStates, OnMessageBegin, ChunkSize, ChunkDataEnd
<1>3. ~Error
  BY <1>1 DEF Error, Reads, AtRequest
<1>4. ~OnTrailerComplete
  <2>1. SUFFICES ASSUME OnTrailerComplete PROVE FALSE
    OBVIOUS
  <2>2. state \in {"field_start", "value_lws"} /\ Head(left) = "N" /\ "trailing" \in flags
    BY <2>1 DEF OnTrailerComplete, Reads
  <2>3. flags = Marks(r)
    BY <2>2, EndOfHeaders DEF AtEndOfHead
  <2>4. QED
    BY <2>2, <2>3 DEF Marks
<1>5. QED
  BY <1>2, <1>3, <1>4, HeadStep, HeadEndStep DEF OneByte

\* What only moves the mark or the chunk leaves a request as it is.
StillParser ==
  state' = state /\ js' = js /\ flags' = flags /\ toRead' = toRead /\ Behind' = Behind

\* The place in the head does not depend on how far the chunk goes.
LEMMA HeadStill ==
  ASSUME NEW r, NEW cur, InHead(r, cur), StillParser
  PROVE  InHead(r, cur)'
<1>1. InUrlStart(r, cur) => InUrlStart(r, cur)'
  BY DEF InUrlStart, StillParser
<1>2. InUrl(r, cur) => InUrl(r, cur)'
  BY DEF InUrl, StillParser
<1>3. ASSUME InHeaders(r, cur)
      PROVE  InHeaders(r, cur)'
  <2>1. InLines(Lined(r), <<>>, Before, Seen(r), cur, EndOfHead(r))
    BY <1>3 DEF InHeaders
  <2>2. InLines(Lined(r), <<>>, Before, Seen(r), cur, EndOfHead(r))'
    BY <2>1, StillList DEF StillParser
  <2>3. QED
    BY <1>3, <2>2 DEF InHeaders, StillParser
<1>4. QED
  BY <1>1, <1>2, <1>3 DEF InHead, StillParser

\* Nor does the place in the rest.
LEMMA RestStill ==
  ASSUME NEW r, NEW cur, InRest(r, cur), StillParser
  PROVE  InRest(r, cur)'
<1>1. InBody(r, cur) => InBody(r, cur)'
  BY DEF InBody, HeadersKept, StillParser
<1>2. ASSUME NEW q \in 0 .. Len(r.body)
      PROVE  InChunk(r, cur, q) => InChunk(r, cur, q)'
  BY DEF InChunk, HeadersKept, StillParser
<1>3. ASSUME InTrailers(r, cur)
      PROVE  InTrailers(r, cur)'
  <2>1. InLines(r.trailers, Joined(Lined(r)), Trailing, Trailing, cur, <<"N">>)
    BY <1>3 DEF InTrailers
  <2>2. InLines(r.trailers, Joined(Lined(r)), Trailing, Trailing, cur, <<"N">>)'
    BY <2>1, StillList DEF StillParser
  <2>3. QED
    BY <1>3, <2>2 DEF InTrailers, StillParser
<1>4. QED
  BY <1>1, <1>2, <1>3 DEF InRest, StillParser

\* The end of execute within a request.
Flushes ==
  /\ js' = Flush(js) /\ pending' = Null /\ state' = state /\ flags' = flags
  /\ toRead' = toRead
Flushed ==
  /\ js' \in Handlers /\ js'.incoming \in Messages
  /\ js'.incoming.upgrade = js.incoming.upgrade
  /\ js'.announced = js.announced /\ js'.finished = js.finished

\* The end of a chunk hands over what is behind the mark and keeps the place in
\* the head.
LEMMA HeadFlushed ==
  ASSUME NEW r, RequestType(r), NEW cur, InHead(r, cur), ParserTyped, running, Flushes
  PROVE  InHead(r, cur)' /\ Flushed
<1>1. /\ js \in Handlers /\ js.incoming \in Messages
      /\ state \in Marked => pending \in Seq(Bytes) /\ Behind = pending /\ pending # Null
      /\ state \notin Marked => pending = Null /\ Behind = <<>>
      /\ Behind' = <<>> /\ cur \in Seq(Bytes) /\ js.incoming.body = <<>>
  BY PendingTyped, ParserAssumption DEF Flushes, Behind, InHead
<1>2. CASE InUrlStart(r, cur)
  <2>1. js' = js /\ Behind' = Behind
    BY <1>1, <1>2 DEF InUrlStart, Flushes, Flush, Marked
  <2>2. InHead(r, cur)'
    BY <2>1, HeadStill DEF StillParser, Flushes
  <2>3. QED
    BY <1>1, <2>1, <2>2 DEF Flushed
<1>3. CASE InUrl(r, cur)
  <2>1. state = "url" /\ pending \in Seq(Bytes) /\ Behind = pending /\ pending # Null
    BY <1>1, <1>3 DEF InUrl, Marked
  <2>2. js' = onURL(js, pending)
    BY <2>1 DEF Flushes, Flush
  <2>3. /\ js' \in Handlers /\ js'.incoming \in Messages
      /\ js'.incoming.url = js.incoming.url \o pending
      /\ js'.incoming.headers = js.incoming.headers /\ js'.incoming.body = js.incoming.body
      /\ js'.incoming.upgrade = js.incoming.upgrade
      /\ js'.field = js.field /\ js'.value = js.value
      /\ js'.announced = js.announced /\ js'.finished = js.finished
    BY <1>1, <2>1, <2>2, UrlHandler
  <2>4. PICK u \in Seq(UrlBytes) : /\ r.url = js.incoming.url \o (Behind \o u)
                                   /\ cur = u \o AfterUrl(r)
    BY <1>3 DEF InUrl
  <2>5. r.url = js'.incoming.url \o (Behind' \o u)
    <3> DEFINE a == js.incoming.url
               b == pending
    <3>1. a \in Seq(Bytes)
      BY <1>1, MessagesType
    <3>2. u \in Seq(Bytes) /\ b \in Seq(Bytes)
      BY <2>1, ByteSets, SeqOfSubset
    <3>3. <<>> \o u = u
      BY <3>2, ConcatEmptySeq
    <3> HIDE DEF a, b
    <3>4. (a \o b) \o u = a \o (b \o u)
      BY <3>1, <3>2, ByteAssociate DEF Associative
    <3>5. QED
      BY <1>1, <2>1, <2>3, <2>4, <3>3, <3>4 DEF a, b
  <2>6. InUrl(r, cur)'
    BY <1>3, <2>3, <2>4, <2>5 DEF InUrl, Flushes
  <2>7. QED
    BY <1>1, <2>3, <2>6 DEF InHead, Flushed
<1>4. CASE InHeaders(r, cur)
  <2>1. ListOf(Lined(r), <<>>, Before, Seen(r), cur, EndOfHead(r))
    BY <1>1, HeadList
  <2>2. InLines(Lined(r), <<>>, Before, Seen(r), cur, EndOfHead(r)) /\ js.incoming.url = r.url
    BY <1>4 DEF InHeaders
  <2>3. /\ InLines(Lined(r), <<>>, Before, Seen(r), cur, EndOfHead(r))' /\ SameMessage(js, js')
        /\ js' \in Handlers /\ js'.incoming \in Messages
    BY <2>1, <2>2, FlushList DEF Flushes
  <2>4. InHeaders(r, cur)' /\ js'.incoming.body = <<>>
    BY <1>1, <2>2, <2>3 DEF InHeaders, SameMessage
  <2>5. QED
    BY <1>1, <2>3, <2>4 DEF InHead, Flushed, SameMessage
<1>5. QED
  BY <1>2, <1>3, <1>4 DEF InHead

\* The same in the rest, where a trailer's field or value may be cut.
LEMMA RestFlushed ==
  ASSUME NEW r, RequestType(r), NEW cur, InRest(r, cur), ParserTyped, running, Flushes
  PROVE  InRest(r, cur)' /\ Flushed
<1>1. /\ js \in Handlers /\ js.incoming \in Messages
      /\ state \notin Marked => pending = Null /\ Behind = <<>>
      /\ Behind' = <<>> /\ cur \in Seq(Bytes) /\ Len(cur) <= Len(Rest(r))
      /\ js.incoming.url = r.url
  BY PendingTyped DEF Flushes, Behind, InRest
<1>2. CASE InTrailers(r, cur)
  <2>1. ListOf(r.trailers, Joined(Lined(r)), Trailing, Trailing, cur, <<"N">>)
    BY <1>1, TrailerList
  <2>2. /\ InLines(r.trailers, Joined(Lined(r)), Trailing, Trailing, cur, <<"N">>)
        /\ js.incoming.body = r.body
    BY <1>2 DEF InTrailers
  <2>3. /\ InLines(r.trailers, Joined(Lined(r)), Trailing, Trailing, cur, <<"N">>)'
        /\ SameMessage(js, js') /\ js' \in Handlers /\ js'.incoming \in Messages
    BY <2>1, <2>2, FlushList DEF Flushes
  <2>4. InTrailers(r, cur)' /\ js'.incoming.url = r.url
    BY <1>1, <1>2, <2>2, <2>3 DEF InTrailers, SameMessage
  <2>5. QED
    BY <1>1, <2>3, <2>4 DEF InRest, Flushed, SameMessage
<1>3. CASE ~InTrailers(r, cur)
  <2>1. state \in {"chunk_size", "body", "chunk_data_end"}
    BY <1>3, RestShape DEF InRest
  <2>2. js' = js /\ Behind' = Behind
    BY <1>1, <2>1 DEF Flushes, Flush, Marked
  <2>3. InRest(r, cur)'
    BY <2>2, RestStill DEF StillParser, Flushes
  <2>4. QED
    BY <1>1, <2>2, <2>3 DEF Flushed
<1>4. QED
  BY <1>2, <1>3

-----------------------------------------------------------------------------
(* The connection: m requests are complete.                                *)

Encodings == [i \in 1 .. Len(sent) |-> Encoded(sent[i])]
Ending == protocol \o (IF broken THEN <<"X">> ELSE <<>>)
After(m) == FlatFrom(Encodings, m) \o Ending

Heads(m) == [i \in 1 .. m |-> HeadOf(sent[i])]
Wholes(m) == [i \in 1 .. m |-> MessageOf(sent[i])]
NotUpgraded == js.incoming # Null => ~js.incoming.upgrade

Peered ==
  /\ sent \in Seq(Requests) /\ Len(sent) <= MaxRequests
  /\ \A k \in 1 .. Len(sent) - 1 : sent[k].kind \notin {"upgrade", "close"}
  /\ protocol \in Seq({"p"})
  /\ protocol # <<>> => sent # <<>> /\ sent[Len(sent)].kind = "upgrade"
  /\ broken => (sent # <<>> => sent[Len(sent)].kind # "upgrade")
  /\ broken \in BOOLEAN

\* The parser is between two requests, or waits for the first.
Between(m) ==
  /\ state \in {"start", "dead"}
  /\ state = "dead" => /\ m = Len(sent) /\ m > 0 /\ sent[m].kind = "close"
                       /\ js.incoming # Null
  /\ state = "start" /\ m > 0 => sent[m].kind # "close"
  /\ m > 0 => sent[m].kind # "upgrade"
  /\ "upgrade" \notin flags
  /\ ondata /\ NotUpgraded
  /\ left = After(m)
  /\ js.announced = Heads(m) /\ js.finished = Wholes(m)

\* The parser is in request m + 1, cur of which is still to come.
Within(m, cur) ==
  /\ left = cur \o After(m + 1)
  /\ ondata /\ js.incoming # Null /\ ~js.incoming.upgrade /\ js.finished = Wholes(m)
  /\ \/ InHead(sent[m + 1], cur) /\ js.announced = Heads(m)
     \/ InRest(sent[m + 1], cur) /\ js.announced = Heads(m + 1)

\* An upgrade request has arrived: it is announced when execute returns.
Switched ==
  /\ sent # <<>> /\ sent[Len(sent)].kind = "upgrade"
  /\ state = "start" /\ "upgrade" \in flags
  /\ left \in Seq({"p"}) /\ Len(left) <= Len(protocol)
  /\ js.finished = Wholes(Len(sent) - 1)
  /\ \/ /\ ondata /\ running
        /\ js.incoming # Null /\ js.incoming.upgrade
        /\ js.incoming.url = sent[Len(sent)].url
        /\ js.incoming.headers = Joined(Lined(sent[Len(sent)]))
        /\ js.announced = Heads(Len(sent) - 1)
     \/ ~ondata /\ ~running /\ js.announced = Heads(Len(sent))

Failed ==
  /\ state = "error" /\ broken /\ left = <<>>
  /\ ondata /\ NotUpgraded
  /\ js.announced = Heads(Len(sent)) /\ js.finished = Wholes(Len(sent))

Parsed ==
  \/ \E m \in 0 .. Len(sent) : Between(m)
  \/ \E m \in 0 .. Len(sent) - 1 : \E cur \in Seq(Bytes) : Within(m, cur)
  \/ Switched
  \/ Failed

\* What a byte or a chunk may do to the variables, whatever the parser reads.
Framework ==
  /\ left \in Seq(Bytes) /\ chunk \in 0 .. Len(left)
  /\ running \in BOOLEAN /\ ondata \in BOOLEAN
  /\ state \in States
  /\ flags \subseteq {"chunked", "upgrade", "close", "trailing"}
  /\ toRead \in 0 .. 9
  /\ ~running => chunk = 0
  /\ connections \in 1 .. MaxConnections

Held ==
  /\ js \in Handlers
  /\ pending \in (IF running /\ state \in Marked THEN Seq(Bytes) ELSE {Null})

Inv == Framework /\ Held /\ Peered /\ Parsed

\* The heads and messages of one more request.
LEMMA NextHead ==
  ASSUME NEW m \in Nat
  PROVE  /\ Append(Heads(m), HeadOf(sent[m + 1])) = Heads(m + 1)
         /\ Append(Wholes(m), MessageOf(sent[m + 1])) = Wholes(m + 1)
<1>1. Append(Heads(m), HeadOf(sent[m + 1])) = Heads(m + 1)
  <2> DEFINE F == [i \in 1 .. m + 1 |-> HeadOf(sent[i])]
             T == {F[i] : i \in 1 .. m + 1}
             G == [i \in 1 .. m |-> F[i]]
             x == F[m + 1]
  <2>1. Heads(m + 1) = F /\ x = HeadOf(sent[m + 1])
    BY DEF Heads
  <2>2. Heads(m) = G
    BY DEF Heads
  <2>3. DOMAIN F = 1 .. m + 1
    OBVIOUS
  <2> HIDE DEF F
  <2>4. \A i \in 1 .. m + 1 : F[i] \in T
    OBVIOUS
  <2>5. F = [i \in 1 .. m + 1 |-> F[i]]
    BY <2>1 DEF F
  <2> HIDE DEF T
  <2>6. F \in Seq(T) /\ Len(F) = m + 1
    BY <2>3, <2>4, <2>5
  <2>7. G \in Seq(T) /\ Len(G) = m /\ \A i \in 1 .. m : G[i] = F[i]
    BY <2>4
  <2>8. x \in T /\ m + 1 \in 1 .. m + 1
    BY <2>4
  <2> HIDE DEF G, x
  <2>9. \A i \in 1 .. Len(G) : F[i] = G[i]
    BY <2>7
  <2>10. Len(F) = Len(G) + 1 /\ F[Len(G) + 1] = x
    BY <2>6, <2>7 DEF x
  <2>11. F = Append(G, x)
    BY <2>6, <2>7, <2>8, <2>9, <2>10, AppendPointwise
  <2>12. QED
    BY <2>1, <2>2, <2>11
<1>2. Append(Wholes(m), MessageOf(sent[m + 1])) = Wholes(m + 1)
  <2> DEFINE F == [i \in 1 .. m + 1 |-> MessageOf(sent[i])]
             T == {F[i] : i \in 1 .. m + 1}
             G == [i \in 1 .. m |-> F[i]]
             x == F[m + 1]
  <2>1. Wholes(m + 1) = F /\ x = MessageOf(sent[m + 1])
    BY DEF Wholes
  <2>2. Wholes(m) = G
    BY DEF Wholes
  <2>3. DOMAIN F = 1 .. m + 1
    OBVIOUS
  <2> HIDE DEF F
  <2>4. \A i \in 1 .. m + 1 : F[i] \in T
    OBVIOUS
  <2>5. F = [i \in 1 .. m + 1 |-> F[i]]
    BY <2>1 DEF F
  <2> HIDE DEF T
  <2>6. F \in Seq(T) /\ Len(F) = m + 1
    BY <2>3, <2>4, <2>5
  <2>7. G \in Seq(T) /\ Len(G) = m /\ \A i \in 1 .. m : G[i] = F[i]
    BY <2>4
  <2>8. x \in T /\ m + 1 \in 1 .. m + 1
    BY <2>4
  <2> HIDE DEF G, x
  <2>9. \A i \in 1 .. Len(G) : F[i] = G[i]
    BY <2>7
  <2>10. Len(F) = Len(G) + 1 /\ F[Len(G) + 1] = x
    BY <2>6, <2>7 DEF x
  <2>11. F = Append(G, x)
    BY <2>6, <2>7, <2>8, <2>9, <2>10, AppendPointwise
  <2>12. QED
    BY <2>1, <2>2, <2>11
<1>3. QED
  BY <1>1, <1>2

\* The requests on the wire.
LEMMA EncodingsType ==
  ASSUME Peered
  PROVE  /\ Encodings \in Seq(Seq(Bytes)) /\ Len(Encodings) = Len(sent) /\ Len(sent) \in Nat
         /\ \A k \in 1 .. Len(sent) : /\ RequestType(sent[k])
                                      /\ Encodings[k] = Encoded(sent[k])
                                      /\ Encoded(sent[k]) \in Seq(Bytes)
<1>1. sent \in Seq(Requests)
  BY DEF Peered
<1>2. Len(sent) \in Nat /\ \A k \in 1 .. Len(sent) : sent[k] \in Requests
  BY <1>1
<1>3. \A k \in 1 .. Len(sent) : RequestType(sent[k])
  BY <1>2, ParserAssumption
<1>4. \A k \in 1 .. Len(sent) : Encoded(sent[k]) \in Seq(Bytes)
  <2>1. TAKE k \in 1 .. Len(sent)
  <2>2. RequestType(sent[k])
    BY <1>3
  <2>3. QED
    BY <2>2, EncodedFacts
<1>5. Encodings \in Seq(Seq(Bytes)) /\ Len(Encodings) = Len(sent)
  <2> DEFINE n == Len(sent)
             B == Seq(Bytes)
  <2>1. n \in Nat /\ \A k \in 1 .. n : Encoded(sent[k]) \in B
    BY <1>2, <1>4
  <2>2. Encodings = [i \in 1 .. n |-> Encoded(sent[i])]
    BY DEF Encodings
  <2> HIDE DEF n, B
  <2>3. Encodings \in Seq(B) /\ Len(Encodings) = n
    BY <2>1, <2>2
  <2>4. QED
    BY <2>3 DEF n, B
<1>6. QED
  BY <1>2, <1>3, <1>4, <1>5 DEF Encodings

\* What follows the last request: the new protocol, a breaking byte, or
\* nothing.
LEMMA EndingFacts ==
  ASSUME Peered
  PROVE  /\ Ending \in Seq(Bytes)
         /\ (sent # <<>> => sent[Len(sent)].kind # "upgrade") => 
              /\ protocol = <<>>
              /\ broken => Ending = <<"X">>
              /\ ~broken => Ending = <<>>
         /\ sent # <<>> /\ sent[Len(sent)].kind = "upgrade" => Ending = protocol
<1>1. {"p"} \subseteq Bytes /\ "X" \in Bytes
  BY ByteSets
<1>2. protocol \in Seq({"p"})
  BY DEF Peered
<1>3. protocol \in Seq(Bytes)
  BY <1>1, <1>2, SeqOfSubset
<1>4. <<"X">> \in Seq(Bytes) /\ <<>> \in Seq(Bytes)
  BY <1>1
<1>5. /\ protocol \o <<>> = protocol
      /\ <<>> \o <<"X">> = <<"X">> /\ <<>> \o <<>> = <<>>
  <2> DEFINE x == <<"X">>
             z == <<>>
  <2>1. x \in Seq(Bytes) /\ z \in Seq(Bytes)
    BY <1>4
  <2> HIDE DEF x
  <2>2. <<>> \o x = x /\ protocol \o <<>> = protocol /\ <<>> \o z = z
    BY <1>3, <2>1, ConcatEmptySeq
  <2>3. QED
    BY <2>2 DEF x
<1>6. Ending \in Seq(Bytes)
  <2> DEFINE e == IF broken THEN <<"X">> ELSE <<>>
  <2>1. e \in Seq(Bytes)
    BY <1>4
  <2>2. Ending = protocol \o e
    BY DEF Ending
  <2> HIDE DEF e
  <2>3. QED
    BY <1>3, <2>1, <2>2, ByteConcat
<1>7. ASSUME sent # <<>> => sent[Len(sent)].kind # "upgrade"
      PROVE  protocol = <<>> /\ (broken => Ending = <<"X">>) /\ (~broken => Ending = <<>>)
  <2>1. protocol = <<>>
    BY <1>7 DEF Peered
  <2>2. QED
    BY <1>5, <2>1 DEF Ending
<1>8. ASSUME sent # <<>>, sent[Len(sent)].kind = "upgrade"
      PROVE  Ending = protocol
  <2>1. ~broken
    BY <1>8 DEF Peered
  <2>2. QED
    BY <1>5, <2>1 DEF Ending
<1>9. QED
  BY <1>6, <1>7, <1>8

\* What follows m requests is the next one, or the ending.
LEMMA AfterFacts ==
  ASSUME Peered, NEW m \in 0 .. Len(sent)
  PROVE  /\ After(m) \in Seq(Bytes)
         /\ m = Len(sent) => After(m) = Ending
         /\ m < Len(sent) => After(m) = Encoded(sent[m + 1]) \o After(m + 1)
<1> DEFINE f == Encodings
           n == Len(sent)
<1>1. f \in Seq(Seq(Bytes)) /\ Len(f) = n /\ n \in Nat /\ m \in 0 .. n
      /\ \A k \in 1 .. n : f[k] = Encoded(sent[k]) /\ Encoded(sent[k]) \in Seq(Bytes)
  BY EncodingsType
<1>2. Ending \in Seq(Bytes)
  BY EndingFacts
<1>3. After(m) = FlatFrom(f, m) \o Ending /\ After(m + 1) = FlatFrom(f, m + 1) \o Ending
  BY DEF After
<1> HIDE DEF f, n
<1>4. /\ FlatFrom(f, m) \in Seq(Bytes)
      /\ m = n => FlatFrom(f, m) = <<>>
      /\ m < n => FlatFrom(f, m) = f[m + 1] \o FlatFrom(f, m + 1)
  <2>1. m \in 0 .. Len(f)
    BY <1>1
  <2> DEFINE B == Bytes
  <2> HIDE DEF B
  <2>2. f \in Seq(Seq(B))
    BY <1>1 DEF B
  <2>3. /\ FlatFrom(f, m) \in Seq(B)
        /\ m = Len(f) => FlatFrom(f, m) = <<>>
        /\ m < Len(f) => FlatFrom(f, m) = f[m + 1] \o FlatFrom(f, m + 1)
    BY <2>1, <2>2, FlatFromFacts
  <2>4. QED
    BY <1>1, <2>3 DEF B
<1>5. After(m) \in Seq(Bytes)
  BY <1>2, <1>3, <1>4, ByteConcat
<1>6. m = n => After(m) = Ending
  <2>1. <<>> \o Ending = Ending
    BY <1>2, ConcatEmptySeq
  <2>2. QED
    BY <1>3, <1>4, <2>1
<1>7. ASSUME m < n
      PROVE  After(m) = Encoded(sent[m + 1]) \o After(m + 1)
  <2> DEFINE a == Encoded(sent[m + 1])
             b == FlatFrom(f, m + 1)
  <2>1. m + 1 \in 1 .. n /\ m + 1 \in 0 .. Len(f)
    BY <1>1, <1>7
  <2>2. a \in Seq(Bytes) /\ f[m + 1] = a
    BY <1>1, <2>1
  <2>3. b \in Seq(Bytes)
    <3> DEFINE B == Bytes
    <3> HIDE DEF B
    <3>1. f \in Seq(Seq(B))
      BY <1>1 DEF B
    <3>2. FlatFrom(f, m + 1) \in Seq(B)
      BY <2>1, <3>1, FlatFromFacts
    <3>3. QED
      BY <3>2 DEF B
  <2> HIDE DEF a, b
  <2>4. (a \o b) \o Ending = a \o (b \o Ending)
    BY <1>2, <2>2, <2>3, ByteAssociate DEF Associative
  <2>5. FlatFrom(f, m) = a \o b
    BY <1>4, <1>7, <2>2 DEF b
  <2>6. QED
    BY <1>3, <2>4, <2>5 DEF a, b
<1>8. QED
  BY <1>5, <1>6, <1>7 DEF n

-----------------------------------------------------------------------------
(* One byte of the parser.                                                 *)

\* What every step that reads a byte does.
LEMMA OneByteReads ==
  ASSUME OneByte
  PROVE  /\ running /\ chunk > 0 /\ left' = Tail(left) /\ chunk' = chunk - 1
         /\ running' = running /\ ondata' = ondata /\ sent' = sent /\ broken' = broken
         /\ protocol' = protocol /\ connections' = connections
<1>1. ASSUME NEW bytes, Reads(bytes)
      PROVE  /\ running /\ chunk > 0 /\ left' = Tail(left) /\ chunk' = chunk - 1
             /\ running' = running /\ ondata' = ondata /\ sent' = sent /\ broken' = broken
             /\ protocol' = protocol /\ connections' = connections
  BY <1>1 DEF Reads, peerVars
<1>2. \E bytes : Reads(bytes)
  BY DEF OneByte, OnMessageBegin, HeadByte, ListByte, MarkUrl, Mark, MarkField, MarkValue,
         SkipSpace, MoreBytes, More, OnUrl, OnHeaderField, OnHeaderValue, OnHeadersComplete,
         OnTrailerComplete, ChunkSize, ChunkDataEnd, Error
<1>3. QED
  BY <1>1, <1>2

\* The history of the peer, while it sends nothing.
PeerStill == sent' = sent /\ broken' = broken /\ protocol' = protocol

\* What the peer has sent does not change while the parser reads.
LEMMA PeerKept ==
  ASSUME PeerStill
  PROVE  /\ Peered => Peered'
         /\ \A m : /\ After(m)' = After(m)
                   /\ Heads(m)' = Heads(m) /\ Wholes(m)' = Wholes(m)
<1>1. Peered => Peered'
  BY DEF Peered, PeerStill
<1>2. ASSUME NEW m
      PROVE  After(m)' = After(m) /\ Heads(m)' = Heads(m) /\ Wholes(m)' = Wholes(m)
  BY DEF After, Heads, Wholes, Encodings, Ending, PeerStill
<1>3. QED
  BY <1>1, <1>2

\* The number of requests sent is a number.
LEMMA LengthNat == Peered => Len(sent) \in Nat
BY EncodingsType

\* Before the last request's end there is its "M" to come.
LEMMA StartOfRequest ==
  ASSUME Peered, NEW m \in 0 .. Len(sent), m < Len(sent)
  PROVE  /\ RequestType(sent[m + 1]) /\ m \in 0 .. Len(sent) - 1
         /\ After(m) # <<>> /\ Head(After(m)) = "M"
         /\ sent[m + 1].url \o AfterUrl(sent[m + 1]) \in Seq(Bytes)
         /\ Tail(After(m)) = (sent[m + 1].url \o AfterUrl(sent[m + 1])) \o After(m + 1)
<1>1. Len(sent) \in Nat
  BY LengthNat
<1>2. m + 1 \in 1 .. Len(sent) /\ m + 1 \in 0 .. Len(sent) /\ m \in 0 .. Len(sent) - 1
  BY <1>1
<1>3. RequestType(sent[m + 1])
  BY <1>2, EncodingsType
<1> DEFINE r == sent[m + 1]
           a == r.url \o AfterUrl(r)
           b == After(m + 1)
<1>4. a \in Seq(Bytes)
  <2> DEFINE u == r.url
             v == AfterUrl(r)
  <2>1. u \in Seq(Bytes) /\ v \in Seq(Bytes)
    BY <1>3, RequestFacts, AfterUrlFacts
  <2> HIDE DEF u, v
  <2>2. u \o v \in Seq(Bytes)
    BY <2>1, ByteConcat
  <2>3. QED
    BY <2>2 DEF u, v
<1>5. b \in Seq(Bytes) /\ After(m) = Encoded(r) \o b
  BY <1>2, AfterFacts
<1>6. Encoded(r) = <<"M">> \o a /\ "M" \in Bytes
  BY <1>3, EncodedFacts, ByteSets
<1>7. After(m) = <<"M">> \o (a \o b)
  <2> DEFINE x == <<"M">>
  <2>1. x \in Seq(Bytes)
    BY <1>6
  <2>2. Encoded(r) = x \o a
    BY <1>6
  <2> HIDE DEF x, a, b
  <2>3. (x \o a) \o b = x \o (a \o b)
    BY <1>4, <1>5, <2>1, ByteAssociate DEF Associative
  <2>4. QED
    BY <1>5, <2>2, <2>3 DEF x
<1> HIDE DEF a, b
<1>8. a \o b \in Seq(Bytes)
  BY <1>4, <1>5, ByteConcat
<1> DEFINE c == a \o b
<1> HIDE DEF c
<1>9. c \in Seq(Bytes) /\ After(m) = <<"M">> \o c
  BY <1>7, <1>8 DEF c
<1>10. After(m) # <<>> /\ Head(After(m)) = "M" /\ Tail(After(m)) = c
  BY <1>6, <1>9, ByteOne
<1>11. QED
  BY <1>2, <1>3, <1>4, <1>10 DEF a, b, c

\* Between two requests: the first byte of the next one, or one out of place.
LEMMA BetweenByte ==
  ASSUME Framework, Held, Peered, NEW m \in 0 .. Len(sent), Between(m), OneByte
  PROVE  Held' /\ Parsed'
<1>1. /\ state \in {"start", "dead"} /\ (state = "dead" => m = Len(sent))
      /\ m > 0 => sent[m].kind # "upgrade"
      /\ "upgrade" \notin flags /\ ondata /\ left = After(m)
      /\ js.announced = Heads(m) /\ js.finished = Wholes(m) /\ NotUpgraded
  BY DEF Between
<1>2. /\ running /\ left' = Tail(left) /\ running' = running /\ ondata' = ondata /\ PeerStill
      /\ chunk > 0
  BY OneByteReads DEF PeerStill
<1>3. js \in Handlers /\ pending = Null
  BY <1>1 DEF Held, Marked
<1>4. Len(sent) \in Nat /\ (m < Len(sent) \/ m = Len(sent))
  BY LengthNat
<1>5. /\ \A k : /\ After(k)' = After(k)
                /\ Heads(k)' = Heads(k) /\ Wholes(k)' = Wholes(k)
      /\ sent' = sent
  BY <1>2, PeerKept DEF PeerStill
<1>6. left # <<>>
  <2>1. Len(left) > 0 /\ left \in Seq(Bytes)
    BY <1>2 DEF Framework
  <2>2. QED
    BY <2>1
<1>7. CASE m = Len(sent)
  <2>1. sent # <<>> => sent[Len(sent)].kind # "upgrade"
    <3>1. sent # <<>> => Len(sent) > 0
      BY DEF Peered
    <3>2. QED
      BY <1>1, <1>7, <3>1
  <2>2. left = Ending /\ (broken => Ending = <<"X">>) /\ (~broken => Ending = <<>>)
    BY <1>1, <1>7, <2>1, AfterFacts, EndingFacts
  <2>3. broken /\ left = <<"X">>
    BY <1>6, <2>2 DEF Peered
  <2>4. Head(left) = "X" /\ Tail(left) = <<>>
    BY <2>3
  <2>5. Error
    BY <1>1, <2>4, OtherBytes DEF OneByte, OnMessageBegin, HeadByte, ListByte, MarkUrl, Mark, MarkField,
         MarkValue, SkipSpace, MoreBytes, More, OnUrl, OnHeaderField, OnHeaderValue, OnHeadersComplete,
         OnTrailerComplete, ChunkSize, ChunkDataEnd, Reads
  <2>6. state' = "error" /\ pending' = Null /\ js' = js
    BY <2>5 DEF Error
  <2>7. Failed'
    BY <1>1, <1>2, <1>5, <1>7, <2>3, <2>4, <2>6 DEF Failed, NotUpgraded, PeerStill
  <2>8. Held'
    BY <1>3, <2>6 DEF Held, Marked
  <2>9. QED
    BY <2>7, <2>8 DEF Parsed
<1>8. CASE m < Len(sent)
  <2> DEFINE r == sent[m + 1]
             cur == r.url \o AfterUrl(r)
  <2>1. /\ RequestType(r) /\ m \in 0 .. Len(sent) - 1 /\ Head(left) = "M"
        /\ cur \in Seq(Bytes) /\ Tail(left) = cur \o After(m + 1)
    BY <1>1, <1>8, StartOfRequest
  <2>2. state = "start"
    BY <1>1, <1>4, <1>8
  <2>3. OnMessageBegin
    BY <2>1, <2>2 DEF OneByte, HeadByte, ListByte, MarkUrl, Mark, MarkField,
         MarkValue, SkipSpace, MoreBytes, More, OnUrl, OnHeaderField, OnHeaderValue, OnHeadersComplete,
         OnTrailerComplete, ChunkSize, ChunkDataEnd, Error, Reads
  <2>4. /\ state' = "url_start" /\ flags' = {} /\ toRead' = 0 /\ pending' = pending
        /\ js' = onMessageBegin(js)
    BY <2>3 DEF OnMessageBegin
  <2>5. /\ js' \in Handlers /\ js'.incoming \in Messages /\ js'.incoming = NoIncoming
        /\ js'.field = Null /\ js'.value = Null
        /\ js'.announced = js.announced /\ js'.finished = js.finished
    BY <1>3, <2>4, BeginHandler
  <2>6. /\ js'.incoming.url = <<>> /\ js'.incoming.headers = <<>> /\ js'.incoming.body = <<>>
        /\ ~js'.incoming.upgrade /\ js'.incoming # Null
    <3>1. js'.incoming # Null
      <4>1. Null \notin Messages
        BY ParserAssumption
      <4>2. QED
        BY <2>5, <4>1
    <3>2. /\ js'.incoming.url = <<>> /\ js'.incoming.headers = <<>>
          /\ js'.incoming.body = <<>> /\ js'.incoming.upgrade = FALSE
      BY <2>5 DEF NoIncoming
    <3>3. QED
      BY <3>1, <3>2
  <2>7. PICK q, c : q = r /\ c = cur
    OBVIOUS
  <2>8. InUrlStart(q, c)'
    BY <2>4, <2>5, <2>6, <2>7 DEF InUrlStart
  <2>9. InHead(q, c)' /\ sent'[m + 1] = q
    BY <1>5, <2>1, <2>6, <2>7, <2>8 DEF InHead
  <2>10. left' = c \o After(m + 1)'
    <3>1. After(m + 1)' = After(m + 1)
      BY <1>5
    <3>2. QED
      BY <1>2, <2>1, <2>7, <3>1
  <2>11. Within(m, c)'
    <3>1. js'.announced = Heads(m)' /\ js'.finished = Wholes(m)' /\ ondata'
      BY <1>1, <1>2, <1>5, <2>5
    <3>2. QED
      BY <2>6, <2>9, <2>10, <3>1 DEF Within
  <2>12. c \in Seq(Bytes) /\ m \in 0 .. Len(sent') - 1
    BY <1>5, <2>1, <2>7
  <2>13. Held'
    BY <1>3, <2>4, <2>5 DEF Held, Marked
  <2>14. QED
    BY <2>11, <2>12, <2>13 DEF Parsed
<1>9. QED
  BY <1>4, <1>7, <1>8

\* What holds before a step of the parser within request m + 1.
Inside(m, r, w) ==
  /\ Peered /\ m \in 0 .. Len(sent) - 1 /\ r = sent[m + 1] /\ RequestType(r)
  /\ w = After(m + 1) /\ w \in Seq(Bytes)
  /\ m \in Nat /\ m + 1 \in 0 .. Len(sent) /\ m + 1 \in 1 .. Len(sent)
  /\ ondata /\ js.finished = Wholes(m) /\ ~js.incoming.upgrade
  /\ PeerStill /\ ondata' = ondata

\* A byte that leads further into a request leaves the parser within it.
LEMMA StaysWithin ==
  ASSUME NEW m, NEW r, NEW w, NEW c \in Seq(Bytes), Inside(m, r, w), left' = c \o w,
         ParserTyped', ~js'.incoming.upgrade, js'.finished = js.finished,
         \/ InHead(r, c)' /\ js'.announced = Heads(m)
         \/ InRest(r, c)' /\ js'.announced = Heads(m + 1)
  PROVE  Held' /\ Parsed'
<1>1. /\ \A k : /\ After(k)' = After(k)
                /\ Heads(k)' = Heads(k) /\ Wholes(k)' = Wholes(k)
      /\ sent' = sent
  BY PeerKept DEF Inside, PeerStill
<1>2. Held'
  BY DEF ParserTyped, Held
<1>3. js'.incoming # Null
  <2>1. js'.incoming \in Messages
    BY DEF ParserTyped
  <2>2. Null \notin Messages
    BY ParserAssumption
  <2>3. QED
    BY <2>1, <2>2
<1>4. left' = c \o After(m + 1)'
  <2>1. After(m + 1)' = After(m + 1) /\ w = After(m + 1)
    BY <1>1 DEF Inside
  <2>2. QED
    BY <2>1
<1>5. r = sent'[m + 1] /\ js'.finished = Wholes(m)' /\ ondata'
  BY <1>1 DEF Inside
<1>6. \/ InHead(r, c)' /\ js'.announced = Heads(m)'
      \/ InRest(r, c)' /\ js'.announced = Heads(m + 1)'
  <2>1. Heads(m)' = Heads(m) /\ Heads(m + 1)' = Heads(m + 1)
    BY <1>1
  <2>2. QED
    BY <2>1
<1>7. Within(m, c)'
  BY <1>3, <1>4, <1>5, <1>6 DEF Within
<1>8. m \in 0 .. Len(sent') - 1
  BY <1>1 DEF Inside
<1>9. QED
  BY <1>2, <1>7, <1>8 DEF Parsed

\* A byte that completes a request leaves the parser between two.
LEMMA EndsBetween ==
  ASSUME NEW m, NEW r, NEW w, Inside(m, r, w), left' = w, Completes(r),
         js'.announced = Heads(m + 1)
  PROVE  Held' /\ Parsed'
<1>1. /\ \A k : /\ After(k)' = After(k)
                /\ Heads(k)' = Heads(k) /\ Wholes(k)' = Wholes(k)
      /\ sent' = sent
  BY PeerKept DEF Inside, PeerStill
<1>2. /\ ParserTyped' /\ state' = (IF r.kind = "close" THEN "dead" ELSE "start")
      /\ r.kind # "upgrade" /\ "upgrade" \notin flags' /\ ~js'.incoming.upgrade
      /\ js'.finished = Append(js.finished, MessageOf(r))
  BY DEF Completes
<1>3. Held'
  BY <1>2 DEF ParserTyped, Held
<1>4. js'.incoming # Null
  <2>1. js'.incoming \in Messages
    BY <1>2 DEF ParserTyped
  <2>2. Null \notin Messages
    BY ParserAssumption
  <2>3. QED
    BY <2>1, <2>2
<1> DEFINE k == m + 1
<1>5. k \in Nat /\ k > 0 /\ k \in 1 .. Len(sent) /\ Len(sent) \in Nat /\ r = sent[k]
      /\ w = After(k) /\ m \in Nat /\ k \in 0 .. Len(sent)
  BY LengthNat DEF Inside
<1>6. Append(Wholes(m), MessageOf(sent[m + 1])) = Wholes(m + 1)
  BY <1>5, NextHead
<1>7. js'.finished = Wholes(k)
  <2>1. js.finished = Wholes(m)
    BY DEF Inside
  <2>2. QED
    BY <1>2, <1>5, <1>6, <2>1
<1>8. js'.announced = Heads(k) /\ ondata'
  BY DEF Inside
<1> HIDE DEF k
<1>9. r.kind = "close" => k = Len(sent)
  <2>1. \A i \in 1 .. Len(sent) - 1 : sent[i].kind \notin {"upgrade", "close"}
    BY DEF Inside, Peered
  <2>2. k # Len(sent) => k \in 1 .. Len(sent) - 1
    BY <1>5
  <2>3. QED
    BY <1>5, <2>1, <2>2
<1>10. /\ left' = After(k)' /\ js'.announced = Heads(k)' /\ js'.finished = Wholes(k)'
       /\ sent'[k] = r /\ Len(sent') = Len(sent)
  BY <1>1, <1>5, <1>7, <1>8
<1>11. Between(k)'
  BY <1>2, <1>4, <1>5, <1>8, <1>9, <1>10 DEF Between, NotUpgraded
<1>12. k \in 0 .. Len(sent')
  BY <1>5, <1>10
<1>13. QED
  BY <1>3, <1>11, <1>12 DEF Parsed

\* The end of an upgrade request: only bytes of the new protocol follow.
LEMMA UpgradeSwitches ==
  ASSUME NEW m, NEW r, NEW w, Inside(m, r, w), left' = w, ToUpgrade(r),
         running', js.announced = Heads(m)
  PROVE  Held' /\ Parsed'
<1>1. /\ \A k : Heads(k)' = Heads(k) /\ Wholes(k)' = Wholes(k)
      /\ sent' = sent /\ protocol' = protocol
  BY PeerKept DEF Inside, PeerStill
<1>2. /\ r.kind = "upgrade" /\ state' = "start" /\ "upgrade" \in flags' /\ ParserTyped'
      /\ js'.incoming.upgrade /\ js'.incoming.url = r.url
      /\ js'.incoming.headers = Joined(Lined(r))
      /\ js'.announced = js.announced /\ js'.finished = js.finished
  BY DEF ToUpgrade
<1>3. Held'
  BY <1>2 DEF ParserTyped, Held
<1>4. js'.incoming # Null
  <2>1. js'.incoming \in Messages
    BY <1>2 DEF ParserTyped
  <2>2. Null \notin Messages
    BY ParserAssumption
  <2>3. QED
    BY <2>1, <2>2
<1> DEFINE k == m + 1
<1>5. k \in 1 .. Len(sent) /\ Len(sent) \in Nat /\ r = sent[k] /\ m \in Nat
      /\ w = After(k) /\ k \in 0 .. Len(sent)
  BY LengthNat DEF Inside
<1>6. k = Len(sent) /\ m = Len(sent) - 1
  <2>1. \A i \in 1 .. Len(sent) - 1 : sent[i].kind \notin {"upgrade", "close"}
    BY DEF Inside, Peered
  <2>2. k # Len(sent) => k \in 1 .. Len(sent) - 1
    BY <1>5
  <2>3. k = Len(sent)
    BY <1>2, <1>5, <2>1, <2>2
  <2>4. QED
    BY <1>5, <2>3
<1>7. sent # <<>> /\ sent[Len(sent)] = r
  <2>1. Len(sent) > 0 /\ sent \in Seq(Requests)
    BY <1>5 DEF Inside, Peered
  <2>2. QED
    BY <1>5, <1>6, <2>1
<1>8. left' = protocol /\ protocol \in Seq({"p"})
  <2>1. After(k) = Ending
    BY <1>5, <1>6, AfterFacts DEF Inside
  <2>2. Ending = protocol
    BY <1>2, <1>7, EndingFacts DEF Inside
  <2>3. QED
    BY <1>5, <2>1, <2>2 DEF Inside, Peered
<1>9. Len(left') <= Len(protocol')
  <2>1. Len(protocol) \in Nat
    BY <1>8
  <2>2. QED
    BY <1>1, <1>8, <2>1
<1>10. js'.announced = Heads(Len(sent) - 1) /\ js'.finished = Wholes(Len(sent) - 1) /\ ondata'
  BY <1>2, <1>6 DEF Inside
<1>11. js'.announced = Heads(Len(sent) - 1)' /\ js'.finished = Wholes(Len(sent) - 1)'
  <2>1. Heads(Len(sent) - 1)' = Heads(Len(sent) - 1)
    BY <1>1 DEF Heads
  <2>2. Wholes(Len(sent) - 1)' = Wholes(Len(sent) - 1)
    BY <1>1 DEF Wholes
  <2>3. QED
    BY <1>10, <2>1, <2>2
<1>12. Switched'
  BY <1>1, <1>2, <1>4, <1>7, <1>8, <1>9, <1>10, <1>11 DEF Switched
<1>13. QED
  BY <1>3, <1>12 DEF Parsed

\* Within(m, cur) is a place in request m + 1, with requests after it.
LEMMA InsideFacts ==
  ASSUME Peered, Held, NEW m \in 0 .. Len(sent) - 1, NEW cur, Within(m, cur), PeerStill,
         ondata' = ondata
  PROVE  /\ Inside(m, sent[m + 1], After(m + 1)) /\ ParserTyped
         /\ left = cur \o After(m + 1) /\ RequestType(sent[m + 1])
         /\ cur \in Seq(Bytes) /\ cur # <<>>
<1>1. Len(sent) \in Nat
  BY LengthNat
<1>2. m \in Nat /\ m + 1 \in 0 .. Len(sent) /\ m + 1 \in 1 .. Len(sent)
  BY <1>1
<1>3. RequestType(sent[m + 1]) /\ After(m + 1) \in Seq(Bytes)
  BY <1>2, EncodingsType, AfterFacts
<1>4. Inside(m, sent[m + 1], After(m + 1))
  BY <1>2, <1>3 DEF Inside, Within
<1>5. ParserTyped
  BY HandlersType DEF Within, Held, ParserTyped
<1>6. cur \in Seq(Bytes) /\ cur # <<>>
  BY <1>3, HeadShape, RestShape DEF Within
<1>7. QED
  BY <1>3, <1>4, <1>5, <1>6 DEF Within

\* A byte read within a request keeps the invariant.
LEMMA WithinByte ==
  ASSUME Held, Peered, NEW m \in 0 .. Len(sent) - 1, NEW cur, Within(m, cur), OneByte
  PROVE  Held' /\ Parsed'
<1>1. /\ running /\ left' = Tail(left) /\ running' = running /\ ondata' = ondata /\ PeerStill
  BY OneByteReads DEF PeerStill
<1>2. PICK r, w : r = sent[m + 1] /\ w = After(m + 1)
  OBVIOUS
<1>3. /\ Inside(m, r, w) /\ ParserTyped /\ left = cur \o w /\ RequestType(r)
      /\ cur \in Seq(Bytes) /\ cur # <<>> /\ w \in Seq(Bytes)
  BY <1>1, <1>2, InsideFacts DEF Inside
<1>4. /\ Head(left) = Head(cur) /\ left' = Tail(cur) \o w /\ Tail(cur) \in Seq(Bytes)
  BY <1>1, <1>3, ByteHead
<1>5. AtRequest(r, cur)
  BY <1>1, <1>3, <1>4 DEF AtRequest
<1>6. /\ ~js.incoming.upgrade /\ m \in Nat /\ r = sent[m + 1]
  BY <1>3 DEF Inside
<1>7. Append(Heads(m), HeadOf(r)) = Heads(m + 1)
  BY <1>6, NextHead
<1>8. <<>> \o w = w
  BY <1>3, ConcatEmptySeq
<1>9. CASE InHead(r, cur) /\ js.announced = Heads(m)
  <2>1. CASE InHead(r, Tail(cur))' /\ Silent
    BY <1>3, <1>4, <1>6, <1>9, <2>1, StaysWithin DEF Silent
  <2>2. CASE Tail(cur) = Rest(r) /\ ToUpgrade(r)
    <3>1. left' = w
      BY <1>4, <1>8, <2>2 DEF ToUpgrade
    <3>2. QED
      BY <1>1, <1>3, <1>9, <2>2, <3>1, UpgradeSwitches
  <2>3. CASE Tail(cur) = Rest(r) /\ ToRest(r)
    <3>1. PICK c : c = Tail(cur)
      OBVIOUS
    <3>2. /\ InRest(r, c)' /\ ~js'.incoming.upgrade /\ ParserTyped'
          /\ js'.announced = Heads(m + 1) /\ js'.finished = js.finished
          /\ c \in Seq(Bytes) /\ left' = c \o w
      BY <1>4, <1>7, <1>9, <2>3, <3>1 DEF ToRest
    <3>3. QED
      BY <1>3, <3>2, StaysWithin
  <2>4. CASE Tail(cur) = Rest(r) /\ ToEnd(r)
    <3>1. left' = w /\ Completes(r) /\ js'.announced = Heads(m + 1)
      BY <1>4, <1>7, <1>8, <1>9, <2>4 DEF ToEnd
    <3>2. QED
      BY <1>3, <3>1, EndsBetween
  <2>5. QED
    BY <1>5, <1>9, <2>1, <2>2, <2>3, <2>4, HeadOneByte
<1>10. CASE InRest(r, cur) /\ js.announced = Heads(m + 1)
  <2>1. CASE GoesOn(r, Tail(cur))
    <3>1. PICK c : c = Tail(cur)
      OBVIOUS
    <3>2. /\ InRest(r, c)' /\ ~js'.incoming.upgrade /\ ParserTyped'
          /\ js'.announced = Heads(m + 1) /\ js'.finished = js.finished
          /\ c \in Seq(Bytes) /\ left' = c \o w
      BY <1>4, <1>6, <1>10, <2>1, <3>1 DEF GoesOn, Silent
    <3>3. QED
      BY <1>3, <3>2, StaysWithin
  <2>2. CASE Tail(cur) = <<>> /\ Ends(r)
    <3>1. left' = w /\ Completes(r) /\ js'.announced = Heads(m + 1)
      BY <1>4, <1>8, <1>10, <2>2 DEF Ends
    <3>2. QED
      BY <1>3, <3>1, EndsBetween
  <2>3. QED
    BY <1>5, <1>6, <1>10, <2>1, <2>2, RestStep
<1>11. QED
  BY <1>2, <1>9, <1>10 DEF Within

\* So does a piece of body.
LEMMA WithinBody ==
  ASSUME Framework, Held, Peered, NEW m \in 0 .. Len(sent) - 1, NEW cur, Within(m, cur), OnBody
  PROVE  Held' /\ Parsed'
<1>1. running /\ ondata' = ondata /\ PeerStill /\ state = "body" /\ chunk \in Nat
  BY DEF OnBody, peerVars, PeerStill, Framework
<1>2. PICK r, w : r = sent[m + 1] /\ w = After(m + 1)
  OBVIOUS
<1>3. /\ Inside(m, r, w) /\ ParserTyped /\ left = cur \o w /\ RequestType(r)
      /\ cur \in Seq(Bytes) /\ w \in Seq(Bytes)
  BY <1>1, <1>2, InsideFacts DEF Inside
<1>4. ~js.incoming.upgrade
  BY <1>3 DEF Inside
<1>5. InRest(r, cur) /\ js.announced = Heads(m + 1)
  <2>1. ~InHead(r, cur)
    BY <1>1, <1>3, HeadShape DEF HeadStates, ListStates
  <2>2. QED
    BY <1>2, <2>1 DEF Within
<1>6. PICK c \in Seq(Bytes) : left' = c \o w /\ (GoesOn(r, c) \/ (c = <<>> /\ Ends(r)))
  BY <1>1, <1>3, <1>4, <1>5, BodyStep
<1>7. CASE GoesOn(r, c)
  <2>1. /\ InRest(r, c)' /\ ~js'.incoming.upgrade /\ ParserTyped'
        /\ js'.announced = Heads(m + 1) /\ js'.finished = js.finished
    BY <1>4, <1>5, <1>7 DEF GoesOn, Silent
  <2>2. QED
    BY <1>3, <1>6, <2>1, StaysWithin
<1>8. CASE c = <<>> /\ Ends(r)
  <2>1. <<>> \o w = w
    BY <1>3, ConcatEmptySeq
  <2>2. left' = w /\ Completes(r) /\ js'.announced = Heads(m + 1)
    BY <1>5, <1>6, <1>8, <2>1 DEF Ends
  <2>3. QED
    BY <1>3, <2>2, EndsBetween
<1>9. QED
  BY <1>6, <1>7, <1>8

\* A digit is at most 3.
LEMMA DigitNumber == \A d \in Digits : Number(d) \in 0 .. 3
<1>1. SUFFICES ASSUME NEW d \in Digits PROVE Number(d) \in 0 .. 3
  OBVIOUS
<1>2. PICK n \in 0 .. 3 : d = Digit(n)
  BY DEF Digits
<1>3. QED
  BY <1>2, Numbers

FlagSet == SUBSET {"chunked", "upgrade", "close", "trailing"}

\* A byte keeps state, flags and length in their ranges.
LEMMA OneByteRange ==
  ASSUME flags \in FlagSet, toRead \in 0 .. 9, OneByte
  PROVE  state' \in States /\ flags' \in FlagSet /\ toRead' \in 0 .. 9
<1>1. CASE OnMessageBegin
  BY <1>1 DEF OnMessageBegin, States, FlagSet
<1>2. CASE MarkUrl
  BY <1>2 DEF MarkUrl, Mark, States
<1>3. CASE MoreBytes
  BY <1>3 DEF MoreBytes, More, States
<1>4. CASE OnUrl
  BY <1>4 DEF OnUrl, States
<1>5. CASE MarkField
  BY <1>5 DEF MarkField, Mark, States
<1>6. CASE MarkValue
  <2> DEFINE byte == Head(left)
             known == [T |-> "chunked", W |-> "upgrade", C |-> "close"]
  <2>1. /\ state' = "value"
        /\ flags' = (IF byte \in DOMAIN known THEN flags \cup {known[byte]} ELSE flags)
        /\ toRead' = (IF byte \in Digits THEN Number(byte) ELSE toRead)
    BY <1>6 DEF MarkValue, Mark
  <2>2. flags' \in FlagSet
    <3>1. DOMAIN known = {"T", "W", "C"} /\ known["T"] = "chunked" /\ known["W"] = "upgrade"
          /\ known["C"] = "close"
      OBVIOUS
    <3> HIDE DEF byte, known
    <3>2. byte \in DOMAIN known => known[byte] \in {"chunked", "upgrade", "close"}
      BY <3>1
    <3> DEFINE g == known[byte]
    <3> HIDE DEF g
    <3>3. flags' = (IF byte \in DOMAIN known THEN flags \cup {g} ELSE flags)
      BY <2>1 DEF g
    <3>4. byte \in DOMAIN known => g \in {"chunked", "upgrade", "close"}
      BY <3>2 DEF g
    <3>5. QED
      BY <3>3, <3>4 DEF FlagSet
  <2>3. toRead' \in 0 .. 9
    <3>1. byte \in Digits => Number(byte) \in 0 .. 3
      BY DigitNumber
    <3> HIDE DEF byte
    <3>2. CASE byte \in Digits
      <4>1. Number(byte) \in 0 .. 9
        BY <3>1, <3>2
      <4>2. QED
        BY <2>1, <3>2, <4>1
    <3>3. CASE byte \notin Digits
      BY <2>1, <3>3
    <3>4. QED
      BY <3>2, <3>3
  <2>4. QED
    BY <2>1, <2>2, <2>3 DEF States
<1>7. CASE SkipSpace
  BY <1>7 DEF SkipSpace, States
<1>8. CASE OnHeaderField
  BY <1>8 DEF OnHeaderField, States
<1>9. CASE OnHeaderValue
  BY <1>9 DEF OnHeaderValue, States
<1>10. CASE OnHeadersComplete
  <2> DEFINE next == CASE "upgrade" \in flags -> "start"
                       [] "chunked" \in flags -> "chunk_size"
                       [] toRead > 0          -> "body"
                       [] OTHER               -> NewMessage
  <2>1. state' = next /\ flags' = flags /\ toRead' = toRead
    BY <1>10 DEF OnHeadersComplete
  <2>2. next \in States
    <3>1. NewMessage \in States
      BY DEF NewMessage, States
    <3>2. {"start", "chunk_size", "body"} \subseteq States
      BY DEF States
    <3>3. QED
      BY <3>1, <3>2
  <2>3. QED
    BY <2>1, <2>2
<1>11. CASE OnTrailerComplete
  BY <1>11 DEF OnTrailerComplete, NewMessage, States
<1>12. CASE ChunkSize
  <2>1. /\ Head(left) \in Digits /\ toRead' = Number(Head(left))
        /\ state' = (IF toRead' = 0 THEN "field_start" ELSE "body")
        /\ flags' = (IF toRead' = 0 THEN flags \cup {"trailing"} ELSE flags)
    BY <1>12 DEF ChunkSize, Reads
  <2>2. toRead' \in 0 .. 3
    BY <2>1, DigitNumber
  <2>3. QED
    BY <2>1, <2>2 DEF States, FlagSet
<1>13. CASE ChunkDataEnd
  BY <1>13 DEF ChunkDataEnd, States
<1>14. CASE Error
  BY <1>14 DEF Error, States
<1>15. QED
  BY <1>1, <1>2, <1>3, <1>4, <1>5, <1>6, <1>7, <1>8, <1>9, <1>10, <1>11, <1>12, <1>13, <1>14
     DEF OneByte, HeadByte, ListByte

\* A byte keeps the types and the bookkeeping of the chunk.
LEMMA OneByteFramework ==
  ASSUME Framework, OneByte
  PROVE  Framework'
<1>1. /\ running /\ chunk > 0 /\ left' = Tail(left) /\ chunk' = chunk - 1
      /\ running' = running /\ ondata' = ondata /\ connections' = connections
  BY OneByteReads
<1>2. state' \in States /\ flags' \in FlagSet /\ toRead' \in 0 .. 9
  BY OneByteRange DEF Framework, FlagSet
<1>3. left' \in Seq(Bytes) /\ chunk' \in 0 .. Len(left')
  <2>1. left \in Seq(Bytes) /\ chunk \in 0 .. Len(left)
    BY DEF Framework
  <2>2. Len(left) \in Nat /\ left # <<>> /\ Tail(left) \in Seq(Bytes) /\ Len(Tail(left)) = Len(left) - 1
    BY <1>1, <2>1
  <2>3. QED
    BY <1>1, <2>1, <2>2
<1>4. QED
  BY <1>1, <1>2, <1>3 DEF Framework, FlagSet

\* So does a piece of body.
LEMMA BodyFramework ==
  ASSUME Framework, OnBody
  PROVE  Framework'
<1>1. PICK n : n = (IF chunk < toRead THEN chunk ELSE toRead)
  OBVIOUS
<1>2. /\ left' = SubSeq(left, n + 1, Len(left)) /\ chunk' = chunk - n /\ toRead' = toRead - n
      /\ running /\ running' = running /\ ondata' = ondata /\ flags' = flags
      /\ connections' = connections
  BY <1>1 DEF OnBody, peerVars
<1>3. left \in Seq(Bytes) /\ chunk \in 0 .. Len(left) /\ toRead \in 0 .. 9
  BY DEF Framework
<1>4. n \in 0 .. Len(left) /\ n <= chunk /\ n <= toRead /\ n \in Nat /\ Len(left) \in Nat
  BY <1>1, <1>3
<1>5. left' \in Seq(Bytes) /\ Len(left') = Len(left) - n
  BY <1>2, <1>3, <1>4, Cut
<1>6. chunk' \in 0 .. Len(left') /\ toRead' \in 0 .. 9
  BY <1>2, <1>3, <1>4, <1>5
<1>7. state' \in States
  <2>1. state' \in {"body", "chunk_data_end"} \/ state' = NewMessage
    BY DEF OnBody
  <2>2. QED
    BY <2>1 DEF NewMessage, States
<1>8. QED
  BY <1>2, <1>5, <1>6, <1>7 DEF Framework

\* Reading a body changes nothing the peer has sent.
LEMMA BodyPeer == OnBody => PeerStill
BY DEF OnBody, peerVars, PeerStill

\* A step of the parser keeps the invariant.
LEMMA ParserStep ==
  ASSUME Inv, Parser
  PROVE  Inv'
<1>1. Framework /\ Held /\ Peered /\ Parsed
  BY DEF Inv
<1>2. CASE OneByte
  <2>1. Framework'
    BY <1>1, <1>2, OneByteFramework
  <2>2. Peered'
    BY <1>1, <1>2, OneByteReads, PeerKept DEF PeerStill
  <2>3. left # <<>>
    <3>1. chunk > 0 /\ left \in Seq(Bytes) /\ chunk \in 0 .. Len(left)
      BY <1>1, <1>2, OneByteReads DEF Framework
    <3>2. QED
      BY <3>1
  <2>4. ~Failed
    BY <2>3 DEF Failed
  <2>5. ~Switched
    <3>1. SUFFICES ASSUME Switched PROVE FALSE
      OBVIOUS
    <3>2. state = "start" /\ "upgrade" \in flags /\ left \in Seq({"p"})
      BY <3>1 DEF Switched
    <3>3. Error
      BY <1>2, <3>2 DEF OneByte, OnMessageBegin, HeadByte, ListByte, MarkUrl, Mark, MarkField,
         MarkValue, SkipSpace, MoreBytes, More, OnUrl, OnHeaderField, OnHeaderValue,
         OnHeadersComplete, OnTrailerComplete, ChunkSize, ChunkDataEnd
    <3>4. Head(left) = "X"
      BY <3>3 DEF Error, Reads
    <3>5. Head(left) \in {"p"}
      BY <2>3, <3>2
    <3>6. QED
      BY <3>4, <3>5
  <2>6. Held' /\ Parsed'
    BY <1>1, <1>2, <2>4, <2>5, BetweenByte, WithinByte DEF Parsed
  <2>7. QED
    BY <2>1, <2>2, <2>6 DEF Inv
<1>3. CASE OnBody
  <2>1. Framework'
    BY <1>1, <1>3, BodyFramework
  <2>2. Peered'
    BY <1>1, <1>3, BodyPeer, PeerKept
  <2>3. PICK m \in 0 .. Len(sent) - 1 : \E cur \in Seq(Bytes) : Within(m, cur)
    BY <1>1, <1>3 DEF Parsed, OnBody, Between, Switched, Failed
  <2>4. Held' /\ Parsed'
    BY <1>1, <1>3, <2>3, WithinBody
  <2>5. QED
    BY <2>1, <2>2, <2>4 DEF Inv
<1>4. OneByte \/ OnBody
  <2>1. MoreBytes => state \in {"url", "field", "value"}
    BY DEF MoreBytes, More
  <2>2. QED
    BY DEF Parser, OneByte, HeadByte, ListByte
<1>5. QED
  BY <1>2, <1>3, <1>4

-----------------------------------------------------------------------------
(* The socket.                                                             *)

\* What leaves the parser as it is between two requests.
StillBetween ==
  /\ left' = left /\ ondata' = ondata /\ state' = state /\ flags' = flags
  /\ js' = js /\ PeerStill

\* Between two requests nothing depends on the chunk.
LEMMA BetweenKept ==
  ASSUME NEW m \in 0 .. Len(sent), Between(m), StillBetween
  PROVE  Parsed'
<1>1. PICK k : k = m
  OBVIOUS
<1>2. /\ After(k)' = After(k) /\ Heads(k)' = Heads(k) /\ Wholes(k)' = Wholes(k)
      /\ sent' = sent
  BY PeerKept DEF StillBetween, PeerStill
<1>3. Between(k)'
  BY <1>1, <1>2 DEF Between, StillBetween, NotUpgraded
<1>4. k \in 0 .. Len(sent')
  BY <1>1, <1>2
<1>5. QED
  BY <1>3, <1>4 DEF Parsed

\* Within a request the parser is in none of the states between two.
LEMMA WithinState ==
  ASSUME Peered, NEW m \in 0 .. Len(sent) - 1, NEW cur, Within(m, cur)
  PROVE  state \in HeadStates \cup {"chunk_size", "body", "chunk_data_end"}
<1>1. PICK r : r = sent[m + 1]
  OBVIOUS
<1>2. RequestType(r)
  <2>1. Len(sent) \in Nat
    BY LengthNat
  <2>2. m + 1 \in 1 .. Len(sent)
    BY <2>1
  <2>3. QED
    BY <1>1, <2>2, EncodingsType
<1>3. CASE InHead(r, cur)
  BY <1>2, <1>3, HeadShape
<1>4. CASE InRest(r, cur)
  BY <1>2, <1>4, RestShape DEF HeadStates, InRest
<1>5. QED
  BY <1>1, <1>3, <1>4 DEF Within

\* What moves only the mark and the bounds of the chunk keeps the request.
LEMMA WithinKept ==
  ASSUME Peered, Held, NEW m \in 0 .. Len(sent) - 1, NEW cur, Within(m, cur), PeerStill,
         ondata' = ondata, left' = left, StillParser,
         pending' \in (IF running' /\ state' \in Marked THEN Seq(Bytes) ELSE {Null})
  PROVE  Held' /\ Parsed'
<1>1. PICK r, w : r = sent[m + 1] /\ w = After(m + 1)
  OBVIOUS
<1>2. /\ Inside(m, r, w) /\ ParserTyped /\ left = cur \o w /\ RequestType(r)
      /\ cur \in Seq(Bytes)
  BY <1>1, InsideFacts
<1>3. ParserTyped' /\ ~js'.incoming.upgrade /\ js'.finished = js.finished
  BY <1>2 DEF ParserTyped, StillParser, Inside
<1>4. PICK c : c = cur
  OBVIOUS
<1>5. \/ InHead(r, c)' /\ js'.announced = Heads(m)
      \/ InRest(r, c)' /\ js'.announced = Heads(m + 1)
  BY <1>1, <1>4, HeadStill, RestStill DEF Within, StillParser
<1>6. c \in Seq(Bytes) /\ left' = c \o w
  BY <1>2, <1>4
<1>7. QED
  BY <1>2, <1>3, <1>5, <1>6, StaysWithin

\* A chunk starts at any place.
LEMMA ExecuteStep ==
  ASSUME Inv, NEW n \in 1 .. Len(left), Execute(n)
  PROVE  Inv'
<1>1. Framework /\ Held /\ Peered /\ Parsed
  BY DEF Inv
<1>2. /\ ~running /\ ondata /\ running' = TRUE /\ ondata' = ondata /\ state' = state
      /\ flags' = flags /\ toRead' = toRead /\ js' = js /\ PeerStill
      /\ connections' = connections
      /\ pending' = (IF state \in Marked THEN <<>> ELSE Null)
      /\ state # "error" => chunk' = n /\ left' = left
  BY DEF Execute, peerVars, PeerStill
<1>3. pending = Null /\ js \in Handlers
  BY <1>1, <1>2 DEF Held
<1>4. left # <<>> /\ left \in Seq(Bytes) /\ Len(left) \in Nat
  <2>1. left \in Seq(Bytes)
    BY <1>1 DEF Framework
  <2>2. QED
    BY <2>1
<1>5. ~Failed /\ ~Switched
  BY <1>2, <1>4 DEF Failed, Switched
<1>6. Behind' = Behind
  BY <1>2, <1>3 DEF Behind
<1>7. pending' \in (IF running' /\ state' \in Marked THEN Seq(Bytes) ELSE {Null})
  <2>1. <<>> \in Seq(Bytes)
    OBVIOUS
  <2>2. QED
    BY <1>2, <2>1
<1>8. state # "error"
  <2>1. CASE \E m \in 0 .. Len(sent) : Between(m)
    BY <2>1 DEF Between
  <2>2. CASE \E m \in 0 .. Len(sent) - 1 : \E cur \in Seq(Bytes) : Within(m, cur)
    BY <1>1, <2>2, WithinState DEF HeadStates, ListStates
  <2>3. QED
    BY <1>1, <1>5, <2>1, <2>2 DEF Parsed
<1>9. Framework'
  <2>1. chunk' \in 0 .. Len(left')
    BY <1>2, <1>4, <1>8
  <2>2. QED
    BY <1>1, <1>2, <1>8, <2>1 DEF Framework
<1>10. Peered'
  BY <1>1, <1>2, PeerKept
<1>11. Held'
  BY <1>2, <1>3, <1>7 DEF Held
<1>12. Parsed'
  <2>1. CASE \E m \in 0 .. Len(sent) : Between(m)
    <3>1. StillBetween
      BY <1>2, <1>8 DEF StillBetween
    <3>2. QED
      BY <2>1, <3>1, BetweenKept
  <2>2. CASE \E m \in 0 .. Len(sent) - 1 : \E cur \in Seq(Bytes) : Within(m, cur)
    <3>1. StillParser
      BY <1>2, <1>6 DEF StillParser
    <3>2. PICK m \in 0 .. Len(sent) - 1 : \E cur \in Seq(Bytes) : Within(m, cur)
      BY <2>2
    <3>3. PICK cur \in Seq(Bytes) : Within(m, cur)
      BY <3>2
    <3>4. left' = left
      BY <1>2, <1>8
    <3>5. QED
      BY <1>1, <1>2, <1>7, <3>1, <3>3, <3>4, WithinKept
  <2>3. QED
    BY <1>1, <1>5, <2>1, <2>2 DEF Parsed
<1>13. QED
  BY <1>9, <1>10, <1>11, <1>12 DEF Inv

\* Handing over what is behind the mark makes no upgrade of a request.
LEMMA FlushUpgrade ==
  ASSUME js \in Handlers, js.incoming \in Messages, state \in Marked <=> pending # Null
  PROVE  Flush(js).incoming.upgrade = js.incoming.upgrade
<1>1. js = [incoming |-> js.incoming, field |-> js.field, value |-> js.value,
            announced |-> js.announced, finished |-> js.finished]
      /\ js.incoming = [url |-> js.incoming.url, headers |-> js.incoming.headers,
                        body |-> js.incoming.body, upgrade |-> js.incoming.upgrade]
  BY HandlersType, MessagesType
<1>2. ASSUME NEW s
      PROVE  /\ onURL(js, s).incoming.upgrade = js.incoming.upgrade
             /\ onHeaderValue(js, s).incoming.upgrade = js.incoming.upgrade
  BY <1>1 DEF onURL, onHeaderValue
<1>3. ASSUME NEW s
      PROVE  onHeaderField(js, s).incoming.upgrade = js.incoming.upgrade
  BY <1>1 DEF onHeaderField, AddHeaderLine
<1>4. CASE pending = Null
  BY <1>4 DEF Flush, Marked
<1>5. CASE pending # Null
  <2>1. state \in {"url", "field", "value"}
    BY <1>5 DEF Marked
  <2>2. Flush(js) \in {onURL(js, pending), onHeaderField(js, pending), onHeaderValue(js, pending)}
    BY <1>5, <2>1 DEF Flush
  <2>3. QED
    BY <1>2, <1>3, <2>2
<1>6. QED
  BY <1>4, <1>5

\* The end of a call of execute within a request.
LEMMA WithinReturns ==
  ASSUME Peered, Held, NEW m \in 0 .. Len(sent) - 1, NEW cur, Within(m, cur), running,
         running' = FALSE, PeerStill, left' = left, pending' = Null, state' = state,
         flags' = flags, toRead' = toRead, Upgraded(Flush(js))
  PROVE  Held' /\ Parsed' /\ ondata' = ondata
<1>1. PICK r : r = sent[m + 1]
  OBVIOUS
<1>2. PICK w : w = After(m + 1)
  OBVIOUS
<1>3. ParserTyped
  BY HandlersType DEF Within, Held, ParserTyped
<1>4. Flush(js).incoming.upgrade = js.incoming.upgrade
  <2>1. state \in Marked <=> pending # Null
    BY <1>3, ParserAssumption DEF ParserTyped
  <2>2. QED
    BY <1>3, <2>1, FlushUpgrade DEF ParserTyped
<1>5. js' = Flush(js) /\ ondata' = ondata
  BY <1>4 DEF Upgraded, Within
<1>6. Flushes
  BY <1>5 DEF Flushes
<1>7. /\ Inside(m, r, w) /\ left = cur \o w /\ RequestType(r) /\ cur \in Seq(Bytes)
  BY <1>1, <1>2, <1>5, InsideFacts
<1>8. PICK c : c = cur
  OBVIOUS
<1>9. /\ \/ InHead(r, c)' /\ js.announced = Heads(m)
         \/ InRest(r, c)' /\ js.announced = Heads(m + 1)
      /\ Flushed
  BY <1>1, <1>3, <1>6, <1>7, <1>8, HeadFlushed, RestFlushed DEF Within
<1>10. /\ ParserTyped' /\ ~js'.incoming.upgrade /\ js'.finished = js.finished
       /\ js'.announced = js.announced
  BY <1>7, <1>9 DEF Flushed, ParserTyped, Inside
<1>11. c \in Seq(Bytes) /\ left' = c \o w
  BY <1>7, <1>8
<1>12. QED
  BY <1>5, <1>7, <1>9, <1>10, <1>11, StaysWithin

\* What is left of a sequence after its first n elements.
LEMMA DropBytes ==
  ASSUME NEW T, NEW u \in Seq(T), NEW n \in 0 .. Len(u)
  PROVE  SubSeq(u, n + 1, Len(u)) \in Seq(T) /\ Len(SubSeq(u, n + 1, Len(u))) = Len(u) - n
<1>1. Len(u) \in Nat /\ n \in Nat /\ n + 1 \in 1 .. Len(u) + 1
  OBVIOUS
<1>2. SubSeq(u, n + 1, Len(u)) \in Seq(T)
  <2>1. \A i \in n + 1 .. Len(u) : u[i] \in T
    BY <1>1
  <2>2. QED
    BY <1>1, <2>1
<1>3. Len(SubSeq(u, n + 1, Len(u))) = Len(u) - n
  BY <1>1
<1>4. QED
  BY <1>2, <1>3

\* Bytes handed to the listener of an upgrade are those of the new protocol.
LEMMA HandedStep ==
  ASSUME Inv, NEW n \in 1 .. Len(left), ~running, Handed(n)
  PROVE  Inv'
<1>1. Framework /\ Held /\ Peered /\ Parsed
  BY DEF Inv
<1>2. /\ ~ondata /\ left' = SubSeq(left, n + 1, Len(left)) /\ chunk' = chunk
      /\ running' = running /\ ondata' = ondata /\ state' = state
      /\ flags' = flags /\ toRead' = toRead /\ pending' = pending /\ js' = js /\ PeerStill
      /\ connections' = connections
  BY DEF Handed, httpVars, peerVars, PeerStill
<1>3. Switched
  BY <1>1, <1>2 DEF Parsed, Between, Within, Failed
<1>4. left \in Seq(Bytes) /\ Len(left) \in Nat /\ n \in 0 .. Len(left) /\ chunk = 0
  <2>1. left \in Seq(Bytes) /\ chunk = 0
    BY <1>1 DEF Framework
  <2>2. QED
    BY <2>1
<1>5. left' \in Seq(Bytes) /\ Len(left') = Len(left) - n
  BY <1>2, <1>4, DropBytes
<1>6. left' \in Seq({"p"})
  <2>1. left \in Seq({"p"})
    BY <1>3 DEF Switched
  <2>2. QED
    BY <1>2, <1>4, <2>1, DropBytes
<1>7. Framework'
  <2>1. chunk' \in 0 .. Len(left')
    BY <1>2, <1>4, <1>5
  <2>2. QED
    BY <1>1, <1>2, <1>5, <2>1 DEF Framework
<1>8. Peered'
  BY <1>1, <1>2, PeerKept
<1>9. Held'
  BY <1>1, <1>2 DEF Held
<1>10. Len(left') <= Len(protocol')
  <2>1. Len(left) <= Len(protocol) /\ Len(protocol) \in Nat
    BY <1>1, <1>3 DEF Switched, Peered
  <2>2. QED
    BY <1>2, <1>4, <1>5, <2>1 DEF PeerStill
<1>11. Switched'
  <2>1. /\ Heads(Len(sent))' = Heads(Len(sent))
        /\ Wholes(Len(sent) - 1)' = Wholes(Len(sent) - 1)
    BY <1>2 DEF Heads, Wholes, PeerStill
  <2>2. QED
    BY <1>2, <1>3, <1>6, <1>10, <2>1 DEF Switched, PeerStill
<1>12. QED
  BY <1>7, <1>8, <1>9, <1>11 DEF Inv, Parsed

\* The upgrade request is announced when execute is over.
LEMMA SwitchTold ==
  ASSUME Peered, Held, Switched, running, running' = FALSE, PeerStill, state' = state,
         flags' = flags, pending' = Null, Upgraded(js),
         left' \in Seq({"p"}), Len(left') <= Len(protocol)
  PROVE  Held' /\ Switched' /\ ondata' = FALSE
<1>1. /\ ondata /\ js.incoming # Null /\ js.incoming.upgrade
      /\ js.incoming.url = sent[Len(sent)].url
      /\ js.incoming.headers = Joined(Lined(sent[Len(sent)]))
      /\ js.announced = Heads(Len(sent) - 1)
      /\ sent # <<>> /\ sent[Len(sent)].kind = "upgrade"
      /\ state = "start" /\ "upgrade" \in flags
      /\ js.finished = Wholes(Len(sent) - 1)
  BY DEF Switched
<1>2. js' = Announce(js) /\ ondata' = FALSE
  BY <1>1 DEF Upgraded
<1>3. js \in Handlers /\ js.incoming \in Messages
  BY <1>1, HandlersType DEF Held
<1>4. /\ js' \in Handlers /\ js'.finished = js.finished
      /\ js'.announced = Append(js.announced, [url |-> js.incoming.url,
                                               headers |-> js.incoming.headers])
  BY <1>2, <1>3, AnnounceFacts
<1>5. Held'
  BY <1>1, <1>4 DEF Held, Marked
<1>6. PICK m : m = Len(sent) - 1
  OBVIOUS
<1>7. m \in Nat /\ m + 1 = Len(sent)
  <2>1. Len(sent) \in Nat /\ Len(sent) > 0
    BY <1>1, LengthNat DEF Peered
  <2>2. QED
    BY <1>6, <2>1
<1>8. js'.announced = Heads(m + 1)
  <2>1. HeadOf(sent[m + 1]) = [url |-> js.incoming.url, headers |-> js.incoming.headers]
    BY <1>1, <1>7 DEF HeadOf, Lined
  <2>2. Append(Heads(m), HeadOf(sent[m + 1])) = Heads(m + 1)
    BY <1>7, NextHead
  <2>3. QED
    BY <1>1, <1>4, <1>6, <2>1, <2>2
<1>9. /\ js'.announced = Heads(Len(sent))'
      /\ js'.finished = Wholes(Len(sent) - 1)'
  <2>1. /\ Heads(Len(sent))' = Heads(Len(sent))
        /\ Wholes(Len(sent) - 1)' = Wholes(Len(sent) - 1)
    BY DEF Heads, Wholes, PeerStill
  <2>2. QED
    BY <1>1, <1>4, <1>7, <1>8, <2>1
<1>10. QED
  BY <1>1, <1>2, <1>5, <1>9 DEF Switched, PeerStill

\* A chunk ends at any place; an upgrade request is announced then.
LEMMA ReturnStep ==
  ASSUME Inv, ExecuteReturns
  PROVE  Inv'
<1>1. Framework /\ Held /\ Peered /\ Parsed
  BY DEF Inv
<1>2. /\ running /\ chunk = 0 /\ state # "error" /\ running' = FALSE /\ pending' = Null
      /\ Upgraded(Flush(js)) /\ left' = left /\ chunk' = chunk /\ state' = state
      /\ flags' = flags /\ toRead' = toRead /\ PeerStill /\ connections' = connections
  BY DEF ExecuteReturns, peerVars, PeerStill
<1>3. Peered'
  BY <1>1, <1>2, PeerKept
<1>4. state \notin Marked => Flush(js) = js
  <2>1. state \notin Marked => pending = Null
    BY <1>1 DEF Held
  <2>2. QED
    BY <2>1 DEF Flush, Marked
<1>5. ondata' \in BOOLEAN => Framework'
  BY <1>1, <1>2 DEF Framework
<1>6. CASE \E m \in 0 .. Len(sent) : Between(m)
  <2>1. PICK m \in 0 .. Len(sent) : Between(m)
    BY <1>6
  <2>2. state \in {"start", "dead"} /\ NotUpgraded /\ ondata
    BY <2>1 DEF Between
  <2>3. Flush(js) = js
    BY <1>4, <2>2 DEF Marked
  <2>4. js' = js /\ ondata' = ondata
    BY <1>2, <2>2, <2>3 DEF Upgraded, NotUpgraded
  <2>5. Parsed'
    BY <1>2, <2>1, <2>4, BetweenKept DEF StillBetween
  <2>6. Held'
    BY <1>1, <1>2, <2>2, <2>4 DEF Held, Marked
  <2>7. QED
    BY <1>1, <1>3, <1>5, <2>4, <2>5, <2>6 DEF Inv, Framework
<1>7. CASE \E m \in 0 .. Len(sent) - 1 : \E cur \in Seq(Bytes) : Within(m, cur)
  <2>1. PICK m \in 0 .. Len(sent) - 1 : \E cur \in Seq(Bytes) : Within(m, cur)
    BY <1>7
  <2>2. PICK cur \in Seq(Bytes) : Within(m, cur)
    BY <2>1
  <2>3. Held' /\ Parsed' /\ ondata' = ondata
    BY <1>1, <1>2, <2>2, WithinReturns
  <2>4. QED
    BY <1>1, <1>3, <1>5, <2>3 DEF Inv, Framework
<1>8. CASE Switched
  <2>1. Flush(js) = js
    BY <1>4, <1>8 DEF Switched, Marked
  <2>2. left' \in Seq({"p"}) /\ Len(left') <= Len(protocol)
    BY <1>2, <1>8 DEF Switched
  <2>3. Held' /\ Switched' /\ ondata' = FALSE
    BY <1>1, <1>2, <1>8, <2>1, <2>2, SwitchTold
  <2>4. ondata' \in BOOLEAN
    BY <2>3
  <2>5. QED
    BY <1>3, <1>5, <2>3, <2>4 DEF Inv, Parsed
<1>9. QED
  BY <1>1, <1>2, <1>6, <1>7, <1>8 DEF Parsed, Failed

\* An error or an upgrade ends the chunk early.
LEMMA StopStep ==
  ASSUME Inv, ExecuteStops
  PROVE  Inv'
<1>1. Framework /\ Held /\ Peered /\ Parsed
  BY DEF Inv
<1>2. /\ running /\ (state = "error" \/ ("upgrade" \in flags /\ state = "start"))
      /\ running' = FALSE /\ pending' = Null /\ chunk' = 0
      /\ left' = SubSeq(left, chunk + 1, Len(left))
      /\ Upgraded(js) /\ state' = state
      /\ flags' = flags /\ toRead' = toRead /\ PeerStill /\ connections' = connections
  BY DEF ExecuteStops, peerVars, PeerStill
<1>3. Peered'
  BY <1>1, <1>2, PeerKept
<1>4. left \in Seq(Bytes) /\ Len(left) \in Nat /\ chunk \in 0 .. Len(left)
  <2>1. left \in Seq(Bytes) /\ chunk \in 0 .. Len(left)
    BY <1>1 DEF Framework
  <2>2. QED
    BY <2>1
<1>5. left' \in Seq(Bytes) /\ Len(left') = Len(left) - chunk
  BY <1>2, <1>4, DropBytes
<1>6. ondata' \in BOOLEAN => Framework'
  <2>1. chunk' \in 0 .. Len(left')
    BY <1>2, <1>4, <1>5
  <2>2. QED
    BY <1>1, <1>2, <1>5, <2>1 DEF Framework
<1>7. ~\E m \in 0 .. Len(sent) : Between(m)
  BY <1>2 DEF Between
<1>8. ~\E m \in 0 .. Len(sent) - 1 : \E cur \in Seq(Bytes) : Within(m, cur)
  BY <1>1, <1>2, WithinState DEF HeadStates, ListStates
<1>9. CASE Switched
  <2>1. left \in Seq({"p"}) /\ Len(left) <= Len(protocol) /\ Len(protocol) \in Nat
    BY <1>1, <1>9 DEF Switched, Peered
  <2>2. left' \in Seq({"p"})
    BY <1>2, <1>4, <2>1, DropBytes
  <2>3. Len(left') <= Len(protocol)
    BY <1>4, <1>5, <2>1
  <2>4. Held' /\ Switched' /\ ondata' = FALSE
    BY <1>1, <1>2, <1>9, <2>2, <2>3, SwitchTold
  <2>5. ondata' \in BOOLEAN
    BY <2>4
  <2>6. QED
    BY <1>3, <1>6, <2>4, <2>5 DEF Inv, Parsed
<1>10. CASE Failed
  <2>1. state = "error" /\ broken /\ left = <<>> /\ ondata /\ NotUpgraded
        /\ js.announced = Heads(Len(sent)) /\ js.finished = Wholes(Len(sent))
    BY <1>10 DEF Failed
  <2>2. js' = js /\ ondata' = ondata
    BY <1>2, <2>1 DEF Upgraded, NotUpgraded
  <2>3. left' = <<>>
    <3>1. Len(left') = 0
      BY <1>4, <1>5, <2>1
    <3>2. QED
      BY <1>5, <3>1
  <2>4. /\ Heads(Len(sent))' = Heads(Len(sent))
        /\ Wholes(Len(sent))' = Wholes(Len(sent))
    BY <1>2 DEF Heads, Wholes, PeerStill
  <2>5. Failed'
    BY <1>2, <2>1, <2>2, <2>3, <2>4 DEF Failed, NotUpgraded, PeerStill
  <2>6. Held'
    BY <1>1, <1>2, <2>1, <2>2 DEF Held, Marked
  <2>7. QED
    BY <1>3, <1>6, <2>1, <2>2, <2>5, <2>6 DEF Inv, Parsed
<1>11. QED
  BY <1>1, <1>7, <1>8, <1>9, <1>10 DEF Parsed

\* A connection on which nothing has been sent.
LEMMA NothingSent ==
  /\ FlatFrom([i \in 1 .. Len(<<>>) |-> Encoded(<<>>[i])], 0) \o (<<>> \o <<>>) = <<>>
  /\ [i \in 1 .. 0 |-> HeadOf(<<>>[i])] = <<>>
  /\ [i \in 1 .. 0 |-> MessageOf(<<>>[i])] = <<>>
<1>1. [i \in 1 .. Len(<<>>) |-> Encoded(<<>>[i])] = <<>>
  OBVIOUS
<1>2. FlatFrom(<<>>, 0) = <<>>
  <2>1. SubSeq(<<>>, 0 + 1, Len(<<>>)) = <<>>
    OBVIOUS
  <2>2. QED
    BY <2>1, FlattenEmpty DEF FlatFrom
<1>3. <<>> \o (<<>> \o <<>>) = <<>>
  OBVIOUS
<1>4. QED
  BY <1>1, <1>2, <1>3

\* A parser taken for a new connection.
Fresh ==
  /\ left = <<>> /\ chunk = 0 /\ running = FALSE /\ ondata = TRUE
  /\ state = "start" /\ flags = {} /\ pending = Null /\ toRead \in 0 .. 9
  /\ js \in Handlers /\ js.incoming = Null /\ js.announced = <<>> /\ js.finished = <<>>
  /\ sent = <<>> /\ broken = FALSE /\ protocol = <<>>
  /\ connections \in 1 .. MaxConnections

\* A parser taken for a new connection satisfies the invariant.
LEMMA FreshHolds == Fresh => Inv
<1> SUFFICES ASSUME Fresh PROVE Inv
  OBVIOUS
<1>1. Framework
  <2>1. left \in Seq(Bytes) /\ chunk \in 0 .. Len(left)
    BY DEF Fresh
  <2>2. QED
    BY <2>1 DEF Fresh, Framework, States
<1>2. Held
  BY DEF Fresh, Held
<1>3. Peered
  <2>1. MaxRequests \in Nat
    BY ParserAssumption
  <2>2. sent \in Seq(Requests) /\ Len(sent) = 0 /\ protocol \in Seq({"p"})
    BY DEF Fresh
  <2>3. \A k \in 1 .. Len(sent) - 1 : FALSE
    BY <2>2
  <2>4. Len(sent) <= MaxRequests
    BY <2>1, <2>2
  <2>5. sent = <<>> /\ protocol = <<>> /\ broken = FALSE
    BY DEF Fresh
  <2>6. QED
    BY <2>2, <2>3, <2>4, <2>5 DEF Peered
<1>4. After(0) = <<>> /\ Heads(0) = <<>> /\ Wholes(0) = <<>>
  BY NothingSent DEF Fresh, After, Heads, Wholes, Encodings, Ending
<1>5. Between(0)
  BY <1>4 DEF Fresh, Between, NotUpgraded
<1>6. 0 \in 0 .. Len(sent)
  BY DEF Fresh
<1>7. QED
  BY <1>1, <1>2, <1>3, <1>5, <1>6 DEF Inv, Parsed

\* So does the first one.
LEMMA InitHolds == Init => Inv
<1>1. Init => Fresh
  <2>1. NewHandlers \in Handlers
    BY DEF NewHandlers, Handlers
  <2>2. 1 \in 1 .. MaxConnections
    BY ParserAssumption
  <2>3. QED
    BY <2>1, <2>2 DEF Init, Fresh, NewHandlers
<1>2. QED
  BY <1>1, FreshHolds

\* The next connection starts fresh, whatever the last one left in the parser.
LEMMA NextConnectionStep ==
  ASSUME Inv, NextConnection
  PROVE  Inv'
<1>1. Framework /\ Held
  BY DEF Inv
<1>2. chunk = 0 /\ pending = Null /\ toRead \in 0 .. 9 /\ connections \in 1 .. MaxConnections
  BY <1>1 DEF Framework, Held, NextConnection
<1>3. connections' \in 1 .. MaxConnections
  <2>1. MaxConnections \in Nat
    BY ParserAssumption
  <2>2. QED
    BY <1>2, <2>1 DEF NextConnection
<1>4. /\ js' \in Handlers /\ js'.incoming = Null /\ js'.announced = <<>> /\ js'.finished = <<>>
  <2>1. js' = [js EXCEPT !.incoming = Null, !.announced = <<>>, !.finished = <<>>]
    BY DEF NextConnection
  <2>2. /\ js = [incoming |-> js.incoming, field |-> js.field, value |-> js.value,
                 announced |-> js.announced, finished |-> js.finished]
        /\ js.field \in Seq(Bytes) \cup {Null} /\ js.value \in Seq(Bytes) \cup {Null}
    BY <1>1, HandlersType DEF Held
  <2>3. js' = [incoming |-> Null, field |-> js.field, value |-> js.value,
               announced |-> <<>>, finished |-> <<>>]
    BY <2>1, <2>2
  <2>4. QED
    BY <2>2, <2>3 DEF Handlers
<1>5. Fresh'
  BY <1>2, <1>3, <1>4 DEF NextConnection, Reinitialize, Fresh
<1>6. Fresh' => Inv'
  BY FreshHolds, PTL
<1>7. QED
  BY <1>5, <1>6

\* Every step of the socket keeps the invariant.
LEMMA SocketStep ==
  ASSUME Inv, Socket
  PROVE  Inv'
BY ExecuteStep, HandedStep, ReturnStep, StopStep, NextConnectionStep DEF Socket

-----------------------------------------------------------------------------
(* The peer.                                                               *)

\* The parser and its handlers do not move.
ParserIdle ==
  /\ chunk' = chunk /\ running' = running /\ ondata' = ondata /\ state' = state
  /\ flags' = flags /\ toRead' = toRead /\ pending' = pending /\ js' = js

\* The peer adds the bytes e to those on the way.
Adds(e) ==
  /\ e \in Seq(Bytes) /\ left' = left \o e /\ ParserIdle /\ connections' = connections
  /\ Len(sent') \in Nat /\ Len(sent) <= Len(sent')
  /\ \A i \in 1 .. Len(sent) : sent'[i] = sent[i]
  /\ \A m \in 0 .. Len(sent) : After(m)' = After(m) \o e

\* A byte the peer adds does not change what was sent before it.
LEMMA PrefixTold ==
  ASSUME Peered, NEW e, Adds(e), NEW m \in 0 .. Len(sent)
  PROVE  Heads(m)' = Heads(m) /\ Wholes(m)' = Wholes(m)
<1>1. Len(sent) \in Nat
  BY LengthNat
<1>2. \A i \in 1 .. m : sent'[i] = sent[i]
  BY <1>1 DEF Adds
<1>3. Heads(m)' = Heads(m)
  BY <1>2 DEF Heads
<1>4. Wholes(m)' = Wholes(m)
  BY <1>2 DEF Wholes
<1>5. QED
  BY <1>3, <1>4

\* Nor the types.
LEMMA AddsFramework ==
  ASSUME Framework, NEW e, Adds(e)
  PROVE  Framework'
<1>1. left \in Seq(Bytes) /\ chunk \in 0 .. Len(left) /\ e \in Seq(Bytes)
  BY DEF Framework, Adds
<1>2. /\ left \o e \in Seq(Bytes) /\ Len(left \o e) = Len(left) + Len(e)
      /\ Len(e) \in Nat /\ Len(left) \in Nat
  BY <1>1, ByteConcat
<1> DEFINE u == left \o e
<1> HIDE DEF u
<1>3. u \in Seq(Bytes) /\ chunk \in 0 .. Len(u)
  BY <1>1, <1>2 DEF u
<1>4. left' = u /\ chunk' = chunk
  BY DEF Adds, ParserIdle, u
<1>5. left' \in Seq(Bytes) /\ chunk' \in 0 .. Len(left')
  BY <1>3, <1>4
<1>6. QED
  BY <1>5 DEF Framework, Adds, ParserIdle

\* A parser between two requests stays so when the peer adds bytes.
LEMMA AddsBetween ==
  ASSUME Peered, NEW e, Adds(e), NEW m \in 0 .. Len(sent), Between(m),
         state = "dead" => sent' = sent
  PROVE  Parsed'
<1>1. PICK k : k = m
  OBVIOUS
<1>2. Len(sent) \in Nat /\ k \in 0 .. Len(sent) /\ k \in Nat
  BY <1>1, LengthNat
<1>3. Heads(k)' = Heads(k) /\ Wholes(k)' = Wholes(k)
  BY <1>2, PrefixTold
<1>4. k > 0 => sent'[k] = sent[k]
  BY <1>2 DEF Adds
<1>5. left' = After(k)'
  <2>1. After(k)' = After(k) \o e /\ left' = left \o e
    BY <1>2 DEF Adds
  <2>2. left = After(k)
    BY <1>1 DEF Between
  <2>3. QED
    BY <2>1, <2>2
<1>6. Between(k)'
  BY <1>1, <1>3, <1>4, <1>5 DEF Between, Adds, ParserIdle, NotUpgraded
<1>7. k \in 0 .. Len(sent')
  BY <1>2 DEF Adds
<1>8. QED
  BY <1>6, <1>7 DEF Parsed

\* So does one within a request.
LEMMA AddsWithin ==
  ASSUME Peered, NEW e, Adds(e), NEW m \in 0 .. Len(sent) - 1, NEW cur \in Seq(Bytes),
         Within(m, cur)
  PROVE  Parsed'
<1>1. PICK k, c : k = m /\ c = cur
  OBVIOUS
<1>2. /\ Len(sent) \in Nat /\ k \in 0 .. Len(sent) /\ k + 1 \in 0 .. Len(sent)
      /\ k + 1 \in 1 .. Len(sent)
  BY <1>1, LengthNat
<1>3. /\ Heads(k)' = Heads(k) /\ Wholes(k)' = Wholes(k) /\ Heads(k + 1)' = Heads(k + 1)
  BY <1>2, PrefixTold
<1>4. sent'[k + 1] = sent[k + 1]
  BY <1>2 DEF Adds
<1>5. left' = c \o After(k + 1)'
  <2>1. After(k + 1)' = After(k + 1) \o e /\ left' = left \o e /\ e \in Seq(Bytes)
    BY <1>2 DEF Adds
  <2>2. left = c \o After(k + 1)
    BY <1>1 DEF Within
  <2> DEFINE w == After(k + 1)
  <2>3. w \in Seq(Bytes) /\ c \in Seq(Bytes)
    BY <1>1, <1>2, AfterFacts
  <2> HIDE DEF w
  <2>4. (c \o w) \o e = c \o (w \o e)
    BY <2>1, <2>3, ByteAssociate DEF Associative
  <2>5. QED
    BY <2>1, <2>2, <2>4 DEF w
<1>6. StillParser
  BY DEF StillParser, Adds, ParserIdle, Behind
<1>7. PICK r : r = sent[k + 1]
  OBVIOUS
<1>8. /\ InHead(r, c) => InHead(r, c)'
      /\ InRest(r, c) => InRest(r, c)'
  BY <1>6, HeadStill, RestStill
<1>9. Within(k, c)'
  BY <1>1, <1>3, <1>4, <1>5, <1>7, <1>8 DEF Within, Adds, ParserIdle
<1>10. k \in 0 .. Len(sent') - 1
  BY <1>1, <1>2 DEF Adds
<1>11. QED
  BY <1>1, <1>9, <1>10 DEF Parsed

\* What the peer adds at the end keeps the invariant.
LEMMA AddsStep ==
  ASSUME Inv, NEW e, Adds(e), Peered', state = "dead" => sent' = sent, ~Failed,
         Switched => Switched'
  PROVE  Inv'
<1>1. Framework'
  BY AddsFramework DEF Inv
<1>2. Held'
  BY DEF Inv, Held, Adds, ParserIdle
<1>3. Parsed'
  <2>1. CASE \E m \in 0 .. Len(sent) : Between(m)
    BY <2>1, AddsBetween DEF Inv
  <2>2. CASE \E m \in 0 .. Len(sent) - 1 : \E cur \in Seq(Bytes) : Within(m, cur)
    BY <2>2, AddsWithin DEF Inv
  <2>3. CASE Switched
    BY <2>3 DEF Parsed
  <2>4. QED
    BY <2>1, <2>2, <2>3 DEF Inv, Parsed
<1>4. QED
  BY <1>1, <1>2, <1>3 DEF Inv

\* A request sent keeps the invariant.
LEMMA SendsStep ==
  ASSUME Inv, NEW r \in Requests, PeerSends(r)
  PROVE  Inv'
<1>1. Framework /\ Held /\ Peered /\ Parsed
  BY DEF Inv
<1>2. /\ Len(sent) < MaxRequests /\ ~IsLast /\ ~broken
      /\ left' = left \o Encoded(r) /\ sent' = Append(sent, r)
      /\ ParserIdle /\ broken' = broken /\ protocol' = protocol /\ connections' = connections
  BY DEF PeerSends, ParserIdle, httpVars
<1>3. sent \in Seq(Requests) /\ Len(sent) \in Nat /\ MaxRequests \in Nat
  BY <1>1, ParserAssumption DEF Peered
<1>4. /\ sent' \in Seq(Requests) /\ Len(sent') = Len(sent) + 1 /\ sent' # <<>>
      /\ \A i \in 1 .. Len(sent) : sent'[i] = sent[i]
      /\ sent'[Len(sent) + 1] = r
  BY <1>2, <1>3
<1>5. sent # <<>> => sent[Len(sent)].kind \notin {"upgrade", "close"}
  BY <1>2 DEF IsLast, Last
<1>6. protocol = <<>> /\ Ending = <<>>
  BY <1>1, <1>2, <1>5, EndingFacts
<1>7. Ending' = <<>>
  BY <1>2, <1>6 DEF Ending
<1>8. Encoded(r) \in Seq(Bytes)
  BY EncodedFacts, ParserAssumption
<1>9. Peered'
  <2>1. Len(sent') <= MaxRequests
    BY <1>2, <1>3, <1>4
  <2>2. \A k \in 1 .. Len(sent') - 1 : sent'[k].kind \notin {"upgrade", "close"}
    <3>1. TAKE k \in 1 .. Len(sent') - 1
    <3>2. k \in 1 .. Len(sent) /\ sent'[k] = sent[k] /\ sent # <<>>
      BY <1>3, <1>4
    <3>3. CASE k = Len(sent)
      BY <1>5, <3>2, <3>3
    <3>4. CASE k # Len(sent)
      <4>1. k \in 1 .. Len(sent) - 1
        BY <1>3, <3>2, <3>4
      <4>2. QED
        BY <1>1, <3>2, <4>1 DEF Peered
    <3>5. QED
      BY <3>3, <3>4
  <2>3. QED
    BY <1>1, <1>2, <1>4, <1>6, <2>1, <2>2 DEF Peered
<1>10. \A m \in 0 .. Len(sent) : After(m)' = After(m) \o Encoded(r)
  <2>1. TAKE m \in 0 .. Len(sent)
  <2> DEFINE f == Encodings
             x == Encoded(r)
             B == Bytes
  <2>2. f \in Seq(Seq(B)) /\ Len(f) = Len(sent) /\ x \in Seq(B)
        /\ \A k \in 1 .. Len(sent) : f[k] = Encoded(sent[k])
    BY <1>1, <1>8, EncodingsType
  <2>3. Encodings' = Append(f, x)
    <3>1. PICK n, s, w : n = Len(sent) /\ s = sent' /\ w = Encodings'
      OBVIOUS
    <3>2. n \in Nat /\ Len(s) = n + 1 /\ s[n + 1] = r /\ Len(f) = n
          /\ \A i \in 1 .. n : s[i] = sent[i] /\ f[i] = Encoded(sent[i])
      BY <1>3, <1>4, <2>2, <3>1
    <3>3. w = [k \in 1 .. Len(s) |-> Encoded(s[k])]
      BY <3>1 DEF Encodings
    <3>4. \A i \in 1 .. n : Encoded(s[i]) = f[i] /\ f[i] \in Seq(B)
      BY <2>2, <3>2
    <3>5. Encoded(s[n + 1]) = x
      BY <3>2
    <3> DEFINE U == Seq(B)
    <3>6. x \in U /\ f \in Seq(U) /\ \A i \in 1 .. n : Encoded(s[i]) = f[i] /\ f[i] \in U
      BY <2>2, <3>4
    <3> HIDE DEF U, f, x, B
    <3>7. \A k \in 1 .. n + 1 : Encoded(s[k]) \in U
      <4>1. TAKE k \in 1 .. n + 1
      <4>2. CASE k = n + 1
        BY <3>5, <3>6, <4>2
      <4>3. CASE k # n + 1
        <5>1. k \in 1 .. n
          BY <3>2, <4>3
        <5>2. QED
          BY <3>6, <5>1
      <4>4. QED
        BY <4>2, <4>3
    <3>8. w = [k \in 1 .. n + 1 |-> Encoded(s[k])]
      BY <3>2, <3>3
    <3>9. w \in Seq(U) /\ Len(w) = n + 1 /\ \A k \in 1 .. n + 1 : w[k] = Encoded(s[k])
      BY <3>2, <3>7, <3>8
    <3>10. w[Len(f) + 1] = x /\ Len(w) = Len(f) + 1 /\ \A k \in 1 .. Len(f) : w[k] = f[k]
      BY <3>2, <3>5, <3>6, <3>9
    <3>11. w = Append(f, x)
      BY <3>6, <3>9, <3>10, AppendPointwise
    <3>12. QED
      BY <3>1, <3>11
  <2>4. After(m) = FlatFrom(f, m) \o <<>>
    BY <1>6 DEF After
  <2>5. After(m)' = FlatFrom(Append(f, x), m) \o <<>>
    BY <1>7, <2>3 DEF After
  <2> HIDE DEF f, x, B
  <2>6. FlatFrom(Append(f, x), m) = FlatFrom(f, m) \o x /\ FlatFrom(f, m) \in Seq(B)
    <3>1. m \in 0 .. Len(f)
      BY <2>2
    <3>2. QED
      BY <2>2, <3>1, FlatOfAppend, FlatFromFacts
  <2> DEFINE a == FlatFrom(f, m)
             b == a \o x
  <2>7. a \in Seq(Bytes) /\ x \in Seq(Bytes)
    BY <2>2, <2>6 DEF B
  <2> HIDE DEF a
  <2>8. b \in Seq(Bytes)
    BY <2>7, ByteConcat
  <2> HIDE DEF b
  <2>9. b \o <<>> = b /\ a \o <<>> = a
    BY <2>7, <2>8, ConcatEmptySeq
  <2>10. QED
    BY <2>4, <2>5, <2>6, <2>9 DEF a, b, x
<1>11. Adds(Encoded(r))
  <2>1. Len(sent') \in Nat /\ Len(sent) <= Len(sent')
    BY <1>3, <1>4
  <2>2. QED
    BY <1>2, <1>4, <1>8, <1>10, <2>1 DEF Adds
<1>12. ~Failed /\ ~Switched
  BY <1>2, <1>5 DEF Failed, Switched
<1>13. state # "dead"
  <2>1. SUFFICES ASSUME state = "dead" PROVE FALSE
    OBVIOUS
  <2>2. PICK m \in 0 .. Len(sent) : Between(m)
    BY <1>1, <1>12, <2>1, WithinState DEF Parsed, HeadStates, ListStates
  <2>3. sent[Len(sent)].kind = "close" /\ Len(sent) > 0
    BY <2>1, <2>2 DEF Between
  <2>4. sent # <<>>
    BY <2>3
  <2>5. QED
    BY <1>5, <2>3, <2>4
<1>14. QED
  BY <1>9, <1>11, <1>12, <1>13, AddsStep

\* A byte behind the last request.
LEMMA OneMore ==
  ASSUME Peered, NEW x, <<x>> \in Seq(Bytes), sent' = sent,
         Ending' = Ending \o <<x>>
  PROVE  \A m \in 0 .. Len(sent) : After(m)' = After(m) \o <<x>>
<1>1. TAKE m \in 0 .. Len(sent)
<1>2. PICK k : k = m
  OBVIOUS
<1> DEFINE f == FlatFrom(Encodings, m)
           g == Ending
           e == <<x>>
<1>3. g \in Seq(Bytes) /\ e \in Seq(Bytes)
  BY EndingFacts
<1>4. f \in Seq(Bytes)
  <2> DEFINE B == Bytes
             h == Encodings
  <2>1. h \in Seq(Seq(B)) /\ m \in 0 .. Len(h)
    BY EncodingsType
  <2> HIDE DEF B, h
  <2>2. FlatFrom(h, m) \in Seq(B)
    BY <2>1, FlatFromFacts
  <2>3. QED
    BY <2>2 DEF B, h
<1>5. After(k)' = FlatFrom(Encodings, k) \o (g \o e)
  <2>1. Encodings' = Encodings
    BY DEF Encodings
  <2>2. QED
    BY <2>1 DEF After
<1>6. After(m) = f \o g
  BY DEF After
<1>7. After(m)' = f \o (g \o e)
  BY <1>2, <1>5
<1> HIDE DEF f, g, e
<1>8. (f \o g) \o e = f \o (g \o e)
  BY <1>3, <1>4, ByteAssociate DEF Associative
<1>9. QED
  BY <1>6, <1>7, <1>8 DEF e

\* A byte at the end.
LEMMA AppendByte ==
  ASSUME NEW u \in Seq(Bytes), NEW x \in Bytes
  PROVE  Append(u, x) = u \o <<x>> /\ <<x>> \in Seq(Bytes)
OBVIOUS

\* A byte of the new protocol keeps the invariant.
LEMMA SpeaksStep ==
  ASSUME Inv, PeerSpeaks
  PROVE  Inv'
<1>1. Framework /\ Held /\ Peered /\ Parsed
  BY DEF Inv
<1>2. /\ sent # <<>> /\ sent[Len(sent)].kind = "upgrade"
      /\ left' = Append(left, "p") /\ protocol' = Append(protocol, "p")
      /\ ParserIdle /\ sent' = sent /\ broken' = broken /\ connections' = connections
  BY DEF PeerSpeaks, ParserIdle, httpVars, Last
<1>3. ~broken /\ protocol \in Seq({"p"}) /\ Ending = protocol
  BY <1>1, <1>2, EndingFacts DEF Peered
<1>4. "p" \in Bytes /\ left \in Seq(Bytes)
  BY <1>1, ByteSets DEF Framework
<1>5. protocol \in Seq(Bytes)
  BY <1>3, <1>1, EndingFacts
<1>6. left' = left \o <<"p">> /\ protocol' = protocol \o <<"p">> /\ <<"p">> \in Seq(Bytes)
      /\ protocol' \in Seq({"p"}) /\ protocol' \in Seq(Bytes)
  BY <1>2, <1>3, <1>4, <1>5, AppendByte
<1>7. Ending' = Ending \o <<"p">>
  <2>1. protocol' \o <<>> = protocol'
    BY <1>6, ConcatEmptySeq
  <2>2. QED
    BY <1>2, <1>3, <1>6, <2>1 DEF Ending
<1>8. Len(sent) \in Nat
  BY <1>1, LengthNat
<1>9. Adds(<<"p">>)
  <2>1. \A m \in 0 .. Len(sent) : After(m)' = After(m) \o <<"p">>
    BY <1>1, <1>2, <1>6, <1>7, OneMore
  <2>2. QED
    BY <1>2, <1>6, <1>8, <2>1 DEF Adds
<1>10. Peered'
  BY <1>1, <1>2, <1>3, <1>6 DEF Peered
<1>11. ~Failed
  BY <1>3 DEF Failed
<1>12. Switched => Switched'
  <2>1. SUFFICES ASSUME Switched PROVE Switched'
    OBVIOUS
  <2>2. left \in Seq({"p"}) /\ Len(left) <= Len(protocol)
    BY <2>1 DEF Switched
  <2>3. left' \in Seq({"p"}) /\ Len(left') <= Len(protocol')
    BY <1>2, <1>3, <2>2
  <2>4. /\ Heads(Len(sent))' = Heads(Len(sent))
        /\ Heads(Len(sent) - 1)' = Heads(Len(sent) - 1)
        /\ Wholes(Len(sent) - 1)' = Wholes(Len(sent) - 1)
    BY <1>2 DEF Heads, Wholes
  <2>5. QED
    BY <1>2, <2>1, <2>3, <2>4 DEF Switched, ParserIdle
<1>13. QED
  BY <1>2, <1>9, <1>10, <1>11, <1>12, AddsStep

\* A byte that is not HTTP keeps the invariant.
LEMMA BreaksStep ==
  ASSUME Inv, PeerBreaks
  PROVE  Inv'
<1>1. Framework /\ Held /\ Peered /\ Parsed
  BY DEF Inv
<1>2. /\ ~broken /\ broken' = TRUE /\ (sent # <<>> => sent[Len(sent)].kind # "upgrade")
      /\ left' = Append(left, "X") /\ protocol' = protocol
      /\ ParserIdle /\ sent' = sent /\ connections' = connections
  BY DEF PeerBreaks, ParserIdle, httpVars, Last
<1>3. protocol = <<>> /\ Ending = <<>>
  BY <1>1, <1>2, EndingFacts
<1>4. left' = left \o <<"X">> /\ <<"X">> \in Seq(Bytes)
  BY <1>1, <1>2, ByteSets, AppendByte DEF Framework
<1>5. Ending' = Ending \o <<"X">>
  BY <1>2, <1>3 DEF Ending
<1>6. Len(sent) \in Nat
  BY <1>1, LengthNat
<1>7. Adds(<<"X">>)
  <2>1. \A m \in 0 .. Len(sent) : After(m)' = After(m) \o <<"X">>
    BY <1>1, <1>2, <1>4, <1>5, OneMore
  <2>2. QED
    BY <1>2, <1>4, <1>6, <2>1 DEF Adds
<1>8. Peered'
  BY <1>1, <1>2, <1>3 DEF Peered
<1>9. ~Failed /\ ~Switched
  BY <1>2 DEF Failed, Switched
<1>10. QED
  BY <1>2, <1>7, <1>8, <1>9, AddsStep

\* So does a step of nobody.
LEMMA StutterStep ==
  ASSUME Inv, UNCHANGED vars
  PROVE  Inv'
<1>1. /\ left' = left /\ ParserIdle /\ PeerStill /\ connections' = connections
  BY DEF vars, httpVars, peerVars, ParserIdle, PeerStill
<1>2. Framework /\ Held /\ Peered /\ Parsed
  BY DEF Inv
<1>3. Framework'
  BY <1>1, <1>2 DEF Framework, ParserIdle
<1>4. Held'
  BY <1>1, <1>2 DEF Held, ParserIdle
<1>5. Peered'
  BY <1>1, <1>2, PeerKept
<1>6. CASE \E m \in 0 .. Len(sent) : Between(m)
  <2>1. StillBetween
    BY <1>1 DEF StillBetween, ParserIdle
  <2>2. Parsed'
    BY <1>6, <2>1, BetweenKept
  <2>3. QED
    BY <1>3, <1>4, <1>5, <2>2 DEF Inv
<1>7. CASE \E m \in 0 .. Len(sent) - 1 : \E cur \in Seq(Bytes) : Within(m, cur)
  <2>1. PICK m \in 0 .. Len(sent) - 1 : \E cur \in Seq(Bytes) : Within(m, cur)
    BY <1>7
  <2>2. PICK cur \in Seq(Bytes) : Within(m, cur)
    BY <2>1
  <2>3. StillParser /\ ondata' = ondata
    BY <1>1 DEF StillParser, ParserIdle, Behind
  <2>4. pending' \in (IF running' /\ state' \in Marked THEN Seq(Bytes) ELSE {Null})
    BY <1>4 DEF Held
  <2>5. Parsed'
    BY <1>1, <1>2, <2>2, <2>3, <2>4, WithinKept
  <2>6. QED
    BY <1>3, <1>4, <1>5, <2>5 DEF Inv
<1>8. CASE Switched \/ Failed
  <2>1. /\ Heads(Len(sent))' = Heads(Len(sent))
        /\ Heads(Len(sent) - 1)' = Heads(Len(sent) - 1)
        /\ Wholes(Len(sent))' = Wholes(Len(sent))
        /\ Wholes(Len(sent) - 1)' = Wholes(Len(sent) - 1)
    BY <1>1 DEF Heads, Wholes, PeerStill
  <2>2. Switched => Switched'
    BY <1>1, <2>1 DEF Switched, ParserIdle, PeerStill
  <2>3. Failed => Failed'
    BY <1>1, <2>1 DEF Failed, NotUpgraded, ParserIdle, PeerStill
  <2>4. QED
    BY <1>3, <1>4, <1>5, <1>8, <2>2, <2>3 DEF Inv, Parsed
<1>9. QED
  BY <1>2, <1>6, <1>7, <1>8 DEF Parsed

\* What the peer, the socket and the parser do keeps the invariant.
THEOREM Invariance == Spec => []Inv
<1>1. Init => Inv
  BY InitHolds
<1>2. Inv /\ [Next]_vars => Inv'
  <2>1. SUFFICES ASSUME Inv, [Next]_vars PROVE Inv'
    OBVIOUS
  <2>2. CASE Peer
    BY <2>1, <2>2, SendsStep, SpeaksStep, BreaksStep DEF Peer
  <2>3. CASE Socket
    BY <2>1, <2>3, SocketStep
  <2>4. CASE Parser
    BY <2>1, <2>4, ParserStep
  <2>5. CASE UNCHANGED vars
    BY <2>1, <2>5, StutterStep
  <2>6. QED
    BY <2>1, <2>2, <2>3, <2>4, <2>5 DEF Next
<1>3. QED
  BY <1>1, <1>2, PTL DEF Spec

-----------------------------------------------------------------------------
(* Lengths on the wire.                                                    *)

\* What follows k pieces is no longer than all of them.
LEMMA FlatShrinks ==
  ASSUME NEW T, NEW f \in Seq(Seq(T)), NEW k \in 0 .. Len(f)
  PROVE  Len(FlatFrom(f, k)) <= Len(FlatFrom(f, 0))
<1>1. Len(f) \in Nat /\ 0 \in 0 .. Len(f) /\ k \in 0 .. Len(f)
  OBVIOUS
<1> DEFINE a == Len(FlatTo(f, k))
           b == Len(FlatFrom(f, k))
           c == Len(FlatFrom(f, 0))
           d == Len(FlatTo(f, Len(f)))
           z == Len(FlatTo(f, 0))
<1>2. a + b = d /\ z + c = d
  BY <1>1, FlatLengths
<1>3. z <= a
  BY <1>1, FlatGrows
<1>4. FlatTo(f, k) \in Seq(T) /\ FlatTo(f, 0) \in Seq(T)
  BY <1>1, FlatToFacts
<1>5. FlatFrom(f, k) \in Seq(T) /\ FlatFrom(f, 0) \in Seq(T)
  BY <1>1, FlatFromFacts
<1>6. a \in Nat /\ b \in Nat /\ c \in Nat /\ z \in Nat
  BY <1>4, <1>5
<1> HIDE DEF a, b, c, d, z
<1>7. b <= c
  BY <1>2, <1>3, <1>6
<1>8. QED
  BY <1>7 DEF b, c

\* The lines and pieces behind a place are no more than those behind an earlier.
LEMMA LinesShrink ==
  ASSUME NEW hs \in Seq(AnyLines), NEW end \in Seq(Bytes), NEW i \in 0 .. Len(hs)
  PROVE  Len(AfterLines(hs, i, end)) <= Len(AfterLines(hs, 0, end))
<1> DEFINE f == LineSeq(hs)
           B == Bytes
<1>1. f \in Seq(Seq(B)) /\ Len(f) = Len(hs)
  BY LinesType
<1>2. AfterLines(hs, i, end) = FlatFrom(f, i) \o end /\ AfterLines(hs, 0, end) = FlatFrom(f, 0) \o end
  BY DEF AfterLines
<1>3. i \in 0 .. Len(f) /\ 0 \in 0 .. Len(f)
  BY <1>1
<1> HIDE DEF f, B
<1>4. Len(FlatFrom(f, i)) <= Len(FlatFrom(f, 0))
  BY <1>1, <1>3, FlatShrinks
<1>5. FlatFrom(f, i) \in Seq(B) /\ FlatFrom(f, 0) \in Seq(B)
  BY <1>1, <1>3, FlatFromFacts
<1> DEFINE a == FlatFrom(f, i)
           b == FlatFrom(f, 0)
<1>6. a \in Seq(Bytes) /\ b \in Seq(Bytes) /\ Len(a) <= Len(b)
  BY <1>4, <1>5 DEF B
<1>7. AfterLines(hs, i, end) = a \o end /\ AfterLines(hs, 0, end) = b \o end
  BY <1>2
<1> HIDE DEF a, b
<1>8. /\ Len(a \o end) = Len(a) + Len(end) /\ Len(b \o end) = Len(b) + Len(end)
      /\ Len(a) \in Nat /\ Len(b) \in Nat /\ Len(end) \in Nat
  BY <1>6, ByteConcat
<1>9. QED
  BY <1>6, <1>7, <1>8

\* What follows a field, with the field, is no longer than the list.
LEMMA LineShrinks ==
  ASSUME NEW hs \in Seq(AnyLines), NEW end \in Seq(Bytes), NEW i \in 1 .. Len(hs)
  PROVE  Len(hs[i].field) + Len(AfterPieces(hs, i, 0, end)) <= Len(AfterLines(hs, 0, end))
<1> DEFINE j == i - 1
           a == hs[i].field
           b == AfterPieces(hs, i, 0, end)
           c == AfterLines(hs, j, end)
<1>1. Len(hs) \in Nat /\ i \in Nat /\ j \in Nat /\ j \in 0 .. Len(hs) /\ j < Len(hs) /\ i = j + 1
  OBVIOUS
<1>2. Len(c) <= Len(AfterLines(hs, 0, end))
  BY <1>1, LinesShrink
<1> HIDE DEF j
<1>3. c = hs[j + 1].field \o AfterPieces(hs, j + 1, 0, end)
  BY <1>1, AfterLinesFacts
<1>4. c = a \o b
  BY <1>1, <1>3
<1>5. a \in Seq(Bytes) /\ Len(hs[i].value) \in Nat \ {0}
  BY LineFacts
<1>6. 0 \in 0 .. Len(hs[i].value)
  BY <1>5
<1>7. b \in Seq(Bytes)
  BY <1>6, AfterPiecesFacts
<1> HIDE DEF a, b
<1>8. Len(c) = Len(a) + Len(b)
  BY <1>4, <1>5, <1>7, ByteConcat
<1>9. QED
  BY <1>2, <1>8 DEF a, b

\* What follows p pieces of a value, with these, is no longer than all of them.
LEMMA PiecesShrink ==
  ASSUME NEW hs \in Seq(AnyLines), NEW end \in Seq(Bytes), NEW i \in 1 .. Len(hs)
  PROVE  \A p \in 0 .. Len(hs[i].value) :
           Len(FlatTo(hs[i].value, p)) + p + Len(AfterPieces(hs, i, p, end))
             <= Len(AfterPieces(hs, i, 0, end))
<1> DEFINE val == hs[i].value
           n == Len(val)
           A(p) == AfterPieces(hs, i, p, end)
           P(p) == Len(FlatTo(val, p)) + p + Len(A(p)) <= Len(A(0))
           S == {p \in Nat : p <= n => P(p)}
<1>1. val \in Seq(Seq(Bytes)) /\ n \in Nat \ {0}
  BY LineFacts
<1>2. ASSUME NEW p \in 0 .. n
      PROVE  /\ FlatTo(val, p) \in Seq(Bytes) /\ A(p) \in Seq(Bytes)
             /\ FlatTo(val, 0) = <<>>
             /\ p < n => /\ val[p + 1] \in Seq(Bytes)
                         /\ FlatTo(val, p + 1) = FlatTo(val, p) \o val[p + 1]
                         /\ A(p) = <<IF p = 0 THEN ":" ELSE " ">> \o
                                     (val[p + 1] \o (<<"N">> \o A(p + 1)))
  <2>1. /\ A(p) \in Seq(Bytes)
        /\ p < n => /\ val[p + 1] \in Seq(Bytes)
                    /\ A(p) = <<IF p = 0 THEN ":" ELSE " ">> \o
                                (val[p + 1] \o (<<"N">> \o A(p + 1)))
    BY AfterPiecesFacts
  <2> DEFINE B == Bytes
  <2>2. val \in Seq(Seq(B)) /\ p \in 0 .. Len(val)
    BY <1>1
  <2> HIDE DEF val, B
  <2>3. /\ FlatTo(val, p) \in Seq(B) /\ FlatTo(val, 0) = <<>>
        /\ p < Len(val) => FlatTo(val, p + 1) = FlatTo(val, p) \o val[p + 1]
    BY <2>2, FlatToFacts
  <2> USE DEF B
  <2>4. QED
    BY <2>1, <2>3
<1> HIDE DEF val
<1>3. 0 \in S
  <2>1. 0 \in 0 .. n
    BY <1>1
  <2> DEFINE b == A(0)
  <2>2. FlatTo(val, 0) = <<>> /\ b \in Seq(Bytes)
    BY <1>2, <2>1
  <2> HIDE DEF b, A
  <2>3. Len(FlatTo(val, 0)) = 0 /\ Len(b) \in Nat
    BY <2>2
  <2>4. Len(FlatTo(val, 0)) + 0 + Len(b) <= Len(b)
    BY <2>3
  <2>5. QED
    BY <2>4 DEF b
<1>4. ASSUME NEW p \in Nat, p \in S
      PROVE  p + 1 \in S
  <2>1. SUFFICES ASSUME p + 1 <= n PROVE P(p + 1)
    OBVIOUS
  <2>2. p \in 0 .. n /\ p < n /\ p + 1 \in 0 .. n
    BY <1>1, <2>1
  <2>3. P(p)
    BY <1>4, <2>2
  <2> DEFINE x == IF p = 0 THEN ":" ELSE " "
             v == val[p + 1]
             t == FlatTo(val, p)
             u == FlatTo(val, p + 1)
             a == A(p)
             b == A(p + 1)
             c == A(0)
             q == p + 1
             y == <<"N">> \o b
             w == v \o y
  <2>4. /\ t \in Seq(Bytes) /\ a \in Seq(Bytes) /\ v \in Seq(Bytes) /\ u = t \o v
        /\ a = <<x>> \o w
    BY <1>2, <2>2
  <2>5. b \in Seq(Bytes)
    BY <1>2, <2>2
  <2>6. x \in Bytes /\ "N" \in Bytes
    BY ByteSets
  <2>7. Len(t) + p + Len(a) <= Len(c)
    BY <2>3
  <2> HIDE DEF A, x, v, t, u, a, b, c
  <2>8. y \in Seq(Bytes) /\ Len(y) = 1 + Len(b)
    BY <2>5, <2>6, ByteOne
  <2> HIDE DEF y
  <2>9. w \in Seq(Bytes) /\ Len(w) = Len(v) + Len(y)
    BY <2>4, <2>8, ByteConcat
  <2> HIDE DEF w
  <2>10. Len(a) = 1 + Len(w) /\ Len(u) = Len(t) + Len(v)
    BY <2>4, <2>6, <2>9, ByteOne, ByteConcat
  <2>11. Len(t) \in Nat /\ Len(v) \in Nat /\ Len(b) \in Nat
    BY <2>4, <2>5
  <2>12. Len(a) = 1 + (Len(v) + (1 + Len(b))) /\ Len(u) = Len(t) + Len(v)
    BY <2>8, <2>9, <2>10
  <2> DEFINE lt == Len(t)
             lv == Len(v)
             lb == Len(b)
             la == Len(a)
             lu == Len(u)
             lc == Len(c)
  <2> HIDE DEF lt, lv, lb, la, lu, lc
  <2>13. la = 1 + (lv + (1 + lb)) /\ lu = lt + lv /\ lt \in Nat /\ lv \in Nat /\ lb \in Nat
         /\ lt + p + la <= lc
    BY <2>7, <2>11, <2>12 DEF lt, lv, lb, la, lu, lc
  <2>14. lc \in Nat
    <3>1. 0 \in 0 .. n
      BY <1>1
    <3>2. c \in Seq(Bytes)
      BY <1>2, <3>1 DEF c, A
    <3>3. QED
      BY <3>2 DEF lc
  <2>15. lu + (p + 1) + lb <= lc
    BY <2>13, <2>14
  <2>16. QED
    BY <2>15 DEF lu, lb, lc, u, b, c
<1>5. \A p \in Nat : p \in S => p + 1 \in S
  BY <1>4
<1> HIDE DEF P
<1>6. \A p \in Nat : p \in S
  <2> HIDE DEF S
  <2>1. QED
    BY <1>3, <1>5, NatSetInduction
<1>7. \A p \in 0 .. n : P(p)
  BY <1>1, <1>6
<1>8. QED
  BY <1>7 DEF P, val

\* A suffix is no longer than the whole.
LEMMA SuffixLength ==
  ASSUME NEW a \in Seq(Bytes), NEW b \in Seq(Bytes), NEW u \in Seq(Bytes)
  PROVE  Len(u) <= Len(a \o (b \o u))
<1> DEFINE v == b \o u
<1>1. v \in Seq(Bytes) /\ Len(v) = Len(b) + Len(u)
  BY ByteConcat
<1> HIDE DEF v
<1>2. Len(a \o v) = Len(a) + Len(v)
  BY <1>1, ByteConcat
<1>3. Len(a) \in Nat /\ Len(b) \in Nat /\ Len(u) \in Nat
  OBVIOUS
<1>4. QED
  BY <1>1, <1>2, <1>3 DEF v

\* What is still to come of a list is no more than the list.
LEMMA ListBound ==
  ASSUME NEW hs, NEW base, NEW before, NEW seen, NEW cur, NEW end,
         ListOf(hs, base, before, seen, cur, end), ParserTyped,
         InLines(hs, base, before, seen, cur, end)
  PROVE  Len(cur) <= Len(AfterLines(hs, 0, end))
<1>1. hs \in Seq(AnyLines) /\ end \in Seq(Bytes) /\ cur \in Seq(Bytes) /\ "N" \in Bytes
  BY ByteSets DEF ListOf
<1> DEFINE all == Len(AfterLines(hs, 0, end))
<1>2. all \in Nat /\ Len(cur) \in Nat
  <2>1. 0 \in 0 .. Len(hs)
    BY <1>1
  <2>2. AfterLines(hs, 0, end) \in Seq(Bytes)
    BY <1>1, <2>1, AfterLinesFacts
  <2>3. QED
    BY <1>1, <2>2
<1>3. Behind \in Seq(Bytes) /\ GotField(js) \in Seq(Bytes) /\ GotValue(js) \in Seq(Bytes)
  <2>1. js.field \in Seq(Bytes) \cup {Null} /\ js.value \in Seq(Bytes) \cup {Null}
    BY HandlersType DEF ParserTyped
  <2>2. <<>> \in Seq(Bytes)
    OBVIOUS
  <2>3. QED
    BY <2>1, <2>2, PendingTyped DEF GotField, GotValue
<1> HIDE DEF all
\* A line holds its pieces and its field besides.
<1>4. ASSUME NEW i \in 1 .. Len(hs), NEW p \in 0 .. Len(hs[i].value), NEW l \in Nat,
             l <= Len(FlatTo(hs[i].value, p)) + p + Len(AfterPieces(hs, i, p, end))
      PROVE  l <= all
  <2> DEFINE a == Len(AfterPieces(hs, i, 0, end))
             f == Len(hs[i].field)
             s == Len(FlatTo(hs[i].value, p)) + p + Len(AfterPieces(hs, i, p, end))
  <2>1. s <= a
    BY <1>1, PiecesShrink
  <2>2. f + a <= all
    BY <1>1, LineShrinks DEF all
  <2>3. f \in Nat /\ 0 \in 0 .. Len(hs[i].value) /\ hs[i].value \in Seq(Seq(Bytes))
    <3>1. hs[i].field \in Seq(Bytes) /\ Len(hs[i].value) \in Nat \ {0}
          /\ hs[i].value \in Seq(Seq(Bytes))
      BY <1>1, LineFacts
    <3>2. QED
      BY <3>1
  <2>4. AfterPieces(hs, i, 0, end) \in Seq(Bytes) /\ AfterPieces(hs, i, p, end) \in Seq(Bytes)
    BY <1>1, <2>3, AfterPiecesFacts
  <2>5. FlatTo(hs[i].value, p) \in Seq(Bytes)
    <3> DEFINE B == Bytes
               val == hs[i].value
    <3>1. val \in Seq(Seq(B)) /\ p \in 0 .. Len(val)
      BY <2>3
    <3> HIDE DEF val, B
    <3>2. FlatTo(val, p) \in Seq(B)
      BY <3>1, FlatToFacts
    <3>3. QED
      BY <3>2 DEF val, B
  <2>6. a \in Nat /\ s \in Nat
    <3> DEFINE x == FlatTo(hs[i].value, p)
               y == AfterPieces(hs, i, p, end)
    <3>1. x \in Seq(Bytes) /\ y \in Seq(Bytes) /\ p \in Nat
      BY <2>4, <2>5
    <3> HIDE DEF x, y
    <3>2. Len(x) + p + Len(y) \in Nat
      BY <3>1
    <3>3. QED
      BY <2>4, <3>2 DEF x, y
  <2> HIDE DEF a, f, s
  <2>7. l <= s
    BY <1>4 DEF s
  <2>8. QED
    BY <1>2, <2>1, <2>2, <2>3, <2>6, <2>7
<1>5. ASSUME NEW i \in 1 .. Len(hs), InField(hs, base, before, cur, end, i)
      PROVE  Len(cur) <= all
  <2>1. PICK u \in Seq(FieldBytes) : /\ hs[i].field = GotField(js) \o (Behind \o u)
                                     /\ cur = u \o AfterPieces(hs, i, 0, end)
    BY <1>5 DEF InField
  <2> DEFINE b == AfterPieces(hs, i, 0, end)
             f == hs[i].field
             g == GotField(js)
             h == Behind
  <2>2. u \in Seq(Bytes)
    BY ByteSets, SeqOfSubset
  <2>3. Len(f) + Len(b) <= all
    BY <1>1, LineShrinks DEF all
  <2>4. f \in Seq(Bytes) /\ b \in Seq(Bytes)
    <3>1. hs[i].field \in Seq(Bytes) /\ Len(hs[i].value) \in Nat \ {0}
      BY <1>1, LineFacts
    <3>2. 0 \in 0 .. Len(hs[i].value)
      BY <3>1
    <3>3. QED
      BY <1>1, <3>1, <3>2, AfterPiecesFacts
  <2>5. g \in Seq(Bytes) /\ h \in Seq(Bytes) /\ f = g \o (h \o u) /\ cur = u \o b
    BY <1>3, <2>1
  <2> HIDE DEF b, f, g, h
  <2>6. Len(u) <= Len(f) /\ Len(cur) = Len(u) + Len(b)
    BY <2>2, <2>4, <2>5, SuffixLength, ByteConcat
  <2>7. Len(u) \in Nat /\ Len(f) \in Nat /\ Len(b) \in Nat
    BY <2>2, <2>4
  <2>8. QED
    BY <1>2, <2>3, <2>6, <2>7
<1>6. ASSUME NEW i \in 1 .. Len(hs), NEW p \in 0 .. Len(hs[i].value) - 1,
             NEW u \in Seq(Bytes), Len(u) <= Len(FlatTo(hs[i].value, p + 1)),
             cur = u \o (<<"N">> \o AfterPieces(hs, i, p + 1, end))
      PROVE  Len(cur) <= all
  <2> DEFINE b == AfterPieces(hs, i, p + 1, end)
             y == <<"N">> \o b
             t == FlatTo(hs[i].value, p + 1)
             q == p + 1
  <2>1. b \in Seq(Bytes) /\ t \in Seq(Bytes) /\ q \in 0 .. Len(hs[i].value)
    BY <1>1, ValueFacts
  <2>2. cur = u \o y /\ Len(u) <= Len(t)
    BY <1>6
  <2>3. q \in Nat /\ q >= 1
    OBVIOUS
  <2> HIDE DEF b, t, q
  <2>4. y \in Seq(Bytes) /\ Len(y) = 1 + Len(b)
    BY <1>1, <2>1, ByteOne
  <2> HIDE DEF y
  <2>5. Len(cur) = Len(u) + Len(y)
    BY <2>2, <2>4, ByteConcat
  <2>6. Len(u) \in Nat /\ Len(t) \in Nat /\ Len(b) \in Nat
    BY <2>1
  <2>7. Len(cur) <= Len(t) + q + Len(b)
    BY <2>2, <2>3, <2>4, <2>5, <2>6
  <2>8. b = AfterPieces(hs, i, q, end) /\ t = FlatTo(hs[i].value, q)
    BY DEF b, t, q
  <2>9. QED
    BY <1>2, <1>4, <2>1, <2>7, <2>8
<1>7. ASSUME NEW i \in 1 .. Len(hs), InValueStart(hs, base, before, cur, end, i)
      PROVE  Len(cur) <= all
  <2>1. PICK p \in 0 .. Len(hs[i].value) - 1 :
          cur = hs[i].value[p + 1] \o (<<"N">> \o AfterPieces(hs, i, p + 1, end))
    BY <1>7 DEF InValueStart
  <2> DEFINE v == hs[i].value[p + 1]
             s == FlatTo(hs[i].value, p)
             t == FlatTo(hs[i].value, p + 1)
  <2>2. v \in Seq(Bytes) /\ s \in Seq(Bytes) /\ t = s \o v
    BY <1>1, ValueFacts
  <2>3. cur = v \o (<<"N">> \o AfterPieces(hs, i, p + 1, end))
    BY <2>1
  <2> HIDE DEF v, s
  <2>4. Len(v) <= Len(t)
    <3>1. Len(s \o v) = Len(s) + Len(v) /\ Len(s) \in Nat /\ Len(v) \in Nat
      BY <2>2, ByteConcat
    <3> HIDE DEF t
    <3>2. QED
      BY <2>2, <3>1
  <2>5. QED
    BY <1>6, <2>2, <2>3, <2>4
<1>8. ASSUME NEW i \in 1 .. Len(hs), InValue(hs, base, before, seen, cur, end, i)
      PROVE  Len(cur) <= all
  <2>1. PICK p \in 0 .. Len(hs[i].value) - 1 : \E u \in Seq(ValueBytes) :
          /\ FlatTo(hs[i].value, p + 1) = GotValue(js) \o (Behind \o u)
          /\ cur = u \o (<<"N">> \o AfterPieces(hs, i, p + 1, end))
    BY <1>8 DEF InValue
  <2>2. PICK u \in Seq(ValueBytes) :
          /\ FlatTo(hs[i].value, p + 1) = GotValue(js) \o (Behind \o u)
          /\ cur = u \o (<<"N">> \o AfterPieces(hs, i, p + 1, end))
    BY <2>1
  <2>3. u \in Seq(Bytes)
    BY ByteSets, SeqOfSubset
  <2>4. Len(u) <= Len(GotValue(js) \o (Behind \o u))
    BY <1>3, <2>3, SuffixLength
  <2>5. Len(u) <= Len(FlatTo(hs[i].value, p + 1))
    BY <2>2, <2>4
  <2>6. QED
    BY <1>6, <2>2, <2>3, <2>5
<1>9. ASSUME NEW i \in 1 .. Len(hs), InValueLws(hs, base, before, seen, cur, end, i)
      PROVE  Len(cur) <= all
  <2>1. PICK p \in 1 .. Len(hs[i].value) : cur = AfterPieces(hs, i, p, end)
    BY <1>9 DEF InValueLws
  <2> DEFINE s == FlatTo(hs[i].value, p)
             val == hs[i].value
             B == Bytes
  <2>2. val \in Seq(Seq(B)) /\ p \in 0 .. Len(val) /\ p \in Nat
    <3>1. hs[i].value \in Seq(Seq(Bytes)) /\ Len(hs[i].value) \in Nat \ {0}
      BY <1>1, LineFacts
    <3>2. QED
      BY <3>1
  <2> HIDE DEF val, B
  <2>3. FlatTo(val, p) \in Seq(B)
    BY <2>2, FlatToFacts
  <2>4. Len(s) \in Nat
    BY <2>3 DEF val
  <2> HIDE DEF s
  <2>5. Len(cur) <= Len(s) + p + Len(cur)
    BY <1>2, <2>2, <2>4
  <2>6. Len(cur) <= Len(FlatTo(hs[i].value, p)) + p + Len(AfterPieces(hs, i, p, end))
    BY <2>1, <2>5 DEF s
  <2>7. p \in 0 .. Len(hs[i].value)
    BY <2>2 DEF val
  <2>8. QED
    BY <1>2, <1>4, <2>6, <2>7
<1>10. CASE InFieldStart(hs, base, before, cur, end)
  <2>1. cur = AfterLines(hs, 0, end)
    BY <1>10 DEF InFieldStart
  <2>2. QED
    BY <1>2, <2>1 DEF all
<1>11. QED
  BY <1>5, <1>7, <1>8, <1>9, <1>10 DEF InLines, all

\* What is to come of a request's head and rest is no longer than the request.
LEMMA HeadBound ==
  ASSUME NEW r, RequestType(r), NEW cur, InHead(r, cur), ParserTyped
  PROVE  Len(cur) <= Len(Encoded(r))
<1> DEFINE d == AfterLines(Lined(r), 0, EndOfHead(r))
           v == AfterUrl(r)
           a == r.url
           w == a \o v
<1>1. /\ v = <<"V">> \o d /\ d \in Seq(Bytes) /\ v \in Seq(Bytes) /\ a \in Seq(Bytes)
      /\ Encoded(r) = <<"M">> \o w /\ "M" \in Bytes /\ "V" \in Bytes
      /\ cur \in Seq(Bytes)
  BY EncodedFacts, RequestFacts, ByteSets DEF AfterUrl, InHead
<1>2. InHeaders(r, cur) => Len(cur) <= Len(d)
  <2>1. SUFFICES ASSUME InHeaders(r, cur) PROVE Len(cur) <= Len(d)
    OBVIOUS
  <2>2. ListOf(Lined(r), <<>>, Before, Seen(r), cur, EndOfHead(r))
    BY <1>1, HeadList
  <2>3. InLines(Lined(r), <<>>, Before, Seen(r), cur, EndOfHead(r))
    BY <2>1 DEF InHeaders
  <2>4. QED
    BY <2>2, <2>3, ListBound
<1>3. InUrlStart(r, cur) => cur = w
  BY DEF InUrlStart
<1>4. InUrl(r, cur) => \E u \in Seq(Bytes) : Len(u) <= Len(a) /\ cur = u \o v
  <2>1. SUFFICES ASSUME InUrl(r, cur)
                 PROVE  \E u \in Seq(Bytes) : Len(u) <= Len(a) /\ cur = u \o v
    OBVIOUS
  <2>2. PICK u \in Seq(UrlBytes) : r.url = js.incoming.url \o (Behind \o u) /\ cur = u \o v
    BY <2>1 DEF InUrl
  <2>3. u \in Seq(Bytes)
    BY ByteSets, SeqOfSubset
  <2>4. js.incoming.url \in Seq(Bytes) /\ Behind \in Seq(Bytes)
    BY PendingTyped, MessagesType
  <2> DEFINE x == js.incoming.url
             y == Behind
  <2> HIDE DEF x, y, v, a
  <2>5. Len(u) <= Len(x \o (y \o u))
    BY <2>3, <2>4, SuffixLength DEF x, y
  <2>6. Len(u) <= Len(a)
    BY <2>2, <2>5 DEF x, y, a
  <2>7. QED
    BY <2>2, <2>3, <2>6
<1> HIDE DEF d, v, a
<1>5. /\ w \in Seq(Bytes) /\ Len(w) = Len(a) + Len(v) /\ Len(v) = 1 + Len(d)
      /\ Len(a) \in Nat /\ Len(d) \in Nat
  BY <1>1, ByteConcat, ByteOne
<1> HIDE DEF w
<1>6. Len(Encoded(r)) = 1 + Len(w) /\ Len(v) \in Nat /\ Len(cur) \in Nat /\ Len(w) \in Nat
  <2>1. Len(<<"M">> \o w) = 1 + Len(w)
    BY <1>1, <1>5, ByteOne
  <2>2. Len(v) \in Nat /\ Len(cur) \in Nat /\ Len(w) \in Nat
    BY <1>1, <1>5
  <2>3. Encoded(r) = <<"M">> \o w
    BY <1>1
  <2>4. QED
    BY <2>1, <2>2, <2>3
<1>7. CASE InUrlStart(r, cur)
  BY <1>3, <1>5, <1>6, <1>7
<1>8. CASE InUrl(r, cur)
  <2>1. PICK u \in Seq(Bytes) : Len(u) <= Len(a) /\ cur = u \o v
    BY <1>4, <1>8
  <2>2. Len(cur) = Len(u) + Len(v) /\ Len(u) \in Nat
    BY <1>1, <2>1, ByteConcat
  <2>3. QED
    BY <1>5, <1>6, <2>1, <2>2
<1>9. CASE InHeaders(r, cur)
  BY <1>2, <1>5, <1>6, <1>9
<1>10. QED
  BY <1>7, <1>8, <1>9 DEF InHead

\* The requests' lengths, and what of the connection is still to come.
LEMMA WireFacts ==
  ASSUME Peered
  PROVE  /\ \A k \in 0 .. Len(sent) :
              /\ WireLength(k) \in Nat
              /\ WireLength(k) + Len(After(k)) = WireLength(Len(sent)) + Len(Ending)
              /\ Len(After(k)) \in Nat
         /\ \A k \in 0 .. Len(sent) - 1 :
              WireLength(k + 1) = WireLength(k) + Len(Encoded(sent[k + 1]))
         /\ \A j \in 0 .. Len(sent) : \A k \in j .. Len(sent) : WireLength(j) <= WireLength(k)
         /\ Len(Ending) = Len(protocol) + (IF broken THEN 1 ELSE 0)
         /\ Len(protocol) \in Nat
<1> DEFINE f == Encodings
           n == Len(sent)
           B == Bytes
<1>1. /\ f \in Seq(Seq(B)) /\ Len(f) = n /\ n \in Nat
      /\ \A k \in 1 .. n : f[k] = Encoded(sent[k]) /\ Encoded(sent[k]) \in Seq(Bytes)
  BY EncodingsType
<1>2. Ending \in Seq(Bytes)
  BY EndingFacts
<1>3. \A k \in 0 .. n : WireLength(k) = Len(FlatTo(f, k))
  <2>1. TAKE k \in 0 .. n
  <2> HIDE DEF f, n, B
  <2>2. SubSeq(f, 1, k) = [i \in 1 .. k |-> f[i]]
    BY <1>1, <2>1
  <2>3. [i \in 1 .. k |-> f[i]] = [i \in 1 .. k |-> Encoded(sent[i])]
    BY <1>1, <2>1
  <2>4. QED
    BY <2>2, <2>3 DEF WireLength, FlatTo
<1>4. \A k \in 0 .. n : After(k) = FlatFrom(f, k) \o Ending
  BY DEF After
<1> HIDE DEF f, n, B
<1>5. ASSUME NEW k \in 0 .. n
      PROVE  /\ FlatTo(f, k) \in Seq(B) /\ FlatFrom(f, k) \in Seq(B)
             /\ Len(FlatTo(f, k)) + Len(FlatFrom(f, k)) = Len(FlatTo(f, n))
             /\ k < n => FlatTo(f, k + 1) = FlatTo(f, k) \o f[k + 1]
  <2>1. k \in 0 .. Len(f)
    BY <1>1
  <2>2. QED
    BY <1>1, <2>1, FlatToFacts, FlatFromFacts, FlatLengths
<1>6. ASSUME NEW k \in 0 .. n
      PROVE  /\ WireLength(k) \in Nat
             /\ WireLength(k) + Len(After(k)) = WireLength(n) + Len(Ending)
             /\ Len(After(k)) \in Nat
  <2> DEFINE a == FlatTo(f, k)
             b == FlatFrom(f, k)
  <2>1. a \in Seq(Bytes) /\ b \in Seq(Bytes) /\ Len(a) + Len(b) = Len(FlatTo(f, n))
    BY <1>5 DEF B
  <2>2. n \in 0 .. n
    BY <1>1
  <2>3. WireLength(k) = Len(a) /\ WireLength(n) = Len(FlatTo(f, n)) /\ After(k) = b \o Ending
    BY <1>3, <1>4, <2>2
  <2> HIDE DEF a, b
  <2>4. Len(b \o Ending) = Len(b) + Len(Ending)
    BY <1>2, <2>1, ByteConcat
  <2>5. Len(a) \in Nat /\ Len(b) \in Nat /\ Len(Ending) \in Nat
    BY <1>2, <2>1
  <2> DEFINE la == Len(a)
             lb == Len(b)
             le == Len(Ending)
             ln == Len(FlatTo(f, n))
             ll == Len(After(k))
  <2>6. la \in Nat /\ lb \in Nat /\ le \in Nat /\ la + lb = ln /\ ll = lb + le
    BY <2>1, <2>3, <2>4, <2>5
  <2>7. WireLength(k) = la /\ WireLength(n) = ln
    BY <2>3
  <2> HIDE DEF la, lb, le, ln, ll
  <2>8. la + ll = ln + le /\ ll \in Nat
    BY <2>6
  <2>9. QED
    BY <2>6, <2>7, <2>8 DEF le, ll
<1>7. ASSUME NEW k \in 0 .. n - 1
      PROVE  WireLength(k + 1) = WireLength(k) + Len(Encoded(sent[k + 1]))
  <2>1. k \in 0 .. n /\ k + 1 \in 0 .. n /\ k + 1 \in 1 .. n /\ k < n
    BY <1>1
  <2> DEFINE a == FlatTo(f, k)
             c == FlatTo(f, k + 1)
             e == Encoded(sent[k + 1])
  <2>2. a \in Seq(Bytes) /\ e \in Seq(Bytes) /\ c = a \o e
    BY <1>1, <1>5, <2>1 DEF B
  <2>3. WireLength(k) = Len(a) /\ WireLength(k + 1) = Len(c)
    BY <1>3, <2>1
  <2> HIDE DEF a, c, e
  <2>4. Len(c) = Len(a) + Len(e)
    BY <2>2, ByteConcat
  <2>5. QED
    BY <2>3, <2>4 DEF e
<1>8. ASSUME NEW j \in 0 .. n, NEW k \in j .. n
      PROVE  WireLength(j) <= WireLength(k)
  <2>1. k \in 0 .. n /\ j \in 0 .. Len(f) /\ k \in j .. Len(f)
    BY <1>1
  <2>2. Len(FlatTo(f, j)) <= Len(FlatTo(f, k))
    BY <1>1, <2>1, FlatGrows
  <2>3. QED
    BY <1>3, <2>1, <2>2
<1>9. Len(Ending) = Len(protocol) + (IF broken THEN 1 ELSE 0) /\ Len(protocol) \in Nat
  <2> DEFINE e == IF broken THEN <<"X">> ELSE <<>>
  <2>1. protocol \in Seq({"p"}) /\ {"p"} \subseteq Bytes /\ "X" \in Bytes
    BY ByteSets DEF Peered
  <2>2. protocol \in Seq(Bytes)
    BY <2>1, SeqOfSubset
  <2>3. e \in Seq(Bytes) /\ Len(e) = (IF broken THEN 1 ELSE 0)
    BY <2>1
  <2>4. Ending = protocol \o e
    BY DEF Ending
  <2> HIDE DEF e
  <2>5. Len(protocol \o e) = Len(protocol) + Len(e)
    BY <2>2, <2>3, ByteConcat
  <2>6. QED
    BY <2>2, <2>3, <2>4, <2>5
<1>10. QED
  BY <1>6, <1>7, <1>8, <1>9 DEF n

\* A request is more than its head, and no head is empty.
LEMMA HeadLengths ==
  ASSUME Peered, NEW k \in 0 .. Len(sent) - 1
  PROVE  /\ Len(RequestHead(sent[k + 1])) \in Nat \ {0} /\ Len(Rest(sent[k + 1])) \in Nat
         /\ Len(Encoded(sent[k + 1])) = Len(RequestHead(sent[k + 1])) + Len(Rest(sent[k + 1]))
<1>1. k + 1 \in 1 .. Len(sent)
  BY LengthNat
<1>2. RequestType(sent[k + 1])
  BY <1>1, EncodingsType
<1>3. ASSUME NEW r, RequestType(r)
      PROVE  /\ Len(RequestHead(r)) \in Nat \ {0} /\ Len(Rest(r)) \in Nat
             /\ Len(Encoded(r)) = Len(RequestHead(r)) + Len(Rest(r))
  <2>1. Rest(r) \in Seq(Bytes)
    BY <1>3, RestFacts
  <2>2. Len(Rest(r)) \in Nat
    BY <2>1
  <2>3. QED
    BY <1>3, <2>2, EncodedFacts
<1>4. QED
  BY <1>2, <1>3

\* Which requests, and which heads, are in so many bytes.
LEMMA WholesArrived ==
  ASSUME Peered, NEW m \in 0 .. Len(sent), NEW c \in Int, WireLength(m) <= c,
         m < Len(sent) => c < WireLength(m + 1)
  PROVE  \A k \in 1 .. Len(sent) : WireLength(k) <= c <=> k <= m
<1>1. TAKE k \in 1 .. Len(sent)
<1>2. Len(sent) \in Nat
  BY LengthNat
<1>3. /\ k \in 0 .. Len(sent) /\ WireLength(k) \in Nat /\ WireLength(m) \in Nat
      /\ m < Len(sent) => m + 1 \in 0 .. Len(sent) /\ WireLength(m + 1) \in Nat
  <2>1. k \in 0 .. Len(sent) /\ (m < Len(sent) => m + 1 \in 0 .. Len(sent))
    BY <1>2
  <2>2. QED
    BY <2>1, WireFacts
<1>4. CASE k <= m
  <2>1. m \in k .. Len(sent)
    BY <1>2, <1>4
  <2>2. WireLength(k) <= WireLength(m)
    BY <1>3, <2>1, WireFacts
  <2>3. QED
    BY <1>3, <1>4, <2>2
<1>5. CASE ~(k <= m)
  <2>1. k \in m + 1 .. Len(sent) /\ m + 1 \in 0 .. Len(sent) /\ m < Len(sent)
    BY <1>2, <1>5
  <2>2. WireLength(m + 1) <= WireLength(k)
    BY <2>1, WireFacts
  <2>3. QED
    BY <1>3, <1>5, <2>1, <2>2
<1>6. QED
  BY <1>4, <1>5

\* The heads that have arrived are the first h when the count of bytes lies
\* between the ends of heads h and h + 1.
LEMMA HeadsArrived ==
  ASSUME Peered, NEW h \in 0 .. Len(sent), NEW c \in Int,
         h > 0 => WireLength(h - 1) + Len(RequestHead(sent[h])) <= c,
         h < Len(sent) => c < WireLength(h) + Len(RequestHead(sent[h + 1]))
  PROVE  \A k \in 1 .. Len(sent) :
           WireLength(k - 1) + Len(RequestHead(sent[k])) <= c <=> k <= h
<1>1. TAKE k \in 1 .. Len(sent)
<1> DEFINE j == k - 1
           e == Len(RequestHead(sent[k]))
<1>2. Len(sent) \in Nat
  BY LengthNat
<1>3. j \in 0 .. Len(sent) - 1 /\ j \in 0 .. Len(sent) /\ k \in 0 .. Len(sent) /\ j + 1 = k
  BY <1>2
<1> HIDE DEF j
<1>4. /\ e \in Nat \ {0} /\ WireLength(j) \in Nat /\ WireLength(k) \in Nat
      /\ WireLength(j) + e <= WireLength(k)
  <2>1. /\ Len(RequestHead(sent[j + 1])) \in Nat \ {0} /\ Len(Rest(sent[j + 1])) \in Nat
        /\ Len(Encoded(sent[j + 1])) = Len(RequestHead(sent[j + 1])) + Len(Rest(sent[j + 1]))
    BY <1>3, HeadLengths
  <2>2. WireLength(j + 1) = WireLength(j) + Len(Encoded(sent[j + 1]))
    BY <1>3, WireFacts
  <2>3. WireLength(j) \in Nat /\ WireLength(k) \in Nat
    BY <1>3, WireFacts
  <2> DEFINE a == Len(Rest(sent[k]))
             b == Len(Encoded(sent[k]))
  <2>4. e \in Nat \ {0} /\ a \in Nat /\ b = e + a /\ WireLength(k) = WireLength(j) + b
    BY <1>3, <2>1, <2>2
  <2> HIDE DEF e, a, b
  <2>5. QED
    BY <2>3, <2>4
<1>5. WireLength(k - 1) = WireLength(j)
  BY DEF j
<1>6. CASE k < h
  <2> DEFINE g == h - 1
             d == Len(RequestHead(sent[h]))
  <2>1. g \in k .. Len(sent) /\ g \in 0 .. Len(sent) - 1 /\ g \in 0 .. Len(sent) /\ g + 1 = h /\ h > 0
    BY <1>2, <1>6
  <2>2. WireLength(g) + d <= c
    BY <2>1
  <2> HIDE DEF g
  <2>3. WireLength(k) <= WireLength(g) /\ WireLength(g) \in Nat
    BY <1>3, <2>1, WireFacts
  <2>4. d \in Nat
    <3>1. Len(RequestHead(sent[g + 1])) \in Nat \ {0}
      BY <2>1, HeadLengths
    <3>2. QED
      BY <2>1, <3>1
  <2> HIDE DEF d, e
  <2>5. WireLength(j) + e <= c /\ k <= h
    BY <1>4, <1>6, <2>2, <2>3, <2>4
  <2>6. QED
    BY <1>5, <2>5 DEF e
<1>7. CASE k = h
  BY <1>7
<1>8. CASE k > h
  <2> DEFINE d == Len(RequestHead(sent[h + 1]))
  <2>1. h < Len(sent) /\ h \in 0 .. Len(sent) - 1 /\ h + 1 \in 0 .. Len(sent)
    BY <1>2, <1>8
  <2>2. c < WireLength(h) + d
    BY <2>1
  <2>3. CASE k = h + 1
    <3>1. j = h
      BY <2>3 DEF j
    <3>2. d = e
      BY <2>3
    <3> HIDE DEF d, e
    <3>3. ~(WireLength(j) + e <= c)
      BY <1>4, <2>2, <3>1, <3>2
    <3>4. QED
      BY <1>5, <1>8, <3>3 DEF e
  <2>4. CASE k # h + 1
    <3>1. j \in h + 1 .. Len(sent)
      BY <1>2, <1>8, <2>4 DEF j
    <3>2. WireLength(h + 1) <= WireLength(j)
      BY <2>1, <3>1, WireFacts
    <3>3. /\ WireLength(h + 1) = WireLength(h) + Len(Encoded(sent[h + 1]))
          /\ d \in Nat \ {0} /\ Len(Rest(sent[h + 1])) \in Nat
          /\ Len(Encoded(sent[h + 1])) = d + Len(Rest(sent[h + 1]))
      BY <2>1, HeadLengths, WireFacts
    <3>4. WireLength(h) \in Nat /\ WireLength(h + 1) \in Nat
      BY <2>1, WireFacts
    <3> DEFINE a == Len(Rest(sent[h + 1]))
               b == Len(Encoded(sent[h + 1]))
    <3>5. WireLength(h + 1) = WireLength(h) + b /\ b = d + a /\ a \in Nat /\ d \in Nat
      BY <3>3
    <3> HIDE DEF a, b, d, e
    <3>6. ~(WireLength(j) + e <= c)
      BY <1>4, <2>2, <3>2, <3>4, <3>5
    <3>7. QED
      BY <1>5, <1>8, <3>6 DEF e
  <2>5. QED
    BY <2>3, <2>4
<1>9. QED
  BY <1>3, <1>6, <1>7, <1>8

-----------------------------------------------------------------------------
(* What the server has been told.                                          *)

\* Between two chunks: h requests announced, m of them complete.
Told(h, m) ==
  /\ \A k \in 1 .. Len(sent) :
       WireLength(k - 1) + Len(RequestHead(sent[k])) <= Consumed <=> k <= h
  /\ \A k \in 1 .. Len(sent) :
       sent[k].kind # "upgrade" /\ WireLength(k) <= Consumed <=> k <= m
  /\ js.announced = Heads(h) /\ js.finished = Wholes(m)
  /\ h \in 0 .. Len(sent) /\ m \in 0 .. Len(sent)

\* Having told of h heads and m messages, with the bytes consumed to match, is
\* the two properties.
LEMMA ToldAsSent ==
  ASSUME Peered, NEW h, NEW m, Told(h, m)
  PROVE  AnnouncedAsSent /\ FinishedAsSent
<1>1. Len(sent) \in Nat /\ DOMAIN sent = 1 .. Len(sent)
  BY LengthNat DEF Peered
<1>2. {k \in DOMAIN sent : WireLength(k - 1) + Len(RequestHead(sent[k])) <= Consumed} = 1 .. h
  <2>1. \A k \in 1 .. Len(sent) :
          WireLength(k - 1) + Len(RequestHead(sent[k])) <= Consumed <=> k <= h
    BY DEF Told
  <2>2. 1 .. h = {k \in 1 .. Len(sent) : k <= h}
    BY <1>1 DEF Told
  <2>3. QED
    BY <1>1, <2>1, <2>2
<1>3. {k \in DOMAIN sent : /\ sent[k].kind # "upgrade"
                           /\ WireLength(k) <= Consumed} = 1 .. m
  <2>1. \A k \in 1 .. Len(sent) :
          sent[k].kind # "upgrade" /\ WireLength(k) <= Consumed <=> k <= m
    BY DEF Told
  <2>2. 1 .. m = {k \in 1 .. Len(sent) : k <= m}
    BY <1>1 DEF Told
  <2>3. QED
    BY <1>1, <2>1, <2>2
<1>4. AnnouncedAsSent
  BY <1>2 DEF AnnouncedAsSent, Told, Heads
<1>5. FinishedAsSent
  BY <1>3 DEF FinishedAsSent, Told, Wholes
<1>6. QED
  BY <1>4, <1>5

\* What has been consumed is what is not behind m requests.
LEMMA ConsumedWhen ==
  ASSUME Peered, NEW m \in 0 .. Len(sent), NEW l \in Nat, Len(left) = l + Len(After(m))
  PROVE  Consumed = WireLength(m) - l /\ WireLength(m) \in Nat
<1> DEFINE w == WireLength(m)
           n == WireLength(Len(sent))
           a == Len(After(m))
           e == Len(Ending)
           p == Len(protocol)
           x == IF broken THEN 1 ELSE 0
<1>1. w \in Nat /\ w + a = n + e /\ a \in Nat /\ e = p + x /\ p \in Nat
  BY WireFacts
<1>2. n \in Nat
  <2>1. Len(sent) \in 0 .. Len(sent)
    BY LengthNat
  <2>2. QED
    BY <2>1, WireFacts
<1>3. Consumed = n + p + x - Len(left) /\ Len(left) = l + a /\ x \in Nat
  BY DEF Consumed
<1> HIDE DEF w, n, a, e, p, x
<1>4. Consumed = w - l
  BY <1>1, <1>2, <1>3
<1>5. QED
  BY <1>1, <1>4 DEF w

\* No request up to the m-th is an upgrade, unless the last one is.
LEMMA NoUpgrade ==
  ASSUME Peered, NEW m \in 0 .. Len(sent), m = Len(sent) /\ m > 0 => sent[m].kind # "upgrade"
  PROVE  \A k \in 1 .. m : sent[k].kind # "upgrade"
<1>1. TAKE k \in 1 .. m
<1>2. Len(sent) \in Nat
  BY LengthNat
<1>3. CASE k = Len(sent)
  <2>1. k = m /\ m > 0
    BY <1>2, <1>3
  <2>2. QED
    BY <1>3, <2>1
<1>4. CASE k # Len(sent)
  <2>1. k \in 1 .. Len(sent) - 1
    BY <1>2, <1>4
  <2>2. QED
    BY <2>1 DEF Peered
<1>5. QED
  BY <1>3, <1>4

\* The same of bytes in the midst of request m + 1, or just behind request m.
LEMMA CountTold ==
  ASSUME Peered, NEW m \in 0 .. Len(sent), NEW h \in 0 .. Len(sent), NEW c \in Int,
         c = Consumed, WireLength(m) <= c, m < Len(sent) => c < WireLength(m + 1),
         h > 0 => WireLength(h - 1) + Len(RequestHead(sent[h])) <= c,
         h < Len(sent) => c < WireLength(h) + Len(RequestHead(sent[h + 1])),
         js.announced = Heads(h), js.finished = Wholes(m),
         m = Len(sent) /\ m > 0 => sent[m].kind # "upgrade"
  PROVE  Told(h, m)
<1>1. \A k \in 1 .. Len(sent) : WireLength(k) <= c <=> k <= m
  BY WholesArrived
<1>2. \A k \in 1 .. Len(sent) :
        WireLength(k - 1) + Len(RequestHead(sent[k])) <= c <=> k <= h
  BY HeadsArrived
<1>3. \A k \in 1 .. Len(sent) : k <= m => sent[k].kind # "upgrade"
  <2>1. \A k \in 1 .. m : sent[k].kind # "upgrade"
    BY NoUpgrade
  <2>2. Len(sent) \in Nat
    BY LengthNat
  <2>3. QED
    BY <2>1, <2>2
<1>4. QED
  BY <1>1, <1>2, <1>3 DEF Told

\* A head that has arrived, and one that has not.
LEMMA HeadBefore ==
  ASSUME Peered, NEW m \in 0 .. Len(sent)
  PROVE  /\ m > 0 => WireLength(m - 1) + Len(RequestHead(sent[m])) <= WireLength(m)
         /\ m < Len(sent) =>
              /\ WireLength(m) < WireLength(m) + Len(RequestHead(sent[m + 1]))
              /\ Len(RequestHead(sent[m + 1])) \in Nat
              /\ Len(Rest(sent[m + 1])) \in Nat
              /\ WireLength(m + 1) = WireLength(m) + Len(RequestHead(sent[m + 1]))
                                       + Len(Rest(sent[m + 1]))
              /\ WireLength(m) < WireLength(m + 1)
<1>1. Len(sent) \in Nat
  BY LengthNat
<1>2. ASSUME NEW k \in 0 .. Len(sent) - 1
      PROVE  /\ WireLength(k) < WireLength(k) + Len(RequestHead(sent[k + 1]))
             /\ Len(RequestHead(sent[k + 1])) \in Nat
             /\ Len(Rest(sent[k + 1])) \in Nat
             /\ WireLength(k + 1) = WireLength(k) + Len(RequestHead(sent[k + 1]))
                                      + Len(Rest(sent[k + 1]))
             /\ WireLength(k) < WireLength(k + 1)
             /\ WireLength(k) + Len(RequestHead(sent[k + 1])) <= WireLength(k + 1)
  <2> DEFINE e == Len(RequestHead(sent[k + 1]))
             t == Len(Rest(sent[k + 1]))
             b == Len(Encoded(sent[k + 1]))
             w == WireLength(k)
             x == WireLength(k + 1)
  <2>1. e \in Nat \ {0} /\ t \in Nat /\ b = e + t
    BY HeadLengths
  <2>2. k \in 0 .. Len(sent)
    BY <1>1
  <2>3. x = w + b /\ w \in Nat
    BY <2>2, WireFacts
  <2> HIDE DEF e, t, b, w, x
  <2>4. /\ w < w + e /\ e \in Nat /\ t \in Nat /\ x = w + e + t /\ w < x /\ w + e <= x
    BY <2>1, <2>3
  <2>5. QED
    BY <2>4 DEF e, t, w, x
<1>3. m < Len(sent) => m \in 0 .. Len(sent) - 1
  BY <1>1
<1>4. m > 0 => WireLength(m - 1) + Len(RequestHead(sent[m])) <= WireLength(m)
  <2>1. SUFFICES ASSUME m > 0
                 PROVE  WireLength(m - 1) + Len(RequestHead(sent[m])) <= WireLength(m)
    OBVIOUS
  <2> DEFINE k == m - 1
  <2>2. k \in 0 .. Len(sent) - 1 /\ k + 1 = m
    BY <1>1, <2>1
  <2> HIDE DEF k
  <2>3. WireLength(k) + Len(RequestHead(sent[k + 1])) <= WireLength(k + 1)
    BY <1>2, <2>2
  <2>4. WireLength(k) + Len(RequestHead(sent[m])) <= WireLength(m)
    BY <2>2, <2>3
  <2>5. QED
    BY <2>4 DEF k
<1>5. QED
  BY <1>2, <1>3, <1>4

\* Between two requests, and after an error, all that has come is whole.
LEMMA BetweenTold ==
  ASSUME Peered, NEW m \in 0 .. Len(sent), left = After(m),
         m > 0 => sent[m].kind # "upgrade",
         js.announced = Heads(m), js.finished = Wholes(m)
  PROVE  Told(m, m)
<1>1. Len(left) = 0 + Len(After(m))
  <2>1. Len(After(m)) \in Nat
    BY WireFacts
  <2>2. QED
    BY <2>1
<1>2. Consumed = WireLength(m) - 0 /\ WireLength(m) \in Nat
  BY <1>1, ConsumedWhen
<1> DEFINE c == Consumed
<1>3. c = WireLength(m) /\ c \in Int
  BY <1>2
<1> HIDE DEF c
<1>4. m < Len(sent) => c < WireLength(m + 1) /\ c < WireLength(m) + Len(RequestHead(sent[m + 1]))
  BY <1>3, HeadBefore
<1>5. m > 0 => WireLength(m - 1) + Len(RequestHead(sent[m])) <= c
  BY <1>3, HeadBefore
<1>6. WireLength(m) <= c
  BY <1>3
<1>7. c = Consumed
  BY DEF c
<1>8. QED
  BY <1>3, <1>4, <1>5, <1>6, <1>7, CountTold

\* Within request m + 1 the server knows of m messages, and of its head once
\* that is read.
LEMMA WithinTold ==
  ASSUME Peered, Held, NEW m \in 0 .. Len(sent) - 1, NEW cur, Within(m, cur)
  PROVE  \E h : Told(h, m)
<1> DEFINE r == sent[m + 1]
           c == Consumed
           l == Len(cur)
           e == Len(RequestHead(r))
           t == Len(Rest(r))
           w == WireLength(m)
           x == WireLength(m + 1)
<1>1. /\ Len(sent) \in Nat /\ m \in 0 .. Len(sent) /\ m + 1 \in 0 .. Len(sent)
      /\ m + 1 \in 1 .. Len(sent) /\ m < Len(sent) /\ m \in Nat
  BY LengthNat
<1>2. RequestType(r) /\ After(m + 1) \in Seq(Bytes)
  BY <1>1, EncodingsType, AfterFacts
<1>3. ParserTyped
  BY HandlersType DEF Within, Held, ParserTyped
<1>4. cur \in Seq(Bytes) /\ cur # <<>>
  BY <1>2, HeadShape, RestShape DEF Within
<1>5. Len(left) = l + Len(After(m + 1)) /\ l \in Nat
  <2> DEFINE b == After(m + 1)
  <2>1. left = cur \o b /\ b \in Seq(Bytes)
    BY <1>2 DEF Within
  <2> HIDE DEF b
  <2>2. Len(left) = Len(cur) + Len(b)
    BY <1>4, <2>1, ByteConcat
  <2>3. QED
    BY <1>4, <2>2 DEF b
<1>6. c = x - l /\ x \in Nat
  BY <1>1, <1>5, ConsumedWhen
<1>7. l > 0
  BY <1>4
<1>8. e \in Nat /\ t \in Nat /\ x = w + e + t /\ w < x
  BY <1>1, HeadBefore
<1>9. w \in Nat
  BY <1>1, WireFacts
<1>10. Len(Encoded(r)) = e + t
  BY HeadLengths
<1>11. js.finished = Wholes(m)
  BY DEF Within
<1>12. /\ m > 0 => WireLength(m - 1) + Len(RequestHead(sent[m])) <= w
       /\ m + 1 < Len(sent) => x < x + Len(RequestHead(sent[m + 1 + 1]))
                               /\ Len(RequestHead(sent[m + 1 + 1])) \in Nat
  BY <1>1, HeadBefore
<1>13. m # Len(sent)
  BY <1>1
<1>14. CASE InHead(r, cur) /\ js.announced = Heads(m)
  <2>1. t < l
    BY <1>2, <1>14, HeadShape
  <2>2. l <= e + t
    BY <1>2, <1>3, <1>10, <1>14, HeadBound
  <2> HIDE DEF c, l, e, t, w, x
  <2>3. w <= c /\ c < x /\ c < w + e /\ c \in Int
    BY <1>5, <1>6, <1>7, <1>8, <1>9, <2>1, <2>2
  <2>4. m > 0 => WireLength(m - 1) + Len(RequestHead(sent[m])) <= c
    <3>1. SUFFICES ASSUME m > 0 PROVE WireLength(m - 1) + Len(RequestHead(sent[m])) <= c
      OBVIOUS
    <3> DEFINE a == WireLength(m - 1)
               b == Len(RequestHead(sent[m]))
    <3>2. a + b <= w /\ a \in Nat /\ b \in Nat
      <4> DEFINE k == m - 1
      <4>1. k \in 0 .. Len(sent) /\ k \in 0 .. Len(sent) - 1 /\ m = k + 1
        BY <1>1, <3>1
      <4> HIDE DEF k
      <4>2. WireLength(k) \in Nat /\ Len(RequestHead(sent[k + 1])) \in Nat
        BY <4>1, WireFacts, HeadLengths
      <4>3. WireLength(k) = a
        BY DEF k
      <4>4. QED
        BY <1>12, <3>1, <4>1, <4>2, <4>3
    <3> HIDE DEF a, b
    <3>3. a + b <= c
      BY <1>9, <2>3, <3>2
    <3>4. QED
      BY <3>3 DEF a, b
  <2>5. c = Consumed
    BY DEF c
  <2>6. WireLength(m) <= c /\ c < WireLength(m + 1) /\ c < WireLength(m) + Len(RequestHead(sent[m + 1]))
    BY <2>3 DEF w, x, e
  <2>7. Told(m, m)
    BY <1>1, <1>11, <1>13, <1>14, <2>3, <2>4, <2>5, <2>6, CountTold
  <2>8. QED
    BY <2>7
<1>15. CASE InRest(r, cur) /\ js.announced = Heads(m + 1)
  <2>1. l <= t
    BY <1>2, <1>15, RestShape
  <2> DEFINE h == m + 1
             d == Len(RequestHead(sent[h + 1]))
  <2>2. h < Len(sent) => d \in Nat
    BY <1>12
  <2> HIDE DEF c, l, e, t, w, x, d
  <2>3. w <= c /\ c < x /\ w + e <= c /\ c \in Int /\ (h < Len(sent) => c < x + d)
    BY <1>5, <1>6, <1>7, <1>8, <1>9, <2>1, <2>2
  <2>4. c = Consumed
    BY DEF c
  <2>5. /\ WireLength(m) <= c /\ c < WireLength(m + 1)
        /\ h < Len(sent) => c < WireLength(h) + Len(RequestHead(sent[h + 1]))
    BY <2>3 DEF w, x, d
  <2>6. h - 1 = m /\ h \in 0 .. Len(sent) /\ js.announced = Heads(h)
    BY <1>1, <1>15
  <2>7. WireLength(h - 1) + Len(RequestHead(sent[h])) <= c
    BY <2>3, <2>6 DEF w, e
  <2> HIDE DEF h
  <2>8. Told(h, m)
    BY <1>1, <1>11, <1>13, <2>3, <2>4, <2>5, <2>6, <2>7, CountTold
  <2>9. QED
    BY <2>8
<1>16. QED
  BY <1>14, <1>15 DEF Within

\* After an upgrade only bytes of the new protocol are left.
LEMMA SwitchedTold ==
  ASSUME Peered, Switched, ~running
  PROVE  Told(Len(sent), Len(sent) - 1)
<1> DEFINE n == Len(sent)
           c == Consumed
           w == WireLength(n)
           l == Len(left)
           p == Len(protocol)
<1>1. /\ sent # <<>> /\ sent[n].kind = "upgrade" /\ left \in Seq({"p"}) /\ l <= p
      /\ js.finished = Wholes(n - 1) /\ js.announced = Heads(n)
  BY DEF Switched
<1>2. n \in Nat /\ n > 0 /\ n \in 0 .. n /\ n - 1 \in 0 .. n
  BY <1>1, LengthNat DEF Peered
<1>3. ~broken
  BY <1>1 DEF Peered
<1>4. w \in Nat /\ p \in Nat /\ l \in Nat
  BY <1>1, <1>2, WireFacts
<1>5. c = w + p + 0 - l
  BY <1>3 DEF Consumed
<1> HIDE DEF w, l, p, c
<1>6. w <= c /\ c \in Int
  BY <1>1, <1>4, <1>5
<1>7. WireLength(n) <= c /\ c = Consumed
  BY <1>6 DEF w, c
<1>8. WireLength(n - 1) + Len(RequestHead(sent[n])) <= c
  <2> DEFINE a == WireLength(n - 1)
             b == Len(RequestHead(sent[n]))
  <2>1. a + b <= w
    BY <1>2, HeadBefore DEF w
  <2>2. a \in Nat /\ b \in Nat
    <3> DEFINE k == n - 1
    <3>1. k \in 0 .. n /\ k \in 0 .. n - 1 /\ n = k + 1
      BY <1>2
    <3> HIDE DEF k
    <3>2. WireLength(k) \in Nat /\ Len(RequestHead(sent[k + 1])) \in Nat
      BY <3>1, WireFacts, HeadLengths
    <3>3. WireLength(k) = a
      BY DEF k
    <3>4. QED
      BY <3>1, <3>2, <3>3
  <2> HIDE DEF a, b
  <2>3. a + b <= c
    BY <1>4, <1>6, <2>1, <2>2
  <2>4. QED
    BY <2>3 DEF a, b
<1>9. \A k \in 1 .. n : WireLength(k) <= c <=> k <= n
  <2>1. ~(n < n)
    BY <1>2
  <2>2. QED
    BY <1>2, <1>6, <1>7, <2>1, WholesArrived
<1>10. \A k \in 1 .. n : WireLength(k - 1) + Len(RequestHead(sent[k])) <= c <=> k <= n
  <2>1. ~(n < n)
    BY <1>2
  <2>2. QED
    BY <1>2, <1>6, <1>8, <2>1, HeadsArrived
<1>11. \A k \in 1 .. n : sent[k].kind # "upgrade" /\ WireLength(k) <= c <=> k <= n - 1
  <2>1. TAKE k \in 1 .. n
  <2>2. WireLength(k) <= c
    BY <1>2, <1>9, <2>1
  <2>3. CASE k = n
    <3>1. ~(k <= n - 1)
      BY <1>2, <2>3
    <3>2. QED
      BY <1>1, <2>3, <3>1
  <2>4. CASE k # n
    <3>1. k \in 1 .. n - 1 /\ k <= n - 1
      BY <1>2, <2>4
    <3>2. sent[k].kind # "upgrade"
      BY <3>1 DEF Peered
    <3>3. QED
      BY <2>2, <3>1, <3>2
  <2>5. QED
    BY <2>3, <2>4
<1>12. QED
  BY <1>1, <1>2, <1>7, <1>10, <1>11 DEF Told

\* A byte that is not HTTP comes behind every request.
LEMMA FailedTold ==
  ASSUME Peered, Failed
  PROVE  Told(Len(sent), Len(sent))
<1> DEFINE n == Len(sent)
           c == Consumed
           w == WireLength(n)
<1>1. /\ broken /\ left = <<>> /\ js.announced = Heads(n) /\ js.finished = Wholes(n)
  BY DEF Failed
<1>2. n \in Nat /\ n \in 0 .. n
  BY LengthNat
<1>3. n > 0 => sent[n].kind # "upgrade"
  <2>1. n > 0 => sent # <<>>
    BY <1>2
  <2>2. QED
    BY <1>1, <2>1 DEF Peered
<1>4. c = w + Len(protocol) + 1 - 0
  BY <1>1 DEF Consumed
<1>5. w \in Nat /\ Len(protocol) \in Nat
  BY <1>2, WireFacts
<1>6. w <= c /\ c \in Int
  BY <1>4, <1>5
<1>7. n > 0 => WireLength(n - 1) + Len(RequestHead(sent[n])) <= c
  <2>1. SUFFICES ASSUME n > 0 PROVE WireLength(n - 1) + Len(RequestHead(sent[n])) <= c
    OBVIOUS
  <2> DEFINE a == WireLength(n - 1)
             b == Len(RequestHead(sent[n]))
             k == n - 1
  <2>2. a + b <= w
    BY <1>2, <2>1, HeadBefore
  <2>3. k \in 0 .. n /\ k \in 0 .. n - 1 /\ n = k + 1
    BY <1>2, <2>1
  <2> HIDE DEF k
  <2>4. WireLength(k) \in Nat /\ Len(RequestHead(sent[k + 1])) \in Nat
    BY <2>3, WireFacts, HeadLengths
  <2>5. a \in Nat /\ b \in Nat
    <3>1. WireLength(k) = a
      BY DEF k
    <3>2. QED
      BY <2>3, <2>4, <3>1
  <2> HIDE DEF a, b, c, w
  <2>6. a + b <= c
    BY <1>5, <1>6, <2>2, <2>5
  <2>7. QED
    BY <2>6 DEF a, b
<1>8. c = Consumed /\ WireLength(n) <= c /\ ~(n < n)
  BY <1>2, <1>6
<1> HIDE DEF c
<1>9. QED
  BY <1>1, <1>2, <1>3, <1>6, <1>7, <1>8, CountTold

\* Between two chunks the invariant gives both properties.
LEMMA InvTold == Inv /\ ~running => AnnouncedAsSent /\ FinishedAsSent
<1> SUFFICES ASSUME Inv, ~running PROVE AnnouncedAsSent /\ FinishedAsSent
  OBVIOUS
<1>1. Framework /\ Held /\ Peered /\ Parsed
  BY DEF Inv
<1>2. CASE \E m \in 0 .. Len(sent) : Between(m)
  <2>1. PICK m \in 0 .. Len(sent) : Between(m)
    BY <1>2
  <2>2. Told(m, m)
    BY <1>1, <2>1, BetweenTold DEF Between
  <2>3. QED
    BY <1>1, <2>2, ToldAsSent
<1>3. CASE \E m \in 0 .. Len(sent) - 1 : \E cur \in Seq(Bytes) : Within(m, cur)
  <2>1. PICK m \in 0 .. Len(sent) - 1 : \E cur \in Seq(Bytes) : Within(m, cur)
    BY <1>3
  <2>2. \E h : Told(h, m)
    BY <1>1, <2>1, WithinTold
  <2>3. QED
    BY <1>1, <2>2, ToldAsSent
<1>4. CASE Switched
  BY <1>1, <1>4, SwitchedTold, ToldAsSent
<1>5. CASE Failed
  BY <1>1, <1>5, FailedTold, ToldAsSent
<1>6. QED
  BY <1>1, <1>2, <1>3, <1>4, <1>5 DEF Parsed

\* Wherever the chunks are cut, the server has been told of exactly the requests
\* whose headers have arrived, with their urls and headers as sent.
THEOREM AnnouncedCorrect == Spec => []AnnouncedAsSent
<1>1. Inv => AnnouncedAsSent
  BY InvTold DEF AnnouncedAsSent
<1>2. QED
  BY <1>1, Invariance, PTL

\* The same of whole messages, with their bodies and trailers.
THEOREM FinishedCorrect == Spec => []FinishedAsSent
<1>1. Inv => FinishedAsSent
  BY InvTold DEF FinishedAsSent
<1>2. QED
  BY <1>1, Invariance, PTL

\* Types, and the page's string for a value's field is there when a value is.
THEOREM TypeCorrect == Spec => []TypeOK
<1>1. Inv => TypeOK
  <2> SUFFICES ASSUME Inv PROVE TypeOK
    OBVIOUS
  <2>1. Framework /\ Held /\ Peered /\ Parsed
    BY DEF Inv
  <2>2. pending # Null => running /\ state \in Marked
    BY <2>1 DEF Held
  <2>3. js.incoming = Null => state \in {"start", "error"}
    BY <2>1 DEF Parsed, Between, Within, Switched, Failed
  <2>4. state = "value" => js.field # Null
    <3>1. SUFFICES ASSUME state = "value" PROVE js.field # Null
      OBVIOUS
    <3>2. PICK m \in 0 .. Len(sent) - 1 : \E cur \in Seq(Bytes) : Within(m, cur)
      BY <2>1, <3>1 DEF Parsed, Between, Switched, Failed
    <3>3. PICK cur \in Seq(Bytes) : Within(m, cur)
      BY <3>2
    <3>4. PICK r : r = sent[m + 1]
      OBVIOUS
    <3>5. RequestType(r)
      <4>1. Len(sent) \in Nat
        BY <2>1, LengthNat
      <4>2. m + 1 \in 1 .. Len(sent)
        BY <4>1
      <4>3. QED
        BY <2>1, <3>4, <4>2, EncodingsType
    <3>6. PICK hs \in Seq(AnyLines) : \E i \in 1 .. Len(hs) : js.field = hs[i].field
      <4>1. ASSUME NEW hs \in Seq(AnyLines), NEW base, NEW before, NEW seen, NEW end,
                   InLines(hs, base, before, seen, cur, end)
            PROVE  \E i \in 1 .. Len(hs) : js.field = hs[i].field
        BY <3>1, <4>1 DEF InLines, InFieldStart, InField, InValueStart, InValue,
                          InValueLws, OnLine
      <4>2. Lined(r) \in Seq(AnyLines) /\ r.trailers \in Seq(AnyLines)
        BY <3>5, LinedFacts, TrailerFacts
      <4>3. CASE InHead(r, cur)
        <5>1. InHeaders(r, cur)
          BY <3>1, <4>3 DEF InHead, InUrlStart, InUrl
        <5>2. QED
          BY <4>1, <4>2, <5>1 DEF InHeaders
      <4>4. CASE InRest(r, cur)
        <5>1. InTrailers(r, cur)
          BY <3>1, <4>4 DEF InRest, InBody, InChunk
        <5>2. QED
          BY <4>1, <4>2, <5>1 DEF InTrailers
      <4>5. QED
        BY <3>3, <3>4, <4>3, <4>4 DEF Within
    <3>7. js.field \in Seq(Bytes)
      BY <3>6, LineFacts
    <3>8. Null \notin Seq(Bytes)
      BY ParserAssumption
    <3>9. QED
      BY <3>7, <3>8
  <2>5. QED
    BY <2>1, <2>2, <2>3, <2>4 DEF TypeOK, Framework, Peered
<1>2. QED
  BY <1>1, Invariance, PTL
=============================================================================
