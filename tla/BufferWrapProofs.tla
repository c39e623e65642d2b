-------------------------- MODULE BufferWrapProofs --------------------------
(***************************************************************************)
(* Theorems about BufferWrap for a pool, Buffers and strings of any size,  *)
(* any number of them and any number of calls.                             *)
(*                                                                         *)
(* What a Buffer reads is compared with the history variable ideal, which  *)
(* gives each allocation memory of its own. The inductive invariant places *)
(* the allocations: each lies inside one SlowBuffer, the ones that share a *)
(* SlowBuffer are apart, those of the pool end below pool.used, and the    *)
(* bytes there are the ones ideal has.                                     *)
(***************************************************************************)
EXTENDS BufferWrap, SequenceTheorems, TLAPS

Bufs == [parent : 1 .. Len(memory), offset : Nat, length : Nat,
         first : 1 .. Len(ideal), at : Nat]

\* Where the allocation a Buffer is cut from starts in its SlowBuffer, and how
\* long it is.
Base(buffer) == buffer.offset - buffer.at
Size(buffer) == Len(ideal[buffer.first])

Typed ==
  /\ memory \in Seq(Seq(Byte))
  /\ ideal \in Seq(Seq(Byte))
  /\ buffers \in Seq(Bufs)
  /\ pool \in 0 .. Len(memory)
  /\ used \in 0 .. PoolSize + 1
  /\ pool # 0 => Len(memory[pool]) = PoolSize + 1
  /\ calls \in 0 .. MaxCalls

\* A Buffer stays in its allocation, and the allocation in its SlowBuffer; in
\* the pool, below what is used.
Inside ==
  \A b \in DOMAIN buffers :
    LET buffer == buffers[b]
    IN /\ buffer.at <= buffer.offset
       /\ buffer.at + buffer.length <= Size(buffer)
       /\ Base(buffer) + Size(buffer) <= Len(memory[buffer.parent])
       /\ buffer.parent = pool => Base(buffer) + Size(buffer) <= used

\* Buffers of one allocation agree where it is; two allocations of a SlowBuffer
\* do not overlap.
Apart ==
  \A b, c \in DOMAIN buffers :
    LET x == buffers[b]
        y == buffers[c]
    IN /\ x.first = y.first => x.parent = y.parent /\ Base(x) = Base(y)
       /\ x.first # y.first /\ x.parent = y.parent =>
            \/ Base(x) + Size(x) <= Base(y)
            \/ Base(y) + Size(y) <= Base(x)

\* The bytes of an allocation are where they should be.
Mirrors ==
  \A b \in DOMAIN buffers :
    LET buffer == buffers[b]
    IN \A i \in 1 .. Size(buffer) :
         memory[buffer.parent][Base(buffer) + i] = ideal[buffer.first][i]

Placed == Inside /\ Apart /\ Mirrors

\* A queued write points at the bytes of its Buffer.
Addressed ==
  \A w \in writes :
    /\ w.of \in DOMAIN buffers
    /\ w.parent = buffers[w.of].parent
    /\ w.start = WireOffset(buffers[w.of])
    /\ w.length = buffers[w.of].length

-----------------------------------------------------------------------------
(* Sequences and bytes.                                                    *)

\* A sequence computed entry by entry from another one.
LEMMA Rewritten ==
  ASSUME NEW T, NEW s \in Seq(T), NEW f,
         DOMAIN f = DOMAIN s, f = [i \in DOMAIN s |-> f[i]],
         \A i \in DOMAIN s : f[i] \in T
  PROVE  f \in Seq(T) /\ Len(f) = Len(s)
<1>1. DOMAIN s = 1 .. Len(s) /\ Len(s) \in Nat
  BY LenProperties
<1>2. f \in [1 .. Len(s) -> T]
  BY <1>1
<1>3. QED
  BY <1>1, <1>2

\* Replacing one entry of a sequence.
LEMMA Replaced ==
  ASSUME NEW T, NEW s \in Seq(T), NEW p \in 1 .. Len(s), NEW e \in T,
         NEW t, t = [s EXCEPT ![p] = e]
  PROVE  /\ t \in Seq(T) /\ Len(t) = Len(s) /\ t[p] = e
         /\ \A q \in 1 .. Len(s) : q # p => t[q] = s[q]
BY ExceptSeq

\* The values of a char, and how get's sign goes.
LEMMA ByteRange ==
  /\ 0 \in Byte
  /\ \A v \in Nat : v % ByteLimit \in Byte
  /\ \A v \in Byte : v % ByteLimit = v /\ (v - ByteLimit) % ByteLimit = v
BY BufferAssumption DEF Byte

\* The memory createBuffer makes has a byte more than asked for.
LEMMA NewDataType ==
  ASSUME NEW size \in Nat
  PROVE  NewData(size) \in Seq(Byte) /\ Len(NewData(size)) = size + 1
<1>1. NewData(size) \in [1 .. size + 1 -> Byte]
  BY ByteRange DEF NewData
<1>2. QED
  BY <1>1

\* The window of n bytes that starts k bytes into a sequence.
LEMMA BytesAt ==
  ASSUME NEW T, NEW s \in Seq(T), NEW k \in Nat, NEW n \in Nat,
         k + n <= Len(s)
  PROVE  /\ Bytes(s, k, k + n) \in Seq(T)
         /\ Len(Bytes(s, k, k + n)) = n
         /\ \A i \in 1 .. n : Bytes(s, k, k + n)[i] = s[k + i]
BY SubSeqProperties DEF Bytes

\* The least of a set of two or three numbers.
LEMMA LeastOfTwo ==
  ASSUME NEW a \in Nat, NEW b \in Nat
  PROVE  Least({a, b}) = IF a <= b THEN a ELSE b
<1>1. \E x \in {a, b} : \A y \in {a, b} : x <= y
  OBVIOUS
<1>2. /\ Least({a, b}) \in {a, b}
      /\ \A y \in {a, b} : Least({a, b}) <= y
  BY <1>1 DEF Least
<1>3. QED
  BY <1>2

\* The least of three numbers, the first of which is not less than the
\* second.
LEMMA LeastOfThree ==
  ASSUME NEW a \in Nat, NEW b \in Nat, NEW c \in Nat, b <= a
  PROVE  Least({a, b, c}) = IF b <= c THEN b ELSE c
<1>1. \E x \in {a, b, c} : \A y \in {a, b, c} : x <= y
  OBVIOUS
<1>2. /\ Least({a, b, c}) \in {a, b, c}
      /\ \A y \in {a, b, c} : Least({a, b, c}) <= y
  BY <1>1 DEF Least
<1>3. QED
  BY <1>2

\* Writing the n values of g over a sequence, from its position start + 1 on.
Overlay(s, g, start, n) ==
  [i \in DOMAIN s |-> IF i - start \in 1 .. n THEN g[i - start] ELSE s[i]]

\* Writing n bytes behind start changes these and no others.
LEMMA OverlayFacts ==
  ASSUME NEW T, NEW s \in Seq(T), NEW start \in Nat, NEW n \in Nat,
         NEW g, \A q \in 1 .. n : g[q] \in T
  PROVE  /\ Overlay(s, g, start, n) \in Seq(T)
         /\ Len(Overlay(s, g, start, n)) = Len(s)
         /\ \A k \in 1 .. Len(s) :
              \/ Overlay(s, g, start, n)[k] = s[k]
              \/ \E q \in 1 .. n : k = start + q
         /\ \A q \in 1 .. n :
              start + n <= Len(s) => Overlay(s, g, start, n)[start + q] = g[q]
<1> DEFINE f == Overlay(s, g, start, n)
<1>1. DOMAIN s = 1 .. Len(s) /\ Len(s) \in Nat /\ \A i \in 1 .. Len(s) : s[i] \in T
  BY LenProperties
<1>2. /\ f = [i \in DOMAIN s |-> f[i]] /\ DOMAIN f = DOMAIN s
      /\ \A i \in DOMAIN s :
           f[i] = IF i - start \in 1 .. n THEN g[i - start] ELSE s[i]
  BY DEF Overlay
<1> HIDE DEF f
<1>3. \A i \in DOMAIN s : f[i] \in T
  BY <1>1, <1>2
<1>4. f \in Seq(T) /\ Len(f) = Len(s)
  BY <1>2, <1>3, Rewritten
<1>5. ASSUME NEW k \in 1 .. Len(s)
      PROVE  f[k] = s[k] \/ \E q \in 1 .. n : k = start + q
  <2>1. CASE k - start \in 1 .. n
    <3>1. k = start + (k - start)
      BY <1>1
    <3>2. QED
      BY <2>1, <3>1
  <2>2. CASE k - start \notin 1 .. n
    BY <1>1, <1>2, <2>2
  <2>3. QED
    BY <2>1, <2>2
<1>6. ASSUME NEW q \in 1 .. n, start + n <= Len(s)
      PROVE  f[start + q] = g[q]
  <2>1. start + q \in DOMAIN s /\ (start + q) - start = q
    BY <1>1, <1>6
  <2>2. QED
    BY <1>2, <2>1
<1>7. QED
  BY <1>4, <1>5, <1>6 DEF f

-----------------------------------------------------------------------------
(* Calls that change bytes.                                                *)

\* What the invariant says of one Buffer.
LEMMA BufferFacts ==
  ASSUME Typed, Inside, NEW b \in DOMAIN buffers
  PROVE  /\ buffers[b].parent \in 1 .. Len(memory)
         /\ buffers[b].first \in 1 .. Len(ideal)
         /\ buffers[b].offset \in Nat /\ buffers[b].at \in Nat
         /\ buffers[b].length \in Nat
         /\ memory[buffers[b].parent] \in Seq(Byte)
         /\ ideal[buffers[b].first] \in Seq(Byte)
         /\ Len(memory[buffers[b].parent]) \in Nat
         /\ Size(buffers[b]) \in Nat /\ Base(buffers[b]) \in Nat
         /\ Base(buffers[b]) + buffers[b].at = buffers[b].offset
         /\ buffers[b].at + buffers[b].length <= Size(buffers[b])
         /\ Base(buffers[b]) + Size(buffers[b]) <= Len(memory[buffers[b].parent])
         /\ buffers[b].offset + buffers[b].length
              <= Len(memory[buffers[b].parent])
<1> DEFINE x == buffers[b]
<1>1. x \in Bufs
  BY ElementOfSeq, LenProperties DEF Typed
<1>2. /\ x.parent \in 1 .. Len(memory) /\ x.first \in 1 .. Len(ideal)
      /\ x.offset \in Nat /\ x.at \in Nat /\ x.length \in Nat
  BY <1>1 DEF Bufs
<1>3. memory[x.parent] \in Seq(Byte) /\ Len(memory[x.parent]) \in Nat
  BY <1>2, ElementOfSeq, LenProperties DEF Typed
<1>4. ideal[x.first] \in Seq(Byte) /\ Size(x) \in Nat
  BY <1>2, ElementOfSeq, LenProperties DEF Typed, Size
<1>5. /\ x.at <= x.offset /\ x.at + x.length <= Size(x)
      /\ Base(x) + Size(x) <= Len(memory[x.parent])
  BY DEF Inside
<1>6. Base(x) \in Nat /\ Base(x) + x.at = x.offset
  BY <1>2, <1>5 DEF Base
<1>7. x.offset + x.length <= Len(memory[x.parent])
  <2>1. \A base, at, offset, length, size, len \in Nat :
          base + at = offset /\ at + length <= size /\ base + size <= len
            => offset + length <= len
    OBVIOUS
  <2> DEFINE base == Base(x)
             size == Size(x)
             len == Len(memory[x.parent])
  <2>2. /\ base \in Nat /\ x.at \in Nat /\ x.offset \in Nat /\ x.length \in Nat
        /\ size \in Nat /\ len \in Nat
        /\ base + x.at = x.offset /\ x.at + x.length <= size /\ base + size <= len
    BY <1>2, <1>3, <1>4, <1>5, <1>6
  <2> HIDE DEF base, size, len, x
  <2>3. x.offset + x.length <= len
    BY <2>1, <2>2
  <2>4. QED
    BY <2>3 DEF len
<1>8. QED
  BY <1>2, <1>3, <1>4, <1>5, <1>6, <1>7 DEF x

\* A step that gives the SlowBuffer of Buffer b the bytes M, and b's allocation
\* the bytes I, where M differs from before only in that allocation.
Poked(b, M, I) ==
  LET x == buffers[b]
  IN /\ M \in Seq(Byte) /\ Len(M) = Len(memory[x.parent])
     /\ I \in Seq(Byte) /\ Len(I) = Size(x)
     /\ \A i \in 1 .. Size(x) : M[Base(x) + i] = I[i]
     /\ \A k \in 1 .. Len(M) : k <= Base(x) \/ k > Base(x) + Size(x)
          => M[k] = memory[x.parent][k]
     /\ memory' = [memory EXCEPT ![x.parent] = M]
     /\ ideal' = [ideal EXCEPT ![x.first] = I]
     /\ UNCHANGED <<buffers, pool, used>>

\* Writing through a window keeps windows placed and memories of their own
\* mirrored.
LEMMA PokeKeeps ==
  ASSUME Typed, Placed, NEW b \in DOMAIN buffers, NEW M, NEW I,
         Poked(b, M, I), calls' \in 0 .. MaxCalls
  PROVE  Typed' /\ Placed'
<1> USE DEF Placed
<1> DEFINE x == buffers[b]
<1>1. x.parent \in 1 .. Len(memory) /\ x.first \in 1 .. Len(ideal)
  BY BufferFacts
<1>2. /\ memory \in Seq(Seq(Byte)) /\ ideal \in Seq(Seq(Byte))
      /\ M \in Seq(Byte) /\ I \in Seq(Byte)
      /\ memory' = [memory EXCEPT ![x.parent] = M]
      /\ ideal' = [ideal EXCEPT ![x.first] = I]
      /\ UNCHANGED <<buffers, pool, used>>
      /\ Len(M) = Len(memory[x.parent]) /\ Len(I) = Len(ideal[x.first])
  BY DEF Typed, Poked, Size
<1>3. /\ memory' \in Seq(Seq(Byte)) /\ Len(memory') = Len(memory)
      /\ memory'[x.parent] = M
      /\ \A q \in 1 .. Len(memory) : q # x.parent => memory'[q] = memory[q]
  BY <1>1, <1>2, Replaced
<1>4. /\ ideal' \in Seq(Seq(Byte)) /\ Len(ideal') = Len(ideal)
      /\ ideal'[x.first] = I
      /\ \A q \in 1 .. Len(ideal) : q # x.first => ideal'[q] = ideal[q]
  BY <1>1, <1>2, Replaced
<1>5. /\ \A q \in 1 .. Len(memory) : Len(memory'[q]) = Len(memory[q])
      /\ \A q \in 1 .. Len(ideal) : Len(ideal'[q]) = Len(ideal[q])
  BY <1>2, <1>3, <1>4
<1>6. Typed'
  <2>1. buffers' \in Seq(Bufs)'
    BY <1>2, <1>3, <1>4 DEF Typed, Bufs
  <2>2. pool' # 0 => Len(memory'[pool']) = PoolSize + 1
    BY <1>2, <1>5, SMTT(30) DEF Typed
  <2>3. QED
    BY <1>2, <1>3, <1>4, <2>1, <2>2 DEF Typed
<1>7. \A c \in DOMAIN buffers : /\ Size(buffers[c])' = Size(buffers[c])
                                /\ Base(buffers[c])' = Base(buffers[c])
  BY <1>2, <1>5, BufferFacts DEF Size, Base
<1>8. Inside'
  BY <1>2, <1>5, <1>7, BufferFacts DEF Inside
<1>9. Apart'
  BY <1>2, <1>7 DEF Apart
<1>10. Mirrors'
  <2>0. buffers' = buffers
    BY <1>2
  <2> SUFFICES ASSUME NEW c \in DOMAIN buffers,
                      NEW i \in 1 .. Size(buffers[c])', i \in 1 .. Size(buffers[c])
               PROVE  memory'[buffers[c].parent][Base(buffers[c]) + i]
                        = ideal'[buffers[c].first][i]
    <3>1. ASSUME NEW c \in DOMAIN buffers, NEW i \in 1 .. Size(buffers[c])'
          PROVE  i \in 1 .. Size(buffers[c]) /\ Base(buffers[c])' = Base(buffers[c])
      BY <1>7
    <3>2. QED
      BY <2>0, <3>1 DEF Mirrors, Size, Base
  <2> DEFINE y == buffers[c]
  <2>1. memory[y.parent][Base(y) + i] = ideal[y.first][i]
    BY DEF Mirrors
  <2>2. /\ y.parent \in 1 .. Len(memory) /\ y.first \in 1 .. Len(ideal)
        /\ Base(y) \in Nat /\ Size(y) \in Nat
        /\ Base(y) + Size(y) <= Len(memory[y.parent])
        /\ Base(x) \in Nat /\ Size(x) \in Nat
    BY BufferFacts
  <2>3. /\ \A k \in 1 .. Size(x) : M[Base(x) + k] = I[k]
        /\ \A k \in 1 .. Len(M) : k <= Base(x) \/ k > Base(x) + Size(x)
             => M[k] = memory[x.parent][k]
    BY DEF Poked
  <2>4. /\ x.first = y.first => x.parent = y.parent /\ Base(x) = Base(y)
        /\ x.first # y.first /\ x.parent = y.parent =>
             Base(x) + Size(x) <= Base(y) \/ Base(y) + Size(y) <= Base(x)
    BY DEF Apart
  <2>5. CASE y.first = x.first
    <3>1. y.parent = x.parent /\ Base(y) = Base(x) /\ i \in 1 .. Size(x)
      BY <2>4, <2>5 DEF Size
    <3>2. QED
      BY <1>3, <1>4, <2>3, <2>5, <3>1
  <2>6. CASE y.first # x.first /\ y.parent # x.parent
    BY <1>3, <1>4, <2>1, <2>2, <2>6
  <2>7. CASE y.first # x.first /\ y.parent = x.parent
    <3> DEFINE k == Base(y) + i
    <3>1. k \in 1 .. Len(M) /\ (k <= Base(x) \/ k > Base(x) + Size(x))
      <4>1. k \in Nat /\ Base(y) < k /\ k <= Base(y) + Size(y)
        BY <2>2
      <4>2. Len(M) \in Nat /\ Len(M) = Len(memory[y.parent])
        BY <1>2, <2>7
      <4> DEFINE a == Base(x)
                 n == Size(x)
                 p == Base(y)
                 m == Size(y)
                 len == Len(M)
      <4>3. /\ a \in Nat /\ n \in Nat /\ p \in Nat /\ m \in Nat /\ len \in Nat
            /\ p + m <= len /\ (a + n <= p \/ p + m <= a)
            /\ k \in Nat /\ p < k /\ k <= p + m
        BY <2>2, <2>4, <2>7, <4>1, <4>2
      <4> HIDE DEF a, n, p, m, len, k
      <4>4. k \in 1 .. len /\ (k <= a \/ k > a + n)
        BY <4>3
      <4>5. QED
        BY <4>4 DEF a, n, len
    <3>2. M[k] = memory[x.parent][k]
      BY <2>3, <3>1
    <3>3. QED
      BY <1>3, <1>4, <2>1, <2>2, <2>7, <3>2
  <2>8. QED
    BY <2>5, <2>6, <2>7
<1>11. QED
  BY <1>6, <1>8, <1>9, <1>10

\* A call that changes n bytes of Buffer b, from its byte lo on, to the same
\* ones in the SlowBuffer (M) and in the allocation (I).
LEMMA WindowPokes ==
  ASSUME Typed, Placed, NEW b \in DOMAIN buffers,
         NEW M \in Seq(Byte), NEW I \in Seq(Byte),
         Len(M) = Len(memory[buffers[b].parent]), Len(I) = Size(buffers[b]),
         memory' = [memory EXCEPT ![buffers[b].parent] = M],
         ideal' = [ideal EXCEPT ![buffers[b].first] = I],
         UNCHANGED <<buffers, pool, used>>,
         NEW lo \in Nat, NEW n \in Nat, lo + n <= buffers[b].length,
         \A k \in 1 .. Len(M) :
           \/ M[k] = memory[buffers[b].parent][k]
           \/ \E q \in 1 .. n : k = buffers[b].offset + lo + q,
         \A j \in 1 .. Len(I) :
           \/ I[j] = ideal[buffers[b].first][j]
           \/ \E q \in 1 .. n : j = buffers[b].at + lo + q,
         \A q \in 1 .. n : M[buffers[b].offset + lo + q]
                             = I[buffers[b].at + lo + q]
  PROVE  Poked(b, M, I)
<1> DEFINE x == buffers[b]
           data == memory[x.parent]
           own == ideal[x.first]
           offset == x.offset
           at == x.at
           length == x.length
           base == Base(x)
           size == Size(x)
           len == Len(M)
<1>1. /\ offset \in Nat /\ at \in Nat /\ length \in Nat
      /\ base \in Nat /\ size \in Nat /\ len \in Nat
      /\ base + at = offset /\ at + length <= size /\ base + size <= len
      /\ lo + n <= length
  BY BufferFacts DEF Placed
<1>2. \A i \in 1 .. size : data[base + i] = own[i]
  BY DEF Placed, Mirrors
<1>3. /\ \A k \in 1 .. len : M[k] = data[k] \/ \E q \in 1 .. n : k = offset + lo + q
      /\ \A j \in 1 .. size : I[j] = own[j] \/ \E q \in 1 .. n : j = at + lo + q
      /\ \A q \in 1 .. n : M[offset + lo + q] = I[at + lo + q]
  OBVIOUS
<1>4. \A i \in 1 .. size : M[base + i] = I[i]
  <2> HIDE DEF data, own, offset, at, length, base, size, len
  <2> SUFFICES ASSUME NEW i \in 1 .. size PROVE M[base + i] = I[i]
    OBVIOUS
  <2>1. CASE \E q \in 1 .. n : i = at + lo + q
    <3>1. PICK q \in 1 .. n : i = at + lo + q
      BY <2>1
    <3>2. base + i = offset + lo + q
      BY <1>1, <3>1
    <3>3. QED
      BY <1>3, <3>1, <3>2
  <2>2. CASE ~ \E q \in 1 .. n : i = at + lo + q
    <3>1. I[i] = own[i]
      BY <1>3, <2>2
    <3>2. base + i \in 1 .. len
      BY <1>1
    <3>3. ~ \E q \in 1 .. n : base + i = offset + lo + q
      BY <1>1, <2>2
    <3>4. M[base + i] = data[base + i]
      BY <1>3, <3>2, <3>3
    <3>5. QED
      BY <1>2, <3>1, <3>4
  <2>3. QED
    BY <2>1, <2>2
<1>5. \A k \in 1 .. len : k <= base \/ k > base + size => M[k] = data[k]
  <2> HIDE DEF data, own, offset, at, length, base, size, len
  <2> SUFFICES ASSUME NEW k \in 1 .. len, k <= base \/ k > base + size
               PROVE  M[k] = data[k]
    OBVIOUS
  <2>1. ~ \E q \in 1 .. n : k = offset + lo + q
    BY <1>1
  <2>2. QED
    BY <1>3, <2>1
<1>6. QED
  BY <1>4, <1>5 DEF Poked

\* Buffer.set changes one byte of the Buffer.
LEMMA SetPokes ==
  ASSUME Typed, Placed, NEW b \in DOMAIN buffers, NEW i \in Nat, NEW v \in Nat,
         Set(b, i, v)
  PROVE  \E M, I : Poked(b, M, I)
<1> DEFINE x == buffers[b]
           data == memory[x.parent]
           own == ideal[x.first]
           k == x.offset + i + 1
           j == x.at + i + 1
           M == [data EXCEPT ![k] = v % ByteLimit]
           I == [own EXCEPT ![j] = v % ByteLimit]
<1>1. data \in Seq(Byte) /\ own \in Seq(Byte)
  BY BufferFacts DEF Placed
<1>2. k \in 1 .. Len(data) /\ j \in 1 .. Len(own)
  <2> DEFINE offset == x.offset
             at == x.at
             length == x.length
             size == Size(x)
             len == Len(data)
  <2>1. /\ offset \in Nat /\ at \in Nat /\ length \in Nat /\ size \in Nat
        /\ len \in Nat /\ offset + length <= len /\ at + length <= size
        /\ i < length /\ size = Len(own)
    BY BufferFacts DEF Placed, Set, Size
  <2> HIDE DEF offset, at, length, size, len
  <2>2. offset + i + 1 \in 1 .. len /\ at + i + 1 \in 1 .. size
    BY <2>1
  <2>3. QED
    BY <2>1, <2>2 DEF offset, at, len
<1>3. v % ByteLimit \in Byte
  BY ByteRange
<1>4. /\ M \in Seq(Byte) /\ Len(M) = Len(data) /\ M[k] = v % ByteLimit
      /\ \A q \in 1 .. Len(data) : q # k => M[q] = data[q]
  <2> HIDE DEF k, data
  <2>1. QED
    BY <1>1, <1>2, <1>3, Replaced
<1>5. /\ I \in Seq(Byte) /\ Len(I) = Len(own) /\ I[j] = v % ByteLimit
      /\ \A q \in 1 .. Len(own) : q # j => I[q] = own[q]
  <2> HIDE DEF j, own
  <2>1. QED
    BY <1>1, <1>2, <1>3, Replaced
<1>6. /\ memory' = [memory EXCEPT ![x.parent] = M]
      /\ ideal' = [ideal EXCEPT ![x.first] = I]
      /\ UNCHANGED <<buffers, pool, used>>
  BY DEF Set, set
<1>7. i + 1 <= x.length /\ x.offset \in Nat /\ x.at \in Nat
  BY BufferFacts DEF Placed, Set
<1> HIDE DEF M, I
<1>8. /\ \A q \in 1 .. Len(M) :
           M[q] = data[q] \/ \E o \in 1 .. 1 : q = x.offset + i + o
      /\ \A q \in 1 .. Len(I) :
           I[q] = own[q] \/ \E o \in 1 .. 1 : q = x.at + i + o
      /\ \A o \in 1 .. 1 : M[x.offset + i + o] = I[x.at + i + o]
  BY <1>4, <1>5
<1>9. Poked(b, M, I)
  <2> Len(M) = Len(memory[buffers[b].parent]) /\ Len(I) = Size(buffers[b])
    BY <1>4, <1>5 DEF Size
  <2> HIDE DEF k, j
  <2>1. QED
    BY <1>4, <1>5, <1>6, <1>7, <1>8, WindowPokes
<1>10. QED
  BY <1>9

\* Overlaying the same n values g on a window of a Buffer.
LEMMA OverlayPokes ==
  ASSUME Typed, Placed, NEW b \in DOMAIN buffers,
         NEW lo \in Nat, NEW n \in Nat, lo + n <= buffers[b].length,
         NEW g, \A q \in 1 .. n : g[q] \in Byte,
         memory' = [memory EXCEPT ![buffers[b].parent] =
                      Overlay(memory[buffers[b].parent], g,
                              buffers[b].offset + lo, n)],
         ideal' = [ideal EXCEPT ![buffers[b].first] =
                     Overlay(ideal[buffers[b].first], g, buffers[b].at + lo, n)],
         UNCHANGED <<buffers, pool, used>>
  PROVE  \E M, I : Poked(b, M, I)
<1> DEFINE x == buffers[b]
           data == memory[x.parent]
           own == ideal[x.first]
           start == x.offset + lo
           place == x.at + lo
           M == Overlay(data, g, start, n)
           I == Overlay(own, g, place, n)
<1>1. data \in Seq(Byte) /\ own \in Seq(Byte)
  BY BufferFacts DEF Placed
<1>2. /\ start \in Nat /\ place \in Nat
      /\ start + n <= Len(data) /\ place + n <= Len(own)
  <2> DEFINE offset == x.offset
             at == x.at
             length == x.length
             size == Size(x)
             len == Len(data)
  <2>1. /\ offset \in Nat /\ at \in Nat /\ length \in Nat /\ size \in Nat
        /\ len \in Nat /\ offset + length <= len /\ at + length <= size
        /\ lo + n <= length /\ size = Len(own)
    BY BufferFacts DEF Placed, Size
  <2> HIDE DEF offset, at, length, size, len
  <2>2. /\ offset + lo \in Nat /\ at + lo \in Nat
        /\ offset + lo + n <= len /\ at + lo + n <= size
    BY <2>1, SMTT(30)
  <2>3. QED
    BY <2>1, <2>2 DEF offset, at, len
<1>3. /\ M \in Seq(Byte) /\ Len(M) = Len(data)
      /\ \A k \in 1 .. Len(data) : M[k] = data[k] \/ \E q \in 1 .. n : k = start + q
      /\ \A q \in 1 .. n : M[start + q] = g[q]
  <2> HIDE DEF start, data
  <2>1. QED
    BY <1>1, <1>2, OverlayFacts
<1>4. /\ I \in Seq(Byte) /\ Len(I) = Len(own)
      /\ \A k \in 1 .. Len(own) : I[k] = own[k] \/ \E q \in 1 .. n : k = place + q
      /\ \A q \in 1 .. n : I[place + q] = g[q]
  <2> HIDE DEF place, own
  <2>1. QED
    BY <1>1, <1>2, OverlayFacts
<1>5. /\ memory' = [memory EXCEPT ![x.parent] = M]
      /\ ideal' = [ideal EXCEPT ![x.first] = I]
      /\ UNCHANGED <<buffers, pool, used>>
  OBVIOUS
<1> HIDE DEF M, I
<1>6. /\ \A k \in 1 .. Len(M) :
           M[k] = data[k] \/ \E q \in 1 .. n : k = x.offset + lo + q
      /\ \A k \in 1 .. Len(I) :
           I[k] = own[k] \/ \E q \in 1 .. n : k = x.at + lo + q
      /\ \A q \in 1 .. n : M[x.offset + lo + q] = I[x.at + lo + q]
  BY <1>3, <1>4
<1>7. Poked(b, M, I)
  <2>1. Len(M) = Len(memory[buffers[b].parent]) /\ Len(I) = Size(buffers[b])
    BY <1>3, <1>4 DEF Size
  <2> HIDE DEF start, place
  <2>2. QED
    BY <1>3, <1>4, <1>5, <1>6, <2>1, WindowPokes
<1>8. QED
  BY <1>7

\* A position counted from one and from the window's start.
LEMMA Shifted ==
  ASSUME NEW i \in Nat, NEW start \in Nat, NEW n \in Nat
  PROVE  i - 1 \in start .. start + n - 1 <=> i - start \in 1 .. n
OBVIOUS

\* Buffer.write changes as many bytes as its loop writes.
LEMMA WritePokes ==
  ASSUME Typed, Placed, NEW b \in DOMAIN buffers, NEW string \in Strings,
         NEW offset \in Nat, NEW length \in Nat, Write(b, string, offset, length)
  PROVE  \E M, I : Poked(b, M, I)
<1> DEFINE x == buffers[b]
           data == memory[x.parent]
           n == WriteLength(x, offset, length)
           m == Least({n, Len(string)})
<1>1. /\ data \in Seq(Byte) /\ Len(data) \in Nat /\ x.length \in Nat
      /\ x.offset \in Nat /\ x.at \in Nat /\ x.length <= Len(data)
  <2> DEFINE place == x.offset
             size == x.length
             len == Len(data)
  <2>1. /\ data \in Seq(Byte) /\ x.at \in Nat /\ len \in Nat /\ place \in Nat
        /\ size \in Nat /\ place + size <= len
    BY BufferFacts DEF Placed
  <2> HIDE DEF place, size, len
  <2>2. size <= len
    BY <2>1
  <2>3. QED
    BY <2>1, <2>2 DEF place, size, len
<1>2. string \in Seq(Byte) /\ Len(string) \in Nat
  BY BufferAssumption, LenProperties DEF Byte
<1>3. n \in Nat /\ offset + n <= x.length
  BY <1>1 DEF WriteLength, Write
<1>4. n <= Len(data)
  BY <1>1, <1>3
<1>5. Written(data, string, n) = m /\ m \in Nat /\ m <= n /\ m <= Len(string)
  <2> DEFINE len == Len(data)
             most == Len(string)
  <2>1. len \in Nat /\ most \in Nat /\ n \in Nat /\ n <= len
    BY <1>1, <1>2, <1>3, <1>4
  <2> HIDE DEF n, len, most
  <2>2. /\ Least({n, most}) = IF n <= most THEN n ELSE most
        /\ Least({len, n, most}) = IF n <= most THEN n ELSE most
    BY <2>1, LeastOfTwo, LeastOfThree
  <2>3. QED
    BY <2>1, <2>2 DEF Written, len, most
<1>6. \A q \in 1 .. m : string[q] \in Byte
  BY <1>2, <1>5, ElementOfSeq
<1>7. utf8Write(data, string, x.offset + offset, n)
        = Overlay(data, string, x.offset + offset, m)
  <2> HIDE DEF n, m
  <2>1. \A i \in DOMAIN data :
          /\ i - 1 \in x.offset + offset .. x.offset + offset + m - 1
               <=> i - (x.offset + offset) \in 1 .. m
    <3>1. \A i \in DOMAIN data : i \in Nat
      BY <1>1, LenProperties
    <3>2. x.offset + offset \in Nat
      BY <1>1
    <3> DEFINE start == x.offset + offset
    <3> HIDE DEF start
    <3>3. QED
      BY <1>5, <3>1, <3>2, Shifted DEF start
  <2>2. QED
    BY <1>5, <2>1 DEF utf8Write, Overlay
<1>8. [i \in DOMAIN ideal[x.first] |->
         IF i - x.at - offset \in 1 .. m
         THEN string[i - x.at - offset] ELSE ideal[x.first][i]]
        = Overlay(ideal[x.first], string, x.at + offset, m)
  <2> HIDE DEF m
  <2>1. \A i \in DOMAIN ideal[x.first] :
          i - x.at - offset = i - (x.at + offset)
    <3>1. DOMAIN ideal[x.first] \subseteq Nat
      BY BufferFacts, LenProperties DEF Placed
    <3>2. QED
      BY <1>1, <3>1
  <2>2. QED
    BY <2>1 DEF Overlay
<1>9. /\ memory' = [memory EXCEPT ![x.parent] =
                      Overlay(data, string, x.offset + offset, m)]
      /\ ideal' = [ideal EXCEPT ![x.first] =
                     Overlay(ideal[x.first], string, x.at + offset, m)]
      /\ UNCHANGED <<buffers, pool, used>>
  <2>1. /\ memory' = [memory EXCEPT ![x.parent] =
                        utf8Write(@, string, x.offset + offset, n)]
        /\ ideal' = [ideal EXCEPT ![x.first] =
                       [i \in DOMAIN @ |->
                         IF i - x.at - offset \in 1 .. m
                         THEN string[i - x.at - offset] ELSE @[i]]]
        /\ UNCHANGED <<buffers, pool, used>>
    BY DEF Write
  <2> HIDE DEF n, m
  <2>2. QED
    BY <1>7, <1>8, <2>1
<1>10. offset + m <= x.length
  <2> HIDE DEF n, m
  <2>1. QED
    BY <1>1, <1>3, <1>5
<1>11. QED
  <2> HIDE DEF n, m
  <2>1. QED
    BY <1>5, <1>6, <1>9, <1>10, OverlayPokes

\* Buffer.copy changes as many bytes of the target as the source and the
\* target let it.
LEMMA CopyPokes ==
  ASSUME Typed, Placed, NEW b \in DOMAIN buffers, NEW t \in DOMAIN buffers,
         NEW target_start \in Nat, NEW start \in Nat, NEW end \in Nat,
         Copy(b, t, target_start, start, end)
  PROVE  \E M, I : Poked(t, M, I)
<1> DEFINE source == buffers[b]
           target == buffers[t]
           data == memory[target.parent]
           own == ideal[target.first]
           last == CopyEnd(source, target, target_start, start, end)
           n == last - start
           g == [q \in 1 .. n |-> ideal[source.first][q + source.at + start]]
<1>1. /\ source.length \in Nat /\ source.offset \in Nat /\ source.at \in Nat
      /\ target.length \in Nat /\ target.offset \in Nat /\ target.at \in Nat
      /\ ideal[source.first] \in Seq(Byte) /\ data \in Seq(Byte)
      /\ own \in Seq(Byte)
  BY BufferFacts DEF Placed
<1>2. /\ n \in Nat /\ start + n <= source.length /\ last = start + n
      /\ target_start + n <= target.length
  <2> DEFINE most == source.length
             room == target.length
             wanted == IF end = 0 THEN most ELSE end
  <2>1. /\ most \in Nat /\ room \in Nat
        /\ end # 0 => start < end /\ end <= most
        /\ start < most /\ target_start < room
    BY <1>1 DEF Copy
  <2>2. last = IF room - target_start < wanted - start
               THEN room - target_start + start ELSE wanted
    BY DEF CopyEnd
  <2> HIDE DEF most, room, last
  <2>3. wanted \in Nat /\ start < wanted /\ wanted <= most
    BY <2>1
  <2> HIDE DEF wanted
  <2>4. /\ last - start \in Nat /\ start + (last - start) <= most
        /\ last = start + (last - start) /\ target_start + (last - start) <= room
    BY <2>1, <2>2, <2>3
  <2>5. QED
    BY <2>4 DEF most, room
<1>3. \A q \in 1 .. n :
        /\ q + source.at + start \in 1 .. Len(ideal[source.first])
        /\ memory[source.parent][q + start + source.offset] = g[q]
  <2> DEFINE base == Base(source)
             size == Size(source)
             offset == source.offset
             at == source.at
             length == source.length
  <2>1. /\ base \in Nat /\ size \in Nat /\ base + at = offset /\ at + length <= size
        /\ offset \in Nat /\ at \in Nat /\ length \in Nat
        /\ n \in Nat /\ start + n <= length
    BY <1>2, BufferFacts DEF Placed
  <2>2. \A i \in 1 .. size : memory[source.parent][base + i] = ideal[source.first][i]
    BY DEF Placed, Mirrors
  <2>3. \A q \in 1 .. n : /\ q + at + start \in 1 .. size
                          /\ base + (q + at + start) = q + start + offset
    <3> HIDE DEF base, size, offset, at, length, n
    <3>1. QED
      BY <2>1
  <2>4. QED
    <3>1. size = Len(ideal[source.first])
      BY DEF Size
    <3> HIDE DEF n, base, size
    <3>2. ASSUME NEW q \in 1 .. n
          PROVE  /\ q + source.at + start \in 1 .. Len(ideal[source.first])
                 /\ memory[source.parent][q + start + source.offset] = g[q]
      <4>1. memory[source.parent][base + (q + at + start)]
              = ideal[source.first][q + at + start]
        BY <2>2, <2>3
      <4>2. QED
        BY <2>3, <3>1, <4>1
    <3>3. QED
      BY <3>2
<1>4. \A q \in 1 .. n : g[q] \in Byte
  <2> HIDE DEF n
  <2>1. QED
    BY <1>1, <1>3, ElementOfSeq
<1>5. copy(memory[source.parent], data, target_start + target.offset,
           start + source.offset, last + source.offset)
        = Overlay(data, g, target.offset + target_start, n)
  <2>1. \A i \in DOMAIN data : i \in Nat
    BY <1>1, LenProperties
  <2>2. (last + source.offset) - (start + source.offset) = n
    BY <1>1, <1>2
  <2> HIDE DEF n
  <2>3. ASSUME NEW i \in DOMAIN data
        PROVE  /\ i - 1 \in target_start + target.offset
                              .. target_start + target.offset + n - 1
                    <=> i - (target.offset + target_start) \in 1 .. n
               /\ i - (target.offset + target_start) \in 1 .. n =>
                    memory[source.parent][i - (target_start + target.offset)
                                          + (start + source.offset)]
                      = g[i - (target.offset + target_start)]
    <3>1. i - (target_start + target.offset) + (start + source.offset)
            = (i - (target.offset + target_start)) + start + source.offset
      BY <1>1, <2>1, SMTT(30)
    <3>2. i - (target.offset + target_start) \in 1 .. n =>
            memory[source.parent][(i - (target.offset + target_start)) + start
                                  + source.offset]
              = g[i - (target.offset + target_start)]
      <4> HIDE DEF g
      <4>1. QED
        BY <1>3
    <3>3. i - 1 \in target_start + target.offset
                      .. target_start + target.offset + n - 1
            <=> i - (target.offset + target_start) \in 1 .. n
      <4> DEFINE place == target_start + target.offset
      <4>1. place \in Nat /\ target.offset + target_start = place
        BY <1>1
      <4> HIDE DEF place
      <4>2. i - 1 \in place .. place + n - 1 <=> i - place \in 1 .. n
        BY <1>2, <2>1, <4>1, Shifted
      <4>3. QED
        BY <4>1, <4>2 DEF place
    <3> HIDE DEF g
    <3>4. QED
      BY <3>1, <3>2, <3>3
  <2> HIDE DEF g
  <2>4. QED
    BY <2>2, <2>3 DEF copy, Overlay
<1>6. [i \in DOMAIN own |->
         IF i - target.at - target_start \in 1 .. n
         THEN ideal[source.first][i - target.at - target_start
                                  + source.at + start]
         ELSE own[i]]
        = Overlay(own, g, target.at + target_start, n)
  <2>1. \A i \in DOMAIN own : i \in Nat
    BY <1>1, LenProperties
  <2> HIDE DEF n
  <2>2. \A i \in DOMAIN own :
          i - target.at - target_start = i - (target.at + target_start)
    BY <1>1, <2>1
  <2>3. QED
    BY <2>2 DEF Overlay
<1>7. /\ memory' = [memory EXCEPT ![target.parent] =
                      Overlay(data, g, target.offset + target_start, n)]
      /\ ideal' = [ideal EXCEPT ![target.first] =
                     Overlay(own, g, target.at + target_start, n)]
      /\ UNCHANGED <<buffers, pool, used>>
  <2>1. /\ memory' = [memory EXCEPT ![target.parent] =
              copy(memory[source.parent], @, target_start + target.offset,
                   start + source.offset, last + source.offset)]
        /\ ideal' = [ideal EXCEPT ![target.first] =
              [i \in DOMAIN @ |->
                IF i - target.at - target_start \in 1 .. n
                THEN ideal[source.first][i - target.at - target_start
                                         + source.at + start]
                ELSE @[i]]]
        /\ UNCHANGED <<buffers, pool, used>>
    BY DEF Copy
  <2> HIDE DEF n, last, g
  <2>2. QED
    BY <1>5, <1>6, <2>1
<1>8. QED
  <2> HIDE DEF n, last, g
  <2>1. QED
    BY <1>2, <1>4, <1>7, OverlayPokes

-----------------------------------------------------------------------------
(* Calls that make a Buffer.                                               *)

\* The Buffers after one more.
LEMMA OneMore ==
  ASSUME NEW T, NEW s \in Seq(T), NEW e, NEW t, t = Append(s, e)
  PROVE  /\ DOMAIN t = DOMAIN s \cup {Len(s) + 1}
         /\ Len(s) + 1 \notin DOMAIN s
         /\ Len(t) = Len(s) + 1 /\ Len(s) \in Nat
         /\ DOMAIN s = 1 .. Len(s)
         /\ \A c \in DOMAIN s : t[c] = s[c]
         /\ t[Len(s) + 1] = e
OBVIOUS

\* A record like another but for where it is.
LEMMA Moved ==
  ASSUME NEW P, NEW F,
         NEW x \in [parent : P, offset : Nat, length : Nat, first : F, at : Nat],
         NEW l \in Nat, NEW o \in Nat, NEW a \in Nat,
         NEW e, e = [x EXCEPT !.length = l, !.offset = o, !.at = a]
  PROVE  /\ e \in [parent : P, offset : Nat, length : Nat, first : F, at : Nat]
         /\ e.length = l /\ e.offset = o /\ e.at = a
         /\ e.parent = x.parent /\ e.first = x.first
OBVIOUS

\* A slice is placed within the window it is taken from.
LEMMA SliceKeeps ==
  ASSUME Typed, Placed, NEW b \in DOMAIN buffers,
         NEW start \in Nat, NEW end \in Nat, Slice(b, start, end)
  PROVE  Typed' /\ Placed'
<1> USE DEF Placed
<1> DEFINE x == buffers[b]
           e == [x EXCEPT !.length = end - start, !.offset = @ + start,
                          !.at = @ + start]
           new == Len(buffers) + 1
<1>1. /\ buffers' = Append(buffers, e)
      /\ start <= end /\ end <= x.length
      /\ UNCHANGED <<memory, pool, used, ideal, calls>>
  BY DEF Slice, memVars
<1>2. x \in Bufs
  BY ElementOfSeq, LenProperties DEF Typed
<1>3. /\ e \in Bufs /\ e.parent = x.parent /\ e.first = x.first
      /\ e.offset = x.offset + start /\ e.at = x.at + start
      /\ e.length = end - start
  <2>1. /\ x.parent \in 1 .. Len(memory) /\ x.first \in 1 .. Len(ideal)
        /\ end - start \in Nat /\ x.offset + start \in Nat /\ x.at + start \in Nat
    <3> DEFINE offset == x.offset
               at == x.at
               length == x.length
    <3>1. /\ x.parent \in 1 .. Len(memory) /\ x.first \in 1 .. Len(ideal)
          /\ offset \in Nat /\ at \in Nat /\ length \in Nat
      BY BufferFacts
    <3> HIDE DEF offset, at, length
    <3>2. end - start \in Nat /\ offset + start \in Nat /\ at + start \in Nat
      BY <1>1, <3>1
    <3>3. QED
      BY <3>1, <3>2 DEF offset, at
  <2>2. e = [x EXCEPT !.length = end - start, !.offset = x.offset + start,
                      !.at = x.at + start]
    OBVIOUS
  <2> HIDE DEF e, x
  <2>3. QED
    BY <1>2, <2>1, <2>2, Moved DEF Bufs
<1> HIDE DEF e
<1>4. /\ DOMAIN buffers' = DOMAIN buffers \cup {new}
      /\ \A c \in DOMAIN buffers : buffers'[c] = buffers[c]
      /\ buffers'[new] = e
  BY <1>1, OneMore DEF Typed
<1>5. Base(e) = Base(x) /\ Size(e) = Size(x)
  BY <1>2, <1>3 DEF Bufs, Base, Size
<1>6. Typed'
  <2>1. buffers' \in Seq(Bufs)
    BY <1>1, <1>3, AppendProperties DEF Typed
  <2>2. buffers' \in Seq(Bufs)'
    BY <1>1, <2>1 DEF Bufs
  <2>3. QED
    BY <1>1, <2>2 DEF Typed
<1>7. Inside'
  <2> SUFFICES ASSUME NEW c \in DOMAIN buffers'
               PROVE  LET y == buffers'[c]
                      IN /\ y.at <= y.offset
                         /\ y.at + y.length <= Size(y)
                         /\ Base(y) + Size(y) <= Len(memory[y.parent])
                         /\ y.parent = pool => Base(y) + Size(y) <= used
    BY <1>1 DEF Inside, Base, Size
  <2>1. CASE c \in DOMAIN buffers
    BY <1>4, <2>1 DEF Inside
  <2>2. CASE c = new
    <3>1. e.at <= e.offset /\ e.at + e.length <= Size(x)
      <4> DEFINE offset == x.offset
                 at == x.at
                 length == x.length
                 size == Size(x)
      <4>1. /\ offset \in Nat /\ at \in Nat /\ length \in Nat /\ size \in Nat
            /\ at <= offset /\ at + length <= size
        BY BufferFacts DEF Inside
      <4> HIDE DEF offset, at, length, size
      <4>2. at + start <= offset + start /\ (end <= length => (at + start) + (end - start) <= size)
        BY <4>1
      <4>3. QED
        BY <1>1, <1>3, <4>2 DEF offset, at, length, size
    <3>2. /\ Base(x) + Size(x) <= Len(memory[x.parent])
          /\ x.parent = pool => Base(x) + Size(x) <= used
      BY DEF Inside
    <3>3. QED
      BY <1>3, <1>4, <1>5, <2>2, <3>1, <3>2
  <2>3. QED
    BY <1>4, <2>1, <2>2
<1>8. \A c \in DOMAIN buffers' : \E d \in DOMAIN buffers :
        /\ buffers'[c].parent = buffers[d].parent
        /\ buffers'[c].first = buffers[d].first
        /\ Base(buffers'[c]) = Base(buffers[d])
        /\ Size(buffers'[c]) = Size(buffers[d])
  BY <1>3, <1>4, <1>5
<1>9. Apart'
  <2> SUFFICES ASSUME NEW c \in DOMAIN buffers', NEW d \in DOMAIN buffers'
               PROVE  LET y == buffers'[c]
                          z == buffers'[d]
                      IN /\ y.first = z.first =>
                              y.parent = z.parent /\ Base(y) = Base(z)
                         /\ y.first # z.first /\ y.parent = z.parent =>
                              \/ Base(y) + Size(y) <= Base(z)
                              \/ Base(z) + Size(z) <= Base(y)
    BY <1>1, SMTT(30) DEF Apart, Base, Size
  <2>1. PICK y \in DOMAIN buffers :
           /\ buffers'[c].parent = buffers[y].parent
           /\ buffers'[c].first = buffers[y].first
           /\ Base(buffers'[c]) = Base(buffers[y])
           /\ Size(buffers'[c]) = Size(buffers[y])
    BY <1>8
  <2>2. PICK z \in DOMAIN buffers :
           /\ buffers'[d].parent = buffers[z].parent
           /\ buffers'[d].first = buffers[z].first
           /\ Base(buffers'[d]) = Base(buffers[z])
           /\ Size(buffers'[d]) = Size(buffers[z])
    BY <1>8
  <2>3. QED
    BY <2>1, <2>2 DEF Apart
<1>10. Mirrors'
  <2> SUFFICES ASSUME NEW c \in DOMAIN buffers', NEW i \in 1 .. Size(buffers'[c])
               PROVE  memory[buffers'[c].parent][Base(buffers'[c]) + i]
                        = ideal[buffers'[c].first][i]
    BY <1>1 DEF Mirrors, Base, Size
  <2>1. PICK d \in DOMAIN buffers :
           /\ buffers'[c].parent = buffers[d].parent
           /\ buffers'[c].first = buffers[d].first
           /\ Base(buffers'[c]) = Base(buffers[d])
           /\ Size(buffers'[c]) = Size(buffers[d])
    BY <1>8
  <2>2. QED
    BY <2>1 DEF Mirrors
<1>11. QED
  BY <1>6, <1>7, <1>9, <1>10

\* A step that makes a Buffer of n bytes at position o of SlowBuffer p, past
\* everything that is there.
Allocated(p, o, n) ==
  /\ memory' \in Seq(Seq(Byte)) /\ Len(memory) <= Len(memory')
  /\ \A q \in 1 .. Len(memory) : memory'[q] = memory[q]
  /\ p \in 1 .. Len(memory') /\ o + n <= Len(memory'[p])
  /\ \A c \in DOMAIN buffers : buffers[c].parent = p =>
       Base(buffers[c]) + Size(buffers[c]) <= o
  /\ pool' \in 0 .. Len(memory') /\ used' \in 0 .. PoolSize + 1
  /\ pool' # 0 => Len(memory'[pool']) = PoolSize + 1
  /\ p = pool' => o + n <= used'
  /\ \A c \in DOMAIN buffers : buffers[c].parent = pool' =>
       Base(buffers[c]) + Size(buffers[c]) <= used'
  /\ buffers' = Append(buffers,
       [parent |-> p, offset |-> o, length |-> n,
        first |-> Len(ideal) + 1, at |-> 0])
  /\ ideal' = Append(ideal, Bytes(memory'[p], o, o + n))
  /\ calls' = calls

\* An allocation of n bytes that nobody else has is placed apart from the
\* others.
LEMMA AllocationKeeps ==
  ASSUME Typed, Placed, NEW p, NEW o \in Nat, NEW n \in Nat,
         Allocated(p, o, n)
  PROVE  Typed' /\ Placed'
<1> USE DEF Placed
<1> DEFINE e == [parent |-> p, offset |-> o, length |-> n,
                 first |-> Len(ideal) + 1, at |-> 0]
           bytes == Bytes(memory'[p], o, o + n)
           new == Len(buffers) + 1
<1>1. /\ memory' \in Seq(Seq(Byte)) /\ Len(memory) \in Nat /\ Len(memory') \in Nat
      /\ memory'[p] \in Seq(Byte)
      /\ ideal \in Seq(Seq(Byte)) /\ Len(ideal) \in Nat
      /\ Len(memory) <= Len(memory') /\ p \in 1 .. Len(memory')
      /\ o + n <= Len(memory'[p])
      /\ \A q \in 1 .. Len(memory) : memory'[q] = memory[q]
  BY ElementOfSeq, LenProperties DEF Typed, Allocated
<1>2. /\ bytes \in Seq(Byte) /\ Len(bytes) = n
      /\ \A i \in 1 .. n : bytes[i] = memory'[p][o + i]
  <2> DEFINE data == memory'[p]
  <2>1. data \in Seq(Byte) /\ o + n <= Len(data)
    BY <1>1
  <2> HIDE DEF data
  <2>2. /\ Bytes(data, o, o + n) \in Seq(Byte) /\ Len(Bytes(data, o, o + n)) = n
        /\ \A i \in 1 .. n : Bytes(data, o, o + n)[i] = data[o + i]
    BY <2>1, BytesAt
  <2>3. QED
    BY <2>2 DEF data
<1> HIDE DEF bytes
<1>3. /\ ideal' \in Seq(Seq(Byte)) /\ Len(ideal') = Len(ideal) + 1
      /\ \A a \in 1 .. Len(ideal) : ideal'[a] = ideal[a]
      /\ ideal'[Len(ideal) + 1] = bytes
  <2>1. ideal' = Append(ideal, bytes)
    BY DEF bytes, Allocated
  <2>2. QED
    BY <1>1, <1>2, <2>1, AppendProperties
<1>4. /\ DOMAIN buffers' = DOMAIN buffers \cup {new}
      /\ \A c \in DOMAIN buffers : buffers'[c] = buffers[c]
      /\ buffers'[new] = e
  <2>1. buffers' = Append(buffers, e) /\ buffers \in Seq(Bufs)
    BY DEF Typed, Allocated
  <2> HIDE DEF e
  <2>2. QED
    BY <2>1, OneMore
<1>5. Typed'
  <2> DEFINE Later == [parent : 1 .. Len(memory'), offset : Nat, length : Nat,
                       first : 1 .. Len(ideal'), at : Nat]
  <2>1. e \in Later
    BY <1>1, <1>3
  <2>2. Bufs \subseteq Later
    <3>1. /\ 1 .. Len(memory) \subseteq 1 .. Len(memory')
          /\ 1 .. Len(ideal) \subseteq 1 .. Len(ideal')
      BY <1>1, <1>3
    <3>2. QED
      BY <3>1, Zenon DEF Bufs
  <2>3. buffers \in Seq(Later)
    <3> HIDE DEF Later
    <3>1. QED
      BY <2>2, SeqMonotonic DEF Typed
  <2>4. buffers' \in Seq(Later)
    <3> HIDE DEF Later, e
    <3>1. buffers' = Append(buffers, e)
      BY DEF e, Allocated
    <3>2. QED
      BY <2>1, <2>3, <3>1, AppendProperties
  <2>5. QED
    BY <1>3, <2>4 DEF Typed, Bufs, Allocated
<1> DEFINE Size1(y) == Len(ideal'[y.first])
<1>6. ASSUME NEW c \in DOMAIN buffers
      PROVE  LET y == buffers[c]
             IN /\ buffers'[c] = y
                /\ Size1(y) = Size(y)
                /\ memory'[y.parent] = memory[y.parent]
                /\ ideal'[y.first] = ideal[y.first]
                /\ y.first # Len(ideal) + 1
  <2>1. buffers[c].parent \in 1 .. Len(memory) /\ buffers[c].first \in 1 .. Len(ideal)
    BY BufferFacts
  <2> DEFINE y == buffers[c]
  <2>2. buffers'[c] = y /\ y.parent \in 1 .. Len(memory) /\ y.first \in 1 .. Len(ideal)
    BY <1>4, <2>1
  <2> HIDE DEF e, new, y
  <2>3. /\ memory'[y.parent] = memory[y.parent]
        /\ ideal'[y.first] = ideal[y.first]
        /\ y.first # Len(ideal) + 1
    <3> DEFINE f == y.first
               m == y.parent
    <3>1. m \in 1 .. Len(memory) /\ f \in 1 .. Len(ideal)
      BY <2>2
    <3> HIDE DEF f, m
    <3>2. /\ memory'[m] = memory[m] /\ ideal'[f] = ideal[f]
          /\ f # Len(ideal) + 1
      BY <1>1, <1>3, <3>1, SMTT(30)
    <3>3. QED
      BY <3>2 DEF f, m
  <2>4. QED
    BY <2>2, <2>3 DEF Size, y
<1>7. /\ Size1(e) = n /\ Base(e) = o
      /\ e.at <= e.offset /\ e.at + e.length <= n /\ e.parent = p
      /\ e.first = Len(ideal) + 1
  BY <1>2, <1>3 DEF Base
<1>8. Inside'
  <2> DEFINE Ok(y) == /\ y.at <= y.offset
                      /\ y.at + y.length <= Size1(y)
                      /\ Base(y) + Size1(y) <= Len(memory'[y.parent])
                      /\ y.parent = pool' => Base(y) + Size1(y) <= used'
  <2>1. ASSUME NEW c \in DOMAIN buffers PROVE Ok(buffers'[c])
    <3> DEFINE y == buffers[c]
    <3>1. /\ buffers'[c] = y /\ Size1(y) = Size(y)
          /\ memory'[y.parent] = memory[y.parent]
      BY <1>6
    <3>2. /\ y.at <= y.offset /\ y.at + y.length <= Size(y)
          /\ Base(y) + Size(y) <= Len(memory[y.parent])
          /\ y.parent = pool' => Base(y) + Size(y) <= used'
      BY DEF Inside, Allocated
    <3> HIDE DEF e, new, y, Size1
    <3>3. QED
      BY <3>1, <3>2
  <2>2. Ok(e)
    <3>1. o + n <= Len(memory'[p]) /\ (p = pool' => o + n <= used')
      BY DEF Allocated
    <3> HIDE DEF e
    <3>2. QED
      BY <1>7, <3>1
  <2>3. \A c \in DOMAIN buffers' : Ok(buffers'[c])
    <3> HIDE DEF e, new, Ok
    <3>1. QED
      BY <1>4, <2>1, <2>2
  <2>4. QED
    BY <2>3 DEF Inside, Size, Base
<1>9. Apart'
  <2> DEFINE Ok(y, z) == /\ y.first = z.first =>
                              y.parent = z.parent /\ Base(y) = Base(z)
                         /\ y.first # z.first /\ y.parent = z.parent =>
                              \/ Base(y) + Size1(y) <= Base(z)
                              \/ Base(z) + Size1(z) <= Base(y)
  <2>1. ASSUME NEW c \in DOMAIN buffers, NEW d \in DOMAIN buffers
        PROVE  Ok(buffers'[c], buffers'[d])
    BY <1>6 DEF Apart
  <2>2. ASSUME NEW c \in DOMAIN buffers
        PROVE  Ok(buffers'[c], e) /\ Ok(e, buffers'[c])
    <3> DEFINE y == buffers[c]
    <3>1. /\ buffers'[c] = y /\ Size1(y) = Size(y) /\ y.first # Len(ideal) + 1
          /\ y.parent = p => Base(y) + Size(y) <= o
      BY <1>6 DEF Allocated
    <3> HIDE DEF e, Size1, y
    <3>2. QED
      BY <1>7, <3>1
  <2>3. Ok(e, e)
    OBVIOUS
  <2>4. \A c, d \in DOMAIN buffers' : Ok(buffers'[c], buffers'[d])
    <3> HIDE DEF e, new, Ok
    <3>1. QED
      BY <1>4, <2>1, <2>2, <2>3
  <2>5. QED
    BY <2>4 DEF Apart, Size, Base
<1>10. Mirrors'
  <2> DEFINE Ok(y) == \A i \in 1 .. Size1(y) :
                        memory'[y.parent][Base(y) + i] = ideal'[y.first][i]
  <2>1. ASSUME NEW c \in DOMAIN buffers PROVE Ok(buffers'[c])
    <3> DEFINE y == buffers[c]
    <3>1. \A i \in 1 .. Size(y) : memory[y.parent][Base(y) + i] = ideal[y.first][i]
      BY DEF Mirrors
    <3>2. /\ buffers'[c] = y /\ Size1(y) = Size(y)
          /\ memory'[y.parent] = memory[y.parent]
          /\ ideal'[y.first] = ideal[y.first]
      BY <1>6
    <3> HIDE DEF y, Size1
    <3>3. QED
      BY <3>1, <3>2
  <2>2. Ok(e)
    <3>1. ideal'[e.first] = bytes
      BY <1>3
    <3> HIDE DEF e, Size1
    <3>2. QED
      BY <1>2, <1>7, <3>1
  <2>3. \A c \in DOMAIN buffers' : Ok(buffers'[c])
    <3> HIDE DEF e, new, Ok
    <3>1. QED
      BY <1>4, <2>1, <2>2
  <2>4. QED
    BY <2>3 DEF Mirrors, Size, Base
<1>11. QED
  BY <1>5, <1>8, <1>9, <1>10

\* new Buffer finds its bytes in a SlowBuffer of its own, in the pool or in a
\* fresh pool.
LEMMA NewBufferAllocates ==
  ASSUME Typed, Placed, NEW n \in Lengths, NewBuffer(n)
  PROVE  \E p, o : o \in Nat /\ n \in Nat /\ Allocated(p, o, n)
<1> USE DEF Placed
<1>0. /\ n \in Nat /\ n # 0 /\ PoolSize \in Nat /\ Len(memory) \in Nat
      /\ memory \in Seq(Seq(Byte)) /\ pool \in 0 .. Len(memory)
      /\ used \in 0 .. PoolSize + 1
      /\ pool # 0 => Len(memory[pool]) = PoolSize + 1
  BY BufferAssumption, LenProperties DEF Typed
<1>1. /\ \A c \in DOMAIN buffers : buffers[c].parent \in 1 .. Len(memory)
      /\ \A c \in DOMAIN buffers : buffers[c].parent = pool =>
           Base(buffers[c]) + Size(buffers[c]) <= used
      /\ \A c \in DOMAIN buffers : Base(buffers[c]) + Size(buffers[c]) \in Nat
  BY BufferFacts DEF Inside
<1>2. calls' = calls /\ Allocate(n)
  BY DEF NewBuffer
<1>3. ASSUME NEW size \in Nat, memory' = Append(memory, NewData(size))
      PROVE  /\ memory' \in Seq(Seq(Byte)) /\ Len(memory') = Len(memory) + 1
             /\ \A q \in 1 .. Len(memory) : memory'[q] = memory[q]
             /\ Len(memory'[Len(memory) + 1]) = size + 1
  <2> DEFINE data == NewData(size)
  <2>1. data \in Seq(Byte) /\ Len(data) = size + 1
    BY NewDataType
  <2> HIDE DEF data
  <2>2. memory' = Append(memory, data)
    BY <1>3 DEF data
  <2>3. QED
    BY <1>0, <2>1, <2>2, AppendProperties
<1>4. CASE n > PoolSize
  <2>1. Place(n) = [parent |-> Len(memory) + 1, offset |-> 0]
    BY <1>4 DEF Place
  <2>2. memory' = Append(memory, NewData(n)) /\ UNCHANGED <<pool, used>>
    BY <1>2, <1>4 DEF Allocate
  <2>3. /\ buffers' = Append(buffers,
             [parent |-> Len(memory) + 1, offset |-> 0, length |-> n,
              first |-> Len(ideal) + 1, at |-> 0])
        /\ ideal' = Append(ideal, Bytes(memory'[Len(memory) + 1], 0, 0 + n))
    BY <2>1 DEF NewBuffer, utf8Slice
  <2>4. /\ memory' \in Seq(Seq(Byte)) /\ Len(memory') = Len(memory) + 1
        /\ \A q \in 1 .. Len(memory) : memory'[q] = memory[q]
        /\ Len(memory'[Len(memory) + 1]) = n + 1
    BY <1>0, <1>3, <2>2
  <2>5. pool # 0 => Len(memory'[pool]) = PoolSize + 1
    BY <1>0, <2>4
  <2>6. Allocated(Len(memory) + 1, 0, n)
    BY <1>0, <1>1, <1>2, <2>2, <2>3, <2>4, <2>5 DEF Allocated
  <2>7. QED
    BY <1>0, <2>6
<1>5. CASE n <= PoolSize /\ Fits(n)
  <2>1. Place(n) = [parent |-> pool, offset |-> used]
    BY <1>0, <1>5 DEF Place
  <2>2. UNCHANGED <<memory, pool>> /\ used' = used + n
    BY <1>0, <1>2, <1>5 DEF Allocate
  <2>3. /\ buffers' = Append(buffers,
             [parent |-> pool, offset |-> used, length |-> n,
              first |-> Len(ideal) + 1, at |-> 0])
        /\ ideal' = Append(ideal, Bytes(memory'[pool], used, used + n))
    BY <2>1 DEF NewBuffer, utf8Slice
  <2>4. pool # 0 /\ used + n <= Len(memory[pool])
    BY <1>0, <1>5 DEF Fits
  <2>5. used + n <= PoolSize + 1 /\ used + n \in 0 .. PoolSize + 1
    BY <1>0, <2>4
  <2>6. \A c \in DOMAIN buffers : buffers[c].parent = pool =>
          Base(buffers[c]) + Size(buffers[c]) <= used + n
    BY <1>0, <1>1
  <2>7. Allocated(pool, used, n)
    BY <1>0, <1>1, <1>2, <2>2, <2>3, <2>4, <2>5, <2>6 DEF Allocated
  <2>8. QED
    BY <1>0, <2>7
<1>6. CASE n <= PoolSize /\ ~Fits(n)
  <2>1. Place(n) = [parent |-> Len(memory) + 1, offset |-> 0]
    BY <1>0, <1>6 DEF Place
  <2>2. /\ memory' = Append(memory, NewData(PoolSize))
        /\ pool' = Len(memory) + 1 /\ used' = n
    BY <1>0, <1>2, <1>6 DEF Allocate
  <2>3. /\ buffers' = Append(buffers,
             [parent |-> Len(memory) + 1, offset |-> 0, length |-> n,
              first |-> Len(ideal) + 1, at |-> 0])
        /\ ideal' = Append(ideal, Bytes(memory'[Len(memory) + 1], 0, 0 + n))
    BY <2>1 DEF NewBuffer, utf8Slice
  <2>4. /\ memory' \in Seq(Seq(Byte)) /\ Len(memory') = Len(memory) + 1
        /\ \A q \in 1 .. Len(memory) : memory'[q] = memory[q]
        /\ Len(memory'[Len(memory) + 1]) = PoolSize + 1
    BY <1>0, <1>3, <2>2
  <2>5. \A c \in DOMAIN buffers : buffers[c].parent # Len(memory) + 1
    BY <1>0, <1>1
  <2>6. Allocated(Len(memory) + 1, 0, n)
    BY <1>0, <1>2, <1>6, <2>2, <2>3, <2>4, <2>5 DEF Allocated
  <2>7. QED
    BY <1>0, <2>6
<1>7. QED
  BY <1>0, <1>4, <1>5, <1>6

-----------------------------------------------------------------------------
(* The invariant.                                                          *)

BufferInv == Typed /\ Placed /\ Addressed

\* The initial state satisfies the invariant.
LEMMA InitBufferInv == Init => BufferInv
BY BufferAssumption, EmptySeq
DEF Init, BufferInv, Typed, Placed, Inside, Apart, Mirrors, Addressed

\* A Buffer, once made, keeps its bytes, and a write keeps pointing at them.
LEMMA AddressedKeeps ==
  ASSUME Addressed, writes' \subseteq writes, DOMAIN buffers \subseteq DOMAIN buffers',
         \A c \in DOMAIN buffers : buffers'[c] = buffers[c]
  PROVE  Addressed'
BY DEF Addressed, WireOffset

\* Every step keeps it.
LEMMA BufferStep == BufferInv /\ [Next]_vars => BufferInv'
<1> SUFFICES ASSUME BufferInv, [Next]_vars PROVE BufferInv'
  OBVIOUS
<1>0. Typed /\ Placed /\ Addressed
  BY DEF BufferInv
<1>1. ASSUME NEW b \in DOMAIN buffers, \E M, I : Poked(b, M, I),
             calls' \in 0 .. MaxCalls, writes' = writes
      PROVE  BufferInv'
  <2>1. Typed' /\ Placed'
    BY <1>0, <1>1, PokeKeeps
  <2>2. Addressed'
    BY <1>0, <1>1, AddressedKeeps DEF Poked
  <2>3. QED
    BY <2>1, <2>2 DEF BufferInv
<1>2. Call => calls' \in 0 .. MaxCalls
  BY <1>0, BufferAssumption DEF Call, Typed
<1>3. ASSUME NEW n \in Lengths, NewBuffer(n) PROVE BufferInv'
  <2>1. PICK p, o : o \in Nat /\ n \in Nat /\ Allocated(p, o, n)
    BY <1>0, <1>3, NewBufferAllocates
  <2>2. Typed' /\ Placed'
    BY <1>0, <2>1, AllocationKeeps
  <2>3. writes' = writes
    BY <1>3 DEF NewBuffer
  <2> DEFINE e == [parent |-> p, offset |-> o, length |-> n,
                   first |-> Len(ideal) + 1, at |-> 0]
  <2>4. buffers' = Append(buffers, e)
    BY <2>1 DEF Allocated
  <2> HIDE DEF e
  <2>5. /\ DOMAIN buffers \subseteq DOMAIN buffers'
        /\ \A c \in DOMAIN buffers : buffers'[c] = buffers[c]
    BY <1>0, <2>4, OneMore DEF Typed
  <2>6. QED
    BY <1>0, <2>2, <2>3, <2>5, AddressedKeeps DEF BufferInv
<1>4. ASSUME NEW b \in DOMAIN buffers, NEW start \in Nat, NEW end \in Nat,
             Slice(b, start, end)
      PROVE  BufferInv'
  <2>1. Typed' /\ Placed'
    BY <1>0, <1>4, SliceKeeps
  <2> DEFINE e == [buffers[b] EXCEPT !.length = end - start,
                     !.offset = @ + start, !.at = @ + start]
  <2>2. buffers' = Append(buffers, e) /\ writes' = writes
    BY <1>4 DEF Slice
  <2> HIDE DEF e
  <2>3. /\ DOMAIN buffers \subseteq DOMAIN buffers'
        /\ \A c \in DOMAIN buffers : buffers'[c] = buffers[c]
    BY <1>0, <2>2, OneMore DEF Typed
  <2>4. QED
    BY <1>0, <2>1, <2>2, <2>3, AddressedKeeps DEF BufferInv
<1>5. ASSUME NEW b \in DOMAIN buffers, NEW i \in Nat, NEW v \in Nat, Set(b, i, v)
      PROVE  BufferInv'
  <2>1. calls' \in 0 .. MaxCalls /\ writes' = writes
    BY <1>2, <1>5 DEF Set
  <2>2. QED
    BY <1>0, <1>1, <1>5, <2>1, SetPokes
<1>6. ASSUME NEW b \in DOMAIN buffers, NEW string \in Strings,
             NEW offset \in Nat, NEW length \in Nat,
             Write(b, string, offset, length)
      PROVE  BufferInv'
  <2>1. calls' \in 0 .. MaxCalls /\ writes' = writes
    BY <1>2, <1>6 DEF Write
  <2>2. QED
    BY <1>0, <1>1, <1>6, <2>1, WritePokes
<1>7. ASSUME NEW b \in DOMAIN buffers, NEW t \in DOMAIN buffers,
             NEW target_start \in Nat, NEW start \in Nat, NEW end \in Nat,
             Copy(b, t, target_start, start, end)
      PROVE  BufferInv'
  <2>1. calls' \in 0 .. MaxCalls /\ writes' = writes
    BY <1>2, <1>7 DEF Copy
  <2>2. QED
    BY <1>0, <1>1, <1>7, <2>1, CopyPokes
<1>8. ASSUME NEW b \in DOMAIN buffers, SocketWrite(b) PROVE BufferInv'
  <2>1. UNCHANGED <<memory, pool, used, buffers, ideal>>
        /\ calls' \in 0 .. MaxCalls
    BY <1>2, <1>8 DEF SocketWrite, memVars
  <2>2. Typed'
    BY <1>0, <2>1 DEF Typed, Bufs
  <2>3. Placed'
    BY <1>0, <2>1 DEF Placed, Inside, Apart, Mirrors, Size, Base
  <2>4. Addressed'
    BY <1>0, <1>8, <2>1 DEF Addressed, SocketWrite, WireOffset
  <2>5. QED
    BY <2>2, <2>3, <2>4 DEF BufferInv
<1>9. CASE UNCHANGED <<memory, pool, used, buffers, ideal, calls>>
           /\ writes' \subseteq writes
  <2>1. Typed'
    BY <1>0, <1>9 DEF Typed, Bufs
  <2>2. Placed'
    BY <1>0, <1>9 DEF Placed, Inside, Apart, Mirrors, Size, Base
  <2>3. QED
    BY <1>0, <1>9, <2>1, <2>2, AddressedKeeps DEF BufferInv
<1>10. CASE Script
  <2>1. ByteLimit + 2 \in Nat
    BY BufferAssumption
  <2>2. ASSUME NEW b \in DOMAIN buffers
        PROVE  buffers[b].length \in Nat
    BY <1>0, BufferFacts DEF Placed
  <2>3. CASE \E n \in Lengths : NewBuffer(n)
    BY <1>3, <2>3
  <2>4. ASSUME NEW b \in DOMAIN buffers,
               \E start, end \in 0 .. buffers[b].length + 1 : Slice(b, start, end)
        PROVE  BufferInv'
    BY <1>4, <2>2, <2>4
  <2>5. ASSUME NEW b \in DOMAIN buffers,
               \E i \in 0 .. buffers[b].length, v \in {ByteLimit + 2} : Set(b, i, v)
        PROVE  BufferInv'
    BY <1>5, <2>1, <2>2, <2>5
  <2>6. ASSUME NEW b \in DOMAIN buffers,
               \E s \in Strings, offset, length \in 0 .. buffers[b].length :
                 Write(b, s, offset, length)
        PROVE  BufferInv'
    BY <1>6, <2>2, <2>6
  <2>7. ASSUME NEW b \in DOMAIN buffers, NEW t \in DOMAIN buffers,
               \E target_start \in 0 .. buffers[t].length,
                  start, end \in 0 .. buffers[b].length :
                 Copy(b, t, target_start, start, end)
        PROVE  BufferInv'
    BY <1>7, <2>2, <2>7
  <2>8. QED
    BY <1>8, <1>10, <2>3, <2>4, <2>5, <2>6, <2>7 DEF Script
<1>11. CASE Worker
  BY <1>9, <1>11 DEF Worker, Sent, memVars
<1>12. CASE UNCHANGED vars
  BY <1>9, <1>12 DEF vars
<1>13. QED
  BY <1>10, <1>11, <1>12 DEF Next

\* The windows of all Buffers stay inside their parents, those allocated from
\* one pool do not overlap, what each holds is what it would hold with memory
\* of its own, and every queued write names bytes of its Buffer (buffer.js:
\* 205-290, buffer_wrap.cpp, tcp_wrap.cpp:178-191).
THEOREM BufferInvariant == Spec => []BufferInv
BY InitBufferInv, BufferStep, PTL DEF Spec

\* Every variable keeps its type; no Buffer reaches past its SlowBuffer
\* (BufferWrap: TypeOK; buffer.js:235-290).
THEOREM TypeCorrect == Spec => []TypeOK
<1>1. BufferInv => TypeOK
  <2> SUFFICES ASSUME BufferInv PROVE TypeOK
    OBVIOUS
  <2>1. Typed /\ Inside
    BY DEF BufferInv, Placed
  <2>2. /\ \A m \in DOMAIN memory : memory[m] \in Seq(Byte)
        /\ \A a \in DOMAIN ideal : ideal[a] \in Seq(Byte)
    BY <2>1, LenProperties, ElementOfSeq DEF Typed
  <2>3. DOMAIN memory = 1 .. Len(memory)
    BY <2>1, LenProperties DEF Typed
  <2>4. ASSUME NEW b \in DOMAIN buffers
        PROVE  LET buffer == buffers[b]
               IN /\ buffer.parent \in DOMAIN memory
                  /\ buffer.offset \in Nat /\ buffer.length \in Nat
                  /\ buffer.offset + buffer.length <= Len(memory[buffer.parent])
    BY <2>1, <2>3, BufferFacts
  <2>5. QED
    BY <2>1, <2>2, <2>4 DEF TypeOK, Typed
<1>2. QED
  BY <1>1, BufferInvariant, PTL

\* What a Buffer reads.
LEMMA ReadsContents ==
  ASSUME BufferInv, NEW b \in DOMAIN buffers
  PROVE  /\ Bytes(memory[buffers[b].parent], buffers[b].offset,
                  buffers[b].offset + buffers[b].length) = Contents(buffers[b])
         /\ \A i \in 0 .. buffers[b].length - 1 :
              /\ At(memory[buffers[b].parent], buffers[b].offset + i)
                   = At(Contents(buffers[b]), i)
              /\ At(Contents(buffers[b]), i) \in Byte
<1> DEFINE x == buffers[b]
           data == memory[x.parent]
           own == ideal[x.first]
           offset == x.offset
           at == x.at
           n == x.length
           base == Base(x)
           size == Size(x)
           len == Len(data)
<1>1. /\ data \in Seq(Byte) /\ own \in Seq(Byte) /\ size = Len(own)
      /\ offset \in Nat /\ at \in Nat /\ n \in Nat /\ base \in Nat
      /\ size \in Nat /\ len \in Nat /\ len = Len(data)
      /\ base + at = offset /\ at + n <= size /\ base + size <= len
  BY BufferFacts DEF BufferInv, Placed, Size
<1>2. \A i \in 1 .. size : data[base + i] = own[i]
  BY DEF BufferInv, Placed, Mirrors
<1>3. Bytes(own, at, at + n) = Contents(x)
  BY DEF Contents
<1> HIDE DEF data, own, offset, at, n, base, size, len
<1>4. \A i \in 1 .. n : /\ at + i \in 1 .. size
                        /\ base + (at + i) = offset + i
  BY <1>1
<1>5. \A i \in 1 .. n : data[offset + i] = own[at + i]
  BY <1>2, <1>4
<1>6. /\ data \in Seq(Byte) /\ own \in Seq(Byte)
      /\ offset \in Nat /\ at \in Nat /\ n \in Nat
      /\ offset + n <= Len(data) /\ at + n <= Len(own)
  BY <1>1
<1>7. Bytes(data, offset, offset + n) = Bytes(own, at, at + n)
  <2> DEFINE u == Bytes(data, offset, offset + n)
             v == Bytes(own, at, at + n)
  <2>1. u \in Seq(Byte) /\ Len(u) = n /\ \A i \in 1 .. n : u[i] = data[offset + i]
    BY <1>6, BytesAt
  <2>2. v \in Seq(Byte) /\ Len(v) = n /\ \A i \in 1 .. n : v[i] = own[at + i]
    BY <1>6, BytesAt
  <2> HIDE DEF u, v
  <2>3. u = v
    BY <1>5, <2>1, <2>2, SeqEqual
  <2>4. QED
    BY <2>3 DEF u, v
<1>8. /\ Bytes(own, at, at + n) \in Seq(Byte)
      /\ Len(Bytes(own, at, at + n)) = n
      /\ \A i \in 1 .. n : Bytes(own, at, at + n)[i] = own[at + i]
  BY <1>6, BytesAt
<1>9. ASSUME NEW i \in 0 .. n - 1
      PROVE  /\ At(data, offset + i) = At(Contents(x), i)
             /\ At(Contents(x), i) \in Byte
  <2>1. i + 1 \in 1 .. n /\ offset + (i + 1) = (offset + i) + 1
    BY <1>1
  <2>2. data[offset + (i + 1)] = own[at + (i + 1)] /\ own[at + (i + 1)] \in Byte
    BY <1>1, <1>4, <1>5, <2>1, ElementOfSeq
  <2>3. Contents(x)[i + 1] = own[at + (i + 1)]
    BY <1>3, <1>8, <2>1
  <2>4. QED
    BY <2>1, <2>2, <2>3 DEF At
<1>10. QED
  BY <1>3, <1>7, <1>9 DEF data, offset, n

\* Sharing memory shows nowhere (BufferWrap: ReadsOwnBytes; buffer.js:235-290,
\* buffer_wrap.cpp:58-144), for any pool and any Buffers.
THEOREM BuffersReadTheirBytes == Spec => []ReadsOwnBytes
<1>1. BufferInv => ReadsOwnBytes
  <2> SUFFICES ASSUME BufferInv, NEW b \in DOMAIN buffers
               PROVE  LET buffer == buffers[b]
                          data == memory[buffer.parent]
                      IN /\ utf8Slice(data, buffer.offset,
                                      buffer.offset + buffer.length)
                              = Contents(buffer)
                         /\ \A i \in 0 .. buffer.length - 1 :
                              get(data, buffer.offset + i) % ByteLimit
                                = At(Contents(buffer), i)
    BY DEF ReadsOwnBytes
  <2> DEFINE x == buffers[b]
             data == memory[x.parent]
  <2>1. utf8Slice(data, x.offset, x.offset + x.length) = Contents(x)
    BY ReadsContents DEF utf8Slice
  <2>2. ASSUME NEW i \in 0 .. x.length - 1
        PROVE  get(data, x.offset + i) % ByteLimit = At(Contents(x), i)
    <3> DEFINE v == At(data, x.offset + i)
    <3>1. v = At(Contents(x), i) /\ v \in Byte
      BY ReadsContents
    <3> HIDE DEF v
    <3>2. v % ByteLimit = v /\ (v - ByteLimit) % ByteLimit = v
      BY <3>1, ByteRange
    <3>3. get(data, x.offset + i) \in {v, v - ByteLimit}
      BY DEF get, v
    <3>4. QED
      BY <3>1, <3>2, <3>3
  <2>3. QED
    BY <2>1, <2>2
<1>2. QED
  BY <1>1, BufferInvariant, PTL

\* A queued write still sends the bytes of its Buffer (BufferWrap:
\* SendsItsBytes; tcp_wrap.cpp:178-191), whatever happened to other Buffers
\* meanwhile.
THEOREM WritesSendTheirBytes == Spec => []SendsItsBytes
<1>1. BufferInv => SendsItsBytes
  <2> SUFFICES ASSUME BufferInv, NEW w \in writes,
                      Contents(buffers[w.of]) = w.meant,
                      buffers[w.of].offset < OffsetLimit
               PROVE  OnWire(w) = w.meant
    BY DEF SendsItsBytes
  <2> DEFINE x == buffers[w.of]
  <2>1. /\ w.of \in DOMAIN buffers /\ w.parent = x.parent
        /\ w.start = x.offset % OffsetLimit /\ w.length = x.length
    BY DEF BufferInv, Addressed, WireOffset
  <2>2. x.offset \in Nat
    BY <2>1, BufferFacts DEF BufferInv, Placed
  <2>3. x.offset % OffsetLimit = x.offset
    <3>1. \A v \in Nat : v < OffsetLimit => v % OffsetLimit = v
      BY BufferAssumption
    <3>2. QED
      BY <2>2, <3>1
  <2>4. OnWire(w) = Bytes(memory[x.parent], x.offset, x.offset + x.length)
    BY <2>1, <2>3 DEF OnWire
  <2>5. QED
    BY <2>1, <2>4, ReadsContents
<1>2. QED
  BY <1>1, BufferInvariant, PTL
=============================================================================
