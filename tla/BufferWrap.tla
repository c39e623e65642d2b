----------------------------- MODULE BufferWrap -----------------------------
(***************************************************************************)
(* Buffers: the SlowBuffers of buffer.js, whose bytes are the data of a    *)
(* BufferWrap, the Buffers that are windows onto them, the pool small      *)
(* Buffers share, and writes of a Buffer that the worker has not sent yet. *)
(*                                                                         *)
(* A string is a sequence of bytes. A call that buffer.js rejects ('oob')  *)
(* changes nothing and is no step. Callers pass a slice a start of 0 or    *)
(* more and a write an offset in the Buffer, which buffer.js leaves to     *)
(* them. Memory is not modelled beyond the length of its BufferWrap.       *)
(***************************************************************************)
EXTENDS Integers, Sequences

CONSTANTS
  PoolSize,     \* Buffer.poolSize, 8192
  OffsetLimit,  \* 65536: TCPWrap::Invoke keeps 16 bits of an offset
  ByteLimit,    \* 256: values of a char
  Lengths,      \* lengths a script asks for
  Strings,      \* strings a script writes
  MaxBuffers,   \* bound: Buffers made
  MaxCalls      \* bound: set, write, copy and socket.write

ASSUME BufferAssumption ==
  /\ PoolSize \in Nat \ {0} /\ OffsetLimit \in Nat \ {0}
  /\ PoolSize < OffsetLimit
  /\ ByteLimit \in Nat \ {0} /\ ByteLimit % 2 = 0
  /\ Lengths \subseteq Nat \ {0}
  /\ Strings \subseteq Seq(0 .. ByteLimit - 1)
  /\ MaxBuffers \in Nat /\ MaxCalls \in Nat

VARIABLES
  memory,   \* BufferWrap.data of each SlowBuffer, a sequence of bytes
  pool,     \* the SlowBuffer small Buffers are cut from, 0 for none
  used,     \* pool.used
  buffers,  \* the Buffers: parent, offset, length; and, for the properties, the
            \* allocation (first) and the place in it (at) they stand for
  writes,   \* writes the worker has not sent
  ideal,    \* history: what each allocation holds, had it memory of its own
  calls     \* bound

vars == <<memory, pool, used, buffers, writes, ideal, calls>>
memVars == <<memory, pool, used>>

Byte == 0 .. ByteLimit - 1
Least(S) == CHOOSE x \in S : \A y \in S : x <= y

TypeOK ==
  /\ \A m \in DOMAIN memory : memory[m] \in Seq(Byte)
  /\ pool \in 0 .. Len(memory)
  /\ used \in 0 .. PoolSize + 1
  /\ \A b \in DOMAIN buffers :
       LET buffer == buffers[b]
       IN /\ buffer.parent \in DOMAIN memory
          /\ buffer.offset \in Nat /\ buffer.length \in Nat
          /\ buffer.offset + buffer.length <= Len(memory[buffer.parent])
  /\ \A a \in DOMAIN ideal : ideal[a] \in Seq(Byte)
  /\ calls \in 0 .. MaxCalls

Init ==
  /\ memory = <<>> /\ pool = 0 /\ used = 0
  /\ buffers = <<>> /\ writes = {} /\ ideal = <<>> /\ calls = 0

-----------------------------------------------------------------------------
(* BufferWrap: methods on the data, by zero-based index.                   *)

At(data, i) == data[i + 1]
Bytes(data, start, end) == SubSeq(data, start + 1, end)

\* createBuffer(size + 1), BufferWrap::init: one byte more than asked for. What
\* new char[] holds is arbitrary; no property depends on it.
NewData(size) == [i \in 1 .. size + 1 |-> 0]

\* BufferWrap::get: char is signed.
get(data, src) ==
  LET v == At(data, src) IN IF v < ByteLimit \div 2 THEN v ELSE v - ByteLimit

\* BufferWrap::set: the value is truncated to a char.
set(data, dest, val) == [data EXCEPT ![dest + 1] = val % ByteLimit]

\* BufferWrap::utf8Slice. The clamp of the end comes after the length is taken
\* and has no effect; buffer.js never asks for more.
utf8Slice(data, start, end) == Bytes(data, start, end)

\* What utf8Write writes is the least of the three bounds of its loop.
Written(data, string, length) == Least({Len(data), length, Len(string)})

\* Mutant: the loop does not stop at the length.
utf8WriteAll(data, string, start, length) ==
  LET n == Least({Len(data) - start, Len(string)})
  IN [i \in DOMAIN data |->
       IF i - 1 \in start .. start + n - 1 THEN string[i - start] ELSE data[i]]

utf8Write(data, string, start, length) ==
  LET n == Written(data, string, length)
  IN [i \in DOMAIN data |->
       IF i - 1 \in start .. start + n - 1 THEN string[i - start] ELSE data[i]]

\* BufferWrap::copy, a memmove.
copy(data, target, target_start, start, end) ==
  LET n == end - start
  IN [i \in DOMAIN target |->
       IF i - 1 \in target_start .. target_start + n - 1
       THEN data[i - target_start + start] ELSE target[i]]

-----------------------------------------------------------------------------
(* Buffer: allocation and slices.                                          *)

Fits(length) == pool # 0 /\ Len(memory[pool]) - used >= length

\* The constructor's search for memory: a SlowBuffer of its own when the length
\* exceeds the pool size, else a piece of the pool, or of a fresh one.
Allocate(length) ==
  IF length > PoolSize
  THEN /\ memory' = Append(memory, NewData(length))
       /\ UNCHANGED <<pool, used>>
  ELSE IF Fits(length)
  THEN /\ used' = used + length
       /\ UNCHANGED <<memory, pool>>
  ELSE /\ memory' = Append(memory, NewData(PoolSize))
       /\ pool' = Len(memory) + 1
       /\ used' = length

\* Where the bytes are, given the allocation's outcome.
Place(length) ==
  IF length > PoolSize THEN [parent |-> Len(memory) + 1, offset |-> 0]
  ELSE IF Fits(length) THEN [parent |-> pool, offset |-> used]
  ELSE [parent |-> Len(memory) + 1, offset |-> 0]

\* new Buffer(length).
NewBuffer(length) ==
  /\ Len(buffers) < MaxBuffers
  /\ Allocate(length)
  /\ LET place == Place(length)
     IN /\ buffers' = Append(buffers,
             [parent |-> place.parent, offset |-> place.offset,
              length |-> length, first |-> Len(ideal) + 1, at |-> 0])
        /\ ideal' = Append(ideal, utf8Slice(memory'[place.parent], place.offset,
                                            place.offset + length))
  /\ UNCHANGED <<writes, calls>>

\* Mutant: the end of a slice is not checked.
SliceUnchecked(b, start, end) ==
  LET buffer == buffers[b]
  IN /\ Len(buffers) < MaxBuffers
     /\ start <= end
     /\ buffers' = Append(buffers,
          [buffer EXCEPT !.length = end - start, !.offset = @ + start,
                         !.at = @ + start])
     /\ UNCHANGED <<memVars, writes, ideal, calls>>

\* Buffer.slice.
Slice(b, start, end) ==
  LET buffer == buffers[b]
  IN /\ Len(buffers) < MaxBuffers
     /\ start <= end /\ end <= buffer.length
     /\ buffers' = Append(buffers,
          [buffer EXCEPT !.length = end - start, !.offset = @ + start,
                         !.at = @ + start])
     /\ UNCHANGED <<memVars, writes, ideal, calls>>

-----------------------------------------------------------------------------
(* Buffer: calls that change bytes.                                        *)

Call == calls < MaxCalls /\ calls' = calls + 1

\* Buffer.set.
Set(b, i, v) ==
  LET buffer == buffers[b]
  IN /\ Call
     /\ i < buffer.length
     /\ memory' = [memory EXCEPT ![buffer.parent] = set(@, buffer.offset + i, v)]
     /\ ideal' = [ideal EXCEPT ![buffer.first][buffer.at + i + 1] = v % ByteLimit]
     /\ UNCHANGED <<pool, used, buffers, writes>>

\* How much Buffer.write lets utf8Write write: a length of 0 is no length.
WriteLength(buffer, offset, length) ==
  LET remaining == buffer.length - offset
  IN IF length = 0 \/ length > remaining THEN remaining ELSE length

\* Buffer.write, utf8.
Write(b, string, offset, length) ==
  LET buffer == buffers[b]
      n == WriteLength(buffer, offset, length)
      m == Least({n, Len(string)})
  IN /\ Call
     /\ offset <= buffer.length
     /\ memory' = [memory EXCEPT ![buffer.parent] =
                     utf8Write(@, string, buffer.offset + offset, n)]
     /\ ideal' = [ideal EXCEPT ![buffer.first] =
                    [i \in DOMAIN @ |->
                      IF i - buffer.at - offset \in 1 .. m
                      THEN string[i - buffer.at - offset] ELSE @[i]]]
     /\ UNCHANGED <<pool, used, buffers, writes>>

\* Where Buffer.copy ends in the source: 0 is no end, and the target limits it.
CopyEnd(source, target, target_start, start, end) ==
  LET last == IF end = 0 THEN source.length ELSE end
  IN IF target.length - target_start < last - start
     THEN target.length - target_start + start ELSE last

\* Buffer.copy.
Copy(b, t, target_start, start, end) ==
  LET source == buffers[b]
      target == buffers[t]
      last == CopyEnd(source, target, target_start, start, end)
      n == last - start
  IN /\ Call
     /\ end # 0 => start < end /\ end <= source.length
     /\ start < source.length
     /\ target_start < target.length
     /\ memory' = [memory EXCEPT ![target.parent] =
          copy(memory[source.parent], @, target_start + target.offset,
               start + source.offset, last + source.offset)]
     /\ ideal' = [ideal EXCEPT ![target.first] =
          [i \in DOMAIN @ |->
            IF i - target.at - target_start \in 1 .. n
            THEN ideal[source.first][i - target.at - target_start
                                     + source.at + start]
            ELSE @[i]]]
     /\ UNCHANGED <<pool, used, buffers, writes>>

-----------------------------------------------------------------------------
(* A Buffer on its way out.                                                *)

Contents(buffer) ==
  Bytes(ideal[buffer.first], buffer.at, buffer.at + buffer.length)

\* Mutant: the offset is kept in fewer bits than a pool needs.
NarrowOffset(buffer) == buffer.offset % (OffsetLimit \div 2)

\* TCPWrap::Invoke takes the offset as a uint16_t.
WireOffset(buffer) == buffer.offset % OffsetLimit

\* socket.write: what is queued is a pointer into the data and a length.
SocketWrite(b) ==
  LET buffer == buffers[b]
  IN /\ Call
     /\ writes' = writes \cup
          {[of |-> b, parent |-> buffer.parent, start |-> WireOffset(buffer),
            length |-> buffer.length, meant |-> Contents(buffer)]}
     /\ UNCHANGED <<memVars, buffers, ideal>>

\* uv_write, and the kernel reading the bytes, at any later time.
Sent(w) ==
  /\ writes' = writes \ {w}
  /\ UNCHANGED <<memVars, buffers, ideal, calls>>

\* The bytes a write puts on the wire if it is sent now.
OnWire(w) == Bytes(memory[w.parent], w.start, w.start + w.length)

-----------------------------------------------------------------------------
Script ==
  \/ \E length \in Lengths : NewBuffer(length)
  \/ \E b \in DOMAIN buffers :
       LET upto == 0 .. buffers[b].length
       IN \/ \E start, end \in 0 .. buffers[b].length + 1 : Slice(b, start, end)
          \/ \E i \in upto, v \in {ByteLimit + 2} : Set(b, i, v)
          \/ \E s \in Strings, offset, length \in upto : Write(b, s, offset, length)
          \/ \E t \in DOMAIN buffers :
               \E target_start \in 0 .. buffers[t].length, start, end \in upto :
                 Copy(b, t, target_start, start, end)
          \/ SocketWrite(b)

Worker == \E w \in writes : Sent(w)

Next == Script \/ Worker
Spec == Init /\ [][Next]_vars

-----------------------------------------------------------------------------
(* Properties.                                                             *)

\* Sharing memory shows nowhere: whatever is read through a Buffer is what was
\* written through it, its slices and the Buffer it was cut from, and nothing
\* written through another allocation of the pool. get gives the byte with its
\* sign (buffer_wrap.cpp:58-100, 112-144; buffer.js:235-290, 336-362, 503-550).
ReadsOwnBytes ==
  \A b \in DOMAIN buffers :
    LET buffer == buffers[b]
        data == memory[buffer.parent]
    IN /\ utf8Slice(data, buffer.offset, buffer.offset + buffer.length)
            = Contents(buffer)
       /\ \A i \in 0 .. buffer.length - 1 :
            get(data, buffer.offset + i) % ByteLimit = At(Contents(buffer), i)

\* A write that has not been sent would send the bytes of its Buffer, at least
\* as long as the script has not changed them and the offset fits its width
\* (tcp_wrap.cpp:178-191): what other Buffers of the pool do is no matter.
SendsItsBytes ==
  \A w \in writes :
    /\ Contents(buffers[w.of]) = w.meant
    /\ buffers[w.of].offset < OffsetLimit
    => OnWire(w) = w.meant
=============================================================================
