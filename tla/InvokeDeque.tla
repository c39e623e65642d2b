----------------------------- MODULE InvokeDeque -----------------------------
(***************************************************************************)
(* invoke_queue taken apart. It is a std::queue over a std::deque that the *)
(* main thread pushes to (TCPWrap::Invoke) and the worker pops from        *)
(* (invoke_worker_thread) without a lock. The deque keeps the offset of    *)
(* its first element and its size; ++size and --size are a read and a      *)
(* write of shared memory, and the two threads may come in between. Where  *)
(* both touch the size at once the language gives the program no meaning;  *)
(* the interleavings below are what the instructions do.                   *)
(*                                                                         *)
(* TcpBridge models push and pop as atomic steps. This module shows what   *)
(* that abstraction leaves out.                                            *)
(***************************************************************************)
EXTENDS Integers, Sequences

CONSTANT MaxPushes   \* bound: invocations pushed

VARIABLES
  slot,      \* the deque's memory: what was last stored at each position
  off, size, \* the deque's offset and size
  pushPc,    \* main thread: outside push, element stored, size read, pushed
  pushSize,  \* the size it has read
  pushed,    \* invocations pushed so far; also numbers them
  asyncSent, \* a wake-up is on its way (uv_async_send)
  popPc,     \* worker: in the loop of uv_run, at empty(), handling, popping
  popSize,   \* the size it has read
  handled    \* history: invocations handled

vars == <<slot, off, size, pushPc, pushSize, pushed, asyncSent, popPc, popSize,
          handled>>
pushVars == <<pushPc, pushSize, pushed>>
popVars == <<popPc, popSize, handled>>

Init ==
  /\ slot = [i \in 0 .. MaxPushes |-> 0]
  /\ off = 0
  /\ size = 0
  /\ pushPc = "outside"
  /\ pushSize = 0
  /\ pushed = 0
  /\ asyncSent = FALSE
  /\ popPc = "loop"
  /\ popSize = 0
  /\ handled = <<>>

-----------------------------------------------------------------------------
(* Main thread: invoke_queue.push, then uv_async_send.                     *)

\* The element goes behind the last one the main thread can see. The deque
\* grows as needed; here it has MaxPushes + 1 places.
PushStore ==
  /\ pushPc = "outside"
  /\ pushed < MaxPushes
  /\ off + size <= MaxPushes
  /\ pushed' = pushed + 1
  /\ slot' = [slot EXCEPT ![off + size] = pushed + 1]
  /\ pushPc' = "stored"
  /\ UNCHANGED <<off, size, pushSize, asyncSent, popVars>>

PushReadSize ==
  /\ pushPc = "stored"
  /\ pushSize' = size
  /\ pushPc' = "read"
  /\ UNCHANGED <<slot, off, size, pushed, asyncSent, popVars>>

PushWriteSize ==
  /\ pushPc = "read"
  /\ size' = pushSize + 1
  /\ pushPc' = "pushed"
  /\ UNCHANGED <<slot, off, pushSize, pushed, asyncSent, popVars>>

AsyncSend ==
  /\ pushPc = "pushed"
  /\ asyncSent' = TRUE
  /\ pushPc' = "outside"
  /\ UNCHANGED <<slot, off, size, pushSize, pushed, popVars>>

-----------------------------------------------------------------------------
(* Worker thread: invoke_worker_thread.                                    *)

AsyncWakeup ==
  /\ popPc = "loop"
  /\ asyncSent
  /\ asyncSent' = FALSE
  /\ popPc' = "test"
  /\ UNCHANGED <<slot, off, size, pushVars, popSize, handled>>

\* while (!invoke_queue.empty()).
TestEmpty ==
  /\ popPc = "test"
  /\ popPc' = IF size = 0 THEN "loop" ELSE "front"
  /\ UNCHANGED <<slot, off, size, pushVars, asyncSent, popSize, handled>>

\* front() and the dispatch of what it finds.
Handle ==
  /\ popPc = "front"
  /\ handled' = Append(handled, slot[off])
  /\ popPc' = "offset"
  /\ UNCHANGED <<slot, off, size, pushVars, asyncSent, popSize>>

\* pop(): the offset first, then the size; an empty deque starts over at 0.
PopOffset ==
  /\ popPc = "offset"
  /\ off' = (off + 1) % (MaxPushes + 1)
  /\ popSize' = size
  /\ popPc' = "read"
  /\ UNCHANGED <<slot, size, pushVars, asyncSent, handled>>

PopWriteSize ==
  /\ popPc = "read"
  /\ size' = popSize - 1
  /\ off' = IF popSize = 1 THEN 0 ELSE off
  /\ popPc' = "test"
  /\ UNCHANGED <<slot, pushVars, asyncSent, popSize, handled>>

-----------------------------------------------------------------------------
Next ==
  \/ PushStore
  \/ PushReadSize
  \/ PushWriteSize
  \/ AsyncSend
  \/ AsyncWakeup
  \/ TestEmpty
  \/ Handle
  \/ PopOffset
  \/ PopWriteSize

Spec == Init /\ [][Next]_vars

-----------------------------------------------------------------------------
\* tcp_wrap.cpp:230-231 says that a build up of invoke requests is handled
\* "all while you're at it": when both threads are at rest and no wake-up is on
\* its way, every invocation pushed has been handled, once and in order.
AllInvocationsHandled ==
  pushPc = "outside" /\ popPc = "loop" /\ ~asyncSent =>
    handled = [i \in 1 .. pushed |-> i]
=============================================================================
