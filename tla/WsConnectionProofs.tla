------------------------- MODULE WsConnectionProofs -------------------------
(* Proofs about WsConnection, for any bounds and any number of frames.     *)
EXTENDS WsConnection, SequenceTheorems, TLAPS

-----------------------------------------------------------------------------
(* What sendFrame does to the queue.                                       *)

\* TypeOK in parts, by what changes together.
OutTypeOK ==
  /\ sent \in Nat /\ outgoing \in Seq(OutFrame) /\ outputPaused \in BOOLEAN
  /\ unacked \in Nat /\ wire \in Seq(OutFrame)
InTypeOK ==
  /\ frameQueue \in Seq(Nat) /\ loop \in {"idle", "parsing", "handler"}
  /\ parsed \in Seq(InFrame) /\ messages \in Seq(Seq(Nat))
CountTypeOK ==
  /\ dropOnTimeout \in DropOptions
  /\ state \in {"open", "closing", "closed"}
  /\ closeCode \in {"none", "normal", "abnormal", "protocol", "dropped", "peer"}
  /\ closeEvents \in Nat /\ calls \in Nat /\ chunks \in Nat /\ pings \in Nat
FlagTypeOK ==
  /\ connected \in BOOLEAN
  /\ keepaliveTimer \in BOOLEAN /\ graceTimer \in BOOLEAN /\ closeTimer \in BOOLEAN
  /\ lateDrop \in BOOLEAN /\ sockWritable \in BOOLEAN /\ sockDestroyed \in BOOLEAN

\* The type invariant in parts that change together.
LEMMA TypeParts == TypeOK <=> OutTypeOK /\ InTypeOK /\ CountTypeOK /\ FlagTypeOK
  BY Zenon DEF TypeOK, OutTypeOK, InTypeOK, CountTypeOK, FlagTypeOK

\* Frames sent together get consecutive numbers.
LEMMA NumberedFrames ==
  ASSUME OutTypeOK, NEW op \in OutOps, NEW n \in Nat
  PROVE  /\ Numbered(op, n) \in Seq(OutFrame)
         /\ Len(Numbered(op, n)) = n
         /\ \A i \in 1 .. n : Numbered(op, n)[i] = [op |-> op, id |-> sent + i]
<1>1. Numbered(op, n) \in [1 .. n -> OutFrame]
  BY DEF Numbered, OutFrame, OutTypeOK
<1>2. QED
  BY <1>1 DEF Numbered

\* One SendFrames writes at most the oldest frame and queues the rest.
LEMMA SendFramesType ==
  ASSUME OutTypeOK, NEW queue \in Seq(OutFrame), NEW frames \in Seq(OutFrame),
         SendFrames(queue, frames)
  PROVE  OutTypeOK'
<1> DEFINE all == queue \o frames
<1>1. /\ all \in Seq(OutFrame) /\ Len(all) = Len(queue) + Len(frames)
      /\ Len(frames) \in Nat /\ Len(queue) \in Nat
  BY ConcatProperties
<1>2. frames # <<>> => all # <<>>
  BY <1>1
<1>3. frames # <<>> => Tail(all) \in Seq(OutFrame) /\ Head(all) \in OutFrame
  BY <1>1, <1>2
<1>4. SubSeq(all, Len(frames) + 1, Len(all)) \in Seq(OutFrame)
  BY <1>1
<1>5. sent' \in Nat
  BY <1>1 DEF SendFrames, OutTypeOK
<1>6. CASE outgoing' = all /\ UNCHANGED <<outputPaused, unacked, wire>>
  BY <1>1, <1>5, <1>6 DEF OutTypeOK
<1>7. CASE /\ frames # <<>> /\ outgoing' = Tail(all)
           /\ wire' = Append(wire, Head(all))
           /\ unacked' = unacked + 1 /\ outputPaused' = TRUE
  BY <1>3, <1>5, <1>7 DEF OutTypeOK
<1>8. CASE /\ outgoing' = SubSeq(all, Len(frames) + 1, Len(all))
           /\ UNCHANGED <<outputPaused, unacked, wire>>
  BY <1>4, <1>5, <1>8 DEF OutTypeOK
<1>9. QED
  BY <1>6, <1>7, <1>8 DEF SendFrames

\* The initial state is type-correct.
LEMMA TypeInit == Init => TypeOK
<1> SUFFICES ASSUME Init PROVE TypeOK
  OBVIOUS
<1>1. OutTypeOK
  <2>1. unacked \in Nat
    BY DEF Init
  <2>2. outgoing \in Seq(OutFrame) /\ wire \in Seq(OutFrame)
    BY DEF Init
  <2>3. QED
    BY <2>1, <2>2 DEF Init, OutTypeOK
<1>2. InTypeOK
  BY DEF Init, InTypeOK
<1>3. sockDestroyed \in BOOLEAN /\ sockWritable \in BOOLEAN /\ lateDrop \in BOOLEAN
  BY Zenon DEF Init
<1>4. FlagTypeOK
  BY <1>3 DEF Init, FlagTypeOK
<1>5. CountTypeOK
  BY DEF Init, CountTypeOK
<1>6. QED
  BY <1>1, <1>2, <1>4, <1>5, TypeParts

\* Dropping the connection keeps the types of the output.
LEMMA DropType ==
  ASSUME OutTypeOK, NEW code, NEW frames \in Seq(OutFrame), Drop(code, frames)
  PROVE  OutTypeOK'
<1>1. <<>> \in Seq(OutFrame) /\ SendFrames(<<>>, frames)
  BY DEF Drop
<1>2. QED
  BY <1>1, SendFramesType

-----------------------------------------------------------------------------
(* Types.                                                                  *)

\* Every step keeps the types of the output.
LEMMA OutTypeStep ==
  ASSUME TypeOK, Next
  PROVE  OutTypeOK'
<1> USE TypeParts
<1>1. ASSUME NEW n \in 1 .. 2, Send(n) PROVE OutTypeOK'
  <2>1. SendFrames(outgoing, Numbered("data", n)) /\ Numbered("data", n) \in Seq(OutFrame)
    BY <1>1, NumberedFrames DEF Send, OutOps
  <2>2. QED
    BY <2>1, SendFramesType DEF OutTypeOK
<1>2. CASE Close
  <2>1. SendFrames(outgoing, Numbered("close", 1)) /\ Numbered("close", 1) \in Seq(OutFrame)
    BY <1>2, NumberedFrames DEF Close, OutOps
  <2>2. QED
    BY <2>1, SendFramesType DEF OutTypeOK
<1>3. CASE AppDrop
  <2>1. Drop("dropped", Numbered("close", 1)) /\ Numbered("close", 1) \in Seq(OutFrame)
    BY <1>3, NumberedFrames DEF AppDrop, OutOps
  <2>2. QED
    BY <2>1, DropType
<1>4. CASE HandleKeepaliveTimer
  <2>1. SendFrames(outgoing, Numbered("ping", 1)) /\ Numbered("ping", 1) \in Seq(OutFrame)
    BY <1>4, NumberedFrames DEF HandleKeepaliveTimer, OutOps
  <2>2. QED
    BY <2>1, SendFramesType DEF OutTypeOK
<1>5. CASE HandleGracePeriodTimer \/ LateDrop
  <2>1. Drop("abnormal", <<>>) /\ <<>> \in Seq(OutFrame)
    BY <1>5 DEF HandleGracePeriodTimer, LateDrop
  <2>2. QED
    BY <2>1, DropType
<1>6. CASE WriteAcknowledged
  <2>1. outgoing # <<>> => Head(outgoing) \in OutFrame /\ Tail(outgoing) \in Seq(OutFrame)
    BY DEF OutTypeOK
  <2>2. sent' = sent
    BY <1>6 DEF WriteAcknowledged
  <2>3. CASE /\ unacked > 1 /\ unacked' = unacked - 1
             /\ UNCHANGED <<outgoing, outputPaused, wire>>
    BY <2>2, <2>3 DEF OutTypeOK
  <2>4. CASE /\ outgoing # <<>> /\ outgoing' = Tail(outgoing)
             /\ wire' = Append(wire, Head(outgoing))
             /\ outputPaused' = TRUE /\ UNCHANGED unacked
    BY <2>1, <2>2, <2>4 DEF OutTypeOK
  <2>5. CASE unacked' = 0 /\ outputPaused' = FALSE /\ UNCHANGED <<outgoing, wire>>
    BY <2>2, <2>5 DEF OutTypeOK
  <2>6. QED
    BY <1>6, <2>3, <2>4, <2>5 DEF WriteAcknowledged
<1>7. CASE HandleCloseTimer \/ SocketClosed \/ HandleSocketData \/ LoopEnds
  <2>1. UNCHANGED outVars
    BY <1>7 DEF HandleCloseTimer, SocketClosed, HandleSocketData, LoopEnds
  <2>2. QED
    BY <2>1 DEF outVars, OutTypeOK
<1>8. ASSUME NEW f \in InFrame, Process(f) PROVE OutTypeOK'
  <2>1. CASE ProcessData(f) \/ ProcessPong(f)
    <3>1. UNCHANGED outVars
      BY <2>1 DEF ProcessData, ProcessPong, OnlyAssembly
    <3>2. QED
      BY <3>1 DEF outVars, OutTypeOK
  <2>2. CASE ProcessIllegal(f)
    <3>1. Drop("protocol", Numbered("close", 1)) /\ Numbered("close", 1) \in Seq(OutFrame)
      BY <2>2, NumberedFrames DEF ProcessIllegal, OutOps
    <3>2. QED
      BY <3>1, DropType
  <2>3. CASE ProcessPing(f)
    <3>1. SendFrames(outgoing, Numbered("pong", 1)) /\ Numbered("pong", 1) \in Seq(OutFrame)
      BY <2>3, NumberedFrames DEF ProcessPing, OutOps
    <3>2. QED
      BY <3>1, SendFramesType DEF OutTypeOK
  <2>4. CASE ProcessClose(f)
    <3>1. SendFrames(outgoing, Numbered("close", 1)) /\ Numbered("close", 1) \in Seq(OutFrame)
      BY <2>4, NumberedFrames DEF ProcessClose, OutOps
    <3>2. QED
      BY <3>1, SendFramesType DEF OutTypeOK
  <2>5. CASE ProcessReserved(f)
    <3>1. /\ SendFrames(<<>>, Numbered("close", 1)) /\ <<>> \in Seq(OutFrame)
          /\ Numbered("close", 1) \in Seq(OutFrame)
      BY <2>5, NumberedFrames DEF ProcessReserved, OutOps
    <3>2. QED
      BY <3>1, SendFramesType
  <2>6. QED
    BY <1>8, <2>1, <2>2, <2>3, <2>4, <2>5 DEF Process
<1>9. QED
  BY <1>1, <1>2, <1>3, <1>4, <1>5, <1>6, <1>7, <1>8 DEF Next, Application, Timers

\* Every step keeps those of the input.
LEMMA InTypeStep ==
  ASSUME TypeOK, Next
  PROVE  InTypeOK'
<1>0. InTypeOK
  BY TypeParts
<1>1. CASE \E n \in 1 .. 2 : Send(n)
  BY <1>0, <1>1 DEF Send, AppCall, InTypeOK
<1>2. CASE Close
  BY <1>0, <1>2 DEF Close, AppCall, InTypeOK
<1>3. CASE AppDrop
  BY <1>0, <1>3 DEF AppDrop, AppCall, Drop, InTypeOK
<1>4. CASE HandleKeepaliveTimer \/ HandleCloseTimer \/ WriteAcknowledged
  <2>1. UNCHANGED inVars /\ UNCHANGED loop
    BY <1>0, <1>4 DEF HandleKeepaliveTimer, HandleCloseTimer, WriteAcknowledged
  <2>2. QED
    BY <1>0, <2>1 DEF inVars, InTypeOK
<1>5. CASE HandleGracePeriodTimer \/ LateDrop
  <2>1. frameQueue' = <<>> /\ UNCHANGED <<parsed, messages, loop>>
    BY <1>5 DEF HandleGracePeriodTimer, LateDrop, Drop
  <2>2. QED
    BY <1>0, <2>1 DEF InTypeOK
<1>6. CASE SocketClosed \/ HandleSocketData \/ LoopEnds
  <2>1. UNCHANGED inVars /\ loop' \in {loop, "parsing", "idle"}
    BY <1>0, <1>6 DEF SocketClosed, HandleSocketData, LoopEnds
  <2>2. QED
    BY <1>0, <2>1 DEF inVars, InTypeOK
<1>7. ASSUME NEW f \in InFrame, Process(f) PROVE InTypeOK'
  <2>1. Here \in Nat /\ parsed' \in Seq(InFrame)
    <3>1. parsed' = Append(parsed, f)
      BY <1>7 DEF Process, ProcessData, ProcessIllegal, ProcessPing, ProcessPong,
                  ProcessClose, ProcessReserved, Parse
    <3>2. QED
      BY <1>0, <1>7, <3>1 DEF Here, InTypeOK
  <2>2. frameQueue' \in {frameQueue, <<>>, <<Here>>, Append(frameQueue, Here)}
    BY <1>0, <1>7 DEF Process, ProcessData, ProcessIllegal, ProcessPing, ProcessPong,
                ProcessClose, ProcessReserved, Drop
  <2>3. /\ messages' \in {messages, Append(messages, <<Here>>),
                          Append(messages, Append(frameQueue, Here))}
        /\ loop' \in {"parsing", "handler"}
    BY <1>0, <1>7 DEF Process, ProcessData, ProcessIllegal, ProcessPing, ProcessPong,
                ProcessClose, ProcessReserved, NoMessage, Message
  <2>4. /\ Append(frameQueue, Here) \in Seq(Nat) /\ <<Here>> \in Seq(Nat)
        /\ <<>> \in Seq(Nat)
    BY <1>0, <2>1 DEF InTypeOK
  <2>5. messages' \in Seq(Seq(Nat))
    <3>1. CASE messages' = messages
      BY <1>0, <3>1 DEF InTypeOK
    <3>2. ASSUME NEW m \in Seq(Nat) PROVE Append(messages, m) \in Seq(Seq(Nat))
      BY <1>0 DEF InTypeOK
    <3>3. QED
      BY <2>3, <2>4, <3>1, <3>2
  <2>6. QED
    BY <1>0, <2>1, <2>2, <2>3, <2>4, <2>5 DEF InTypeOK
<1>8. QED
  BY <1>1, <1>2, <1>3, <1>4, <1>5, <1>6, <1>7 DEF Next, Application, Timers

\* Every step keeps those of the counters.
LEMMA CountTypeStep ==
  ASSUME TypeOK, Next
  PROVE  CountTypeOK'
<1>0. CountTypeOK
  BY TypeParts
<1>1. CASE Application
  <2>1. /\ state' \in {state, "closing", "closed"}
        /\ closeCode' \in {closeCode, "normal", "dropped"}
        /\ closeEvents' \in {closeEvents, closeEvents + 1}
        /\ calls' = calls + 1 /\ UNCHANGED <<dropOnTimeout, chunks, pings>>
    BY <1>1 DEF Application, Send, Close, AppDrop, AppCall, Drop, HangUp, connVars
  <2>2. QED
    BY <1>0, <2>1 DEF CountTypeOK
<1>2. CASE Timers
  <2>1. /\ state' \in {state, "closed"} /\ closeCode' \in {closeCode, "abnormal"}
        /\ closeEvents' \in {closeEvents, closeEvents + 1}
        /\ pings' \in {pings, pings + 1} /\ UNCHANGED <<dropOnTimeout, calls, chunks>>
    BY <1>2 DEF Timers, HandleKeepaliveTimer, HandleGracePeriodTimer,
                HandleCloseTimer, LateDrop, Drop, HangUp, connVars, boundVars
  <2>2. QED
    BY <1>0, <2>1 DEF CountTypeOK
<1>3. CASE WriteAcknowledged \/ SocketClosed \/ HandleSocketData \/ LoopEnds
  <2>1. /\ state' \in {state, "closed"} /\ closeCode' \in {closeCode, "abnormal"}
        /\ closeEvents' \in {closeEvents, 1}
        /\ chunks' \in {chunks, chunks + 1} /\ UNCHANGED <<dropOnTimeout, calls, pings>>
    BY <1>3 DEF WriteAcknowledged, SocketClosed, HandleSocketClose,
                HandleSocketData, LoopEnds, connVars, boundVars
  <2>2. QED
    BY <1>0, <2>1 DEF CountTypeOK
<1>4. ASSUME NEW f \in InFrame, Process(f) PROVE CountTypeOK'
  <2>1. UNCHANGED boundVars
    BY <1>4 DEF Process, ProcessData, ProcessIllegal, ProcessPing, ProcessPong,
                ProcessClose, ProcessReserved, Parse
  <2>2. /\ state' \in {state, "closing", "closed"}
        /\ closeCode' \in {closeCode, "protocol", "peer"}
        /\ closeEvents' \in {closeEvents, closeEvents + 1, closeEvents + 2}
    BY <1>4 DEF Process, ProcessData, ProcessIllegal, ProcessPing, ProcessPong,
                ProcessClose, ProcessReserved, Drop, HangUp, OnlyAssembly, connVars
  <2>3. QED
    BY <1>0, <2>1, <2>2 DEF CountTypeOK, boundVars
<1>5. QED
  BY <1>1, <1>2, <1>3, <1>4 DEF Next

\* What an action may do to the flags.
OnlySwitched ==
  /\ connected' \in {connected, FALSE}
  /\ keepaliveTimer' \in {keepaliveTimer, TRUE, FALSE}
  /\ graceTimer' \in {graceTimer, TRUE, FALSE}
  /\ closeTimer' \in {closeTimer, TRUE, FALSE}
  /\ lateDrop' \in {lateDrop, FALSE}
  /\ sockWritable' \in {sockWritable, FALSE}
  /\ sockDestroyed' \in {sockDestroyed, TRUE}

\* Every step sets the flags only to the values it may.
LEMMA Switched == Next => OnlySwitched
<1>1. ASSUME Application PROVE OnlySwitched
  BY <1>1 DEF Application, Send, Close, AppDrop, AppCall, Drop, HangUp, connVars,
              sockVars, OnlySwitched
<1>2. ASSUME Timers PROVE OnlySwitched
  BY <1>2 DEF Timers, HandleKeepaliveTimer, SetKeepaliveTimer,
              HandleGracePeriodTimer, HandleCloseTimer, LateDrop, Drop, HangUp,
              connVars, sockVars, OnlySwitched
<1>3. ASSUME WriteAcknowledged \/ SocketClosed \/ HandleSocketData \/ LoopEnds
      PROVE  OnlySwitched
  BY <1>3 DEF WriteAcknowledged, SocketClosed, HandleSocketClose,
              HandleSocketData, SetKeepaliveTimer, LoopEnds, connVars, timerVars,
              sockVars, OnlySwitched
<1>4. ASSUME NEW f \in InFrame, Process(f) PROVE OnlySwitched
  BY <1>4 DEF Process, ProcessData, ProcessIllegal, ProcessPing, ProcessPong,
              ProcessClose, ProcessReserved, Parse, Drop, HangUp, OnlyAssembly,
              connVars, sockVars, OnlySwitched
<1>5. QED
  BY <1>1, <1>2, <1>3, <1>4 DEF Next

\* Every step keeps the types of the flags.
LEMMA FlagTypeStep ==
  ASSUME TypeOK, Next
  PROVE  FlagTypeOK'
<1>1. FlagTypeOK /\ OnlySwitched
  BY TypeParts, Switched
<1>2. QED
  BY <1>1, ZenonT(60) DEF FlagTypeOK, OnlySwitched

\* Every step keeps the types.
LEMMA TypeStep == TypeOK /\ [Next]_vars => TypeOK'
<1> SUFFICES ASSUME TypeOK, [Next]_vars 
               PROVE  OutTypeOK' /\ InTypeOK' /\ CountTypeOK' /\ FlagTypeOK'
  BY Zenon DEF TypeOK, OutTypeOK, InTypeOK, CountTypeOK, FlagTypeOK
<1>1. CASE UNCHANGED vars
  <2>1. OutTypeOK'
    BY <1>1, TypeParts DEF vars, outVars, OutTypeOK
  <2>2. InTypeOK'
    BY <1>1, TypeParts DEF vars, inVars, InTypeOK
  <2>3. FlagTypeOK'
    BY <1>1, TypeParts DEF vars, connVars, timerVars, sockVars, FlagTypeOK
  <2>4. CountTypeOK'
    BY <1>1, TypeParts DEF vars, connVars, boundVars, CountTypeOK
  <2>5. QED
    BY <2>1, <2>2, <2>3, <2>4
<1>2. CASE Next
  BY <1>2, OutTypeStep, InTypeStep, CountTypeStep, FlagTypeStep
<1>3. QED
  BY <1>1, <1>2

\* Every reachable state is type-correct (WsConnection: TypeOK).
THEOREM ConnectionTypeCorrect == Spec => []TypeOK
  BY TypeInit, TypeStep, PTL DEF Spec

-----------------------------------------------------------------------------
(* What every step does to the output, in four kinds. The proofs about the *)
(* order of frames need nothing else of an action.                         *)

\* Nothing is sent.
Quiet ==
  /\ UNCHANGED outVars
  /\ connected' \in {connected, FALSE} /\ sockDestroyed' \in {sockDestroyed, TRUE}
  /\ lateDrop' = lateDrop

\* n frames of kind op are sent behind those queued; a close frame goes with
\* connected = FALSE.
Sending(op, n) ==
  /\ SendFrames(outgoing, Numbered(op, n))
  /\ connected' \in {connected, FALSE}
  /\ op = "close" => connected' = FALSE
  /\ UNCHANGED <<sockDestroyed, lateDrop>>

\* drop(), or what it is part of.
Ending(frames) ==
  /\ SendFrames(<<>>, frames)
  /\ connected' = FALSE
  /\ sockDestroyed' = TRUE

Acknowledging ==
  /\ WriteAcknowledged
  /\ UNCHANGED <<connected, sockDestroyed, lateDrop>>

Kinds ==
  \/ Quiet
  \/ \E op \in OutOps, n \in 1 .. 2 : Sending(op, n)
  \/ \E frames \in Seq(OutFrame) : Ending(frames)
  \/ Acknowledging

\* What a step does to the output is one of the kinds.
LEMMA StepKinds ==
  ASSUME TypeOK, Next
  PROVE  Kinds
<1>0. OutTypeOK /\ \A op \in OutOps : Numbered(op, 1) \in Seq(OutFrame)
  BY TypeParts, NumberedFrames
<1>1. ASSUME NEW n \in 1 .. 2, Send(n) PROVE Kinds
  <2>1. Sending("data", n)
    BY <1>1 DEF Send, AppCall, connVars, sockVars, Sending
  <2>2. QED
    BY <2>1 DEF Kinds, OutOps
<1>2. CASE Close
  <2>1. Sending("close", 1)
    BY <1>2 DEF Close, AppCall, sockVars, Sending
  <2>2. QED
    BY <2>1 DEF Kinds, OutOps
<1>3. CASE AppDrop
  <2>1. Ending(Numbered("close", 1))
    BY <1>3 DEF AppDrop, Drop, HangUp, Ending
  <2>2. QED
    BY <1>0, <2>1 DEF Kinds, OutOps
<1>4. CASE HandleKeepaliveTimer
  <2>1. Sending("ping", 1)
    BY <1>4 DEF HandleKeepaliveTimer, connVars, sockVars, Sending
  <2>2. QED
    BY <2>1 DEF Kinds, OutOps
<1>5. CASE HandleGracePeriodTimer \/ LateDrop
  <2>1. Ending(<<>>) /\ <<>> \in Seq(OutFrame)
    BY <1>5 DEF HandleGracePeriodTimer, LateDrop, Drop, HangUp, Ending
  <2>2. QED
    BY <2>1 DEF Kinds
<1>6. CASE HandleCloseTimer \/ SocketClosed \/ HandleSocketData \/ LoopEnds
  BY <1>6 DEF HandleCloseTimer, SocketClosed, HandleSocketClose, HandleSocketData,
              LoopEnds, connVars, sockVars, Quiet, Kinds
<1>7. CASE WriteAcknowledged
  BY <1>7 DEF WriteAcknowledged, connVars, sockVars, Acknowledging, Kinds
<1>8. ASSUME NEW f \in InFrame, Process(f) PROVE Kinds
  <2>1. CASE ProcessData(f) \/ ProcessPong(f)
    BY <2>1 DEF ProcessData, ProcessPong, OnlyAssembly, Parse, connVars, sockVars,
                Quiet, Kinds
  <2>2. CASE ProcessIllegal(f) \/ ProcessReserved(f)
    <3>1. Ending(Numbered("close", 1))
      BY <2>2 DEF ProcessIllegal, ProcessReserved, Drop, HangUp, Ending
    <3>2. QED
      BY <1>0, <3>1 DEF Kinds, OutOps
  <2>3. CASE ProcessPing(f)
    <3>1. Sending("pong", 1)
      BY <2>3 DEF ProcessPing, Parse, connVars, sockVars, Sending
    <3>2. QED
      BY <3>1 DEF Kinds, OutOps
  <2>4. CASE ProcessClose(f)
    <3>1. Sending("close", 1)
      BY <2>4 DEF ProcessClose, Parse, Sending
    <3>2. QED
      BY <3>1 DEF Kinds, OutOps
  <2>5. QED
    BY <1>8, <2>1, <2>2, <2>3, <2>4 DEF Process
<1>9. QED
  BY <1>1, <1>2, <1>3, <1>4, <1>5, <1>6, <1>7, <1>8 DEF Next, Application, Timers

-----------------------------------------------------------------------------
(* Timers and flags.                                                       *)

\* What an action may do to the two timers of the keepalive.
TimerKinds ==
  \/ UNCHANGED <<keepaliveTimer, graceTimer>> /\ sockDestroyed' = sockDestroyed
  \/ keepaliveTimer' = TRUE /\ graceTimer' = FALSE
  \/ keepaliveTimer' = FALSE /\ graceTimer' = TRUE
  \/ sockDestroyed' = TRUE

\* What a step does to the timers is one of the kinds.
LEMMA TimerSteps == Next => TimerKinds
<1>1. ASSUME Application PROVE TimerKinds
  BY <1>1 DEF Application, Send, Close, AppDrop, AppCall, Drop, HangUp, sockVars,
              TimerKinds
<1>2. ASSUME Timers PROVE TimerKinds
  BY <1>2 DEF Timers, HandleKeepaliveTimer, SetKeepaliveTimer,
              HandleGracePeriodTimer, HandleCloseTimer, LateDrop, Drop, HangUp,
              TimerKinds
<1>3. ASSUME WriteAcknowledged \/ SocketClosed \/ HandleSocketData \/ LoopEnds
      PROVE  TimerKinds
  BY <1>3 DEF WriteAcknowledged, SocketClosed, HandleSocketData,
              SetKeepaliveTimer, LoopEnds, timerVars, sockVars, TimerKinds
<1>4. ASSUME NEW f \in InFrame, Process(f) PROVE TimerKinds
  BY <1>4 DEF Process, ProcessData, ProcessIllegal, ProcessPing, ProcessPong,
              ProcessClose, ProcessReserved, Parse, Drop, HangUp, OnlyAssembly,
              sockVars, TimerKinds
<1>5. QED
  BY <1>1, <1>2, <1>3, <1>4 DEF Next

\* No step starts a second keepalive timer.
LEMMA TimerStep ==
  ASSUME OneKeepaliveTimer, [Next]_vars
  PROVE  OneKeepaliveTimer'
<1>1. TimerKinds
  BY TimerSteps DEF vars, timerVars, sockVars, TimerKinds
<1>2. CASE UNCHANGED <<keepaliveTimer, graceTimer>> /\ sockDestroyed' = sockDestroyed
  <2>1. keepaliveTimer' = keepaliveTimer /\ graceTimer' = graceTimer
    BY <1>2
  <2>2. QED
    BY <1>2, <2>1, Zenon DEF OneKeepaliveTimer
<1>3. CASE \/ keepaliveTimer' = TRUE /\ graceTimer' = FALSE
           \/ keepaliveTimer' = FALSE /\ graceTimer' = TRUE
  <2>1. TRUE # FALSE /\ FALSE # TRUE
    OBVIOUS
  <2>2. keepaliveTimer' # graceTimer'
    BY <1>3, <2>1
  <2>3. QED
    BY <2>2 DEF OneKeepaliveTimer
<1>4. CASE sockDestroyed' = TRUE
  BY <1>4, Zenon DEF OneKeepaliveTimer
<1>5. QED
  BY <1>1, <1>2, <1>3, <1>4 DEF TimerKinds

\* The connection's idea of its socket. An open connection on a destroyed
\* socket exists only until accept()'s timeout; the close timer, whose handler
\* ends the socket, runs only once nothing more is written.
FlagsAgree ==
  /\ connected /\ sockDestroyed => lateDrop
  /\ connected /\ ~sockDestroyed => sockWritable
  /\ closeTimer => ~connected

FlagKinds ==
  \/ connected' = FALSE
  \/ UNCHANGED <<connected, lateDrop, sockDestroyed, sockWritable, closeTimer>>
  \/ closeTimer /\ UNCHANGED <<connected, lateDrop, sockDestroyed>> /\ closeTimer' = FALSE

\* What a step does to the flags is one of the kinds.
LEMMA FlagSteps == Next => FlagKinds
<1>1. ASSUME Application PROVE FlagKinds
  BY <1>1 DEF Application, Send, Close, AppDrop, AppCall, Drop, HangUp, connVars,
              sockVars, FlagKinds
<1>2. ASSUME Timers PROVE FlagKinds
  BY <1>2 DEF Timers, HandleKeepaliveTimer, HandleGracePeriodTimer,
              HandleCloseTimer, LateDrop, Drop, HangUp, connVars, sockVars, FlagKinds
<1>3. ASSUME WriteAcknowledged \/ SocketClosed \/ HandleSocketData \/ LoopEnds
      PROVE  FlagKinds
  BY <1>3 DEF WriteAcknowledged, SocketClosed, HandleSocketClose, HandleSocketData,
              LoopEnds, connVars, timerVars, sockVars, FlagKinds
<1>4. ASSUME NEW f \in InFrame, Process(f) PROVE FlagKinds
  BY <1>4 DEF Process, ProcessData, ProcessIllegal, ProcessPing, ProcessPong,
              ProcessClose, ProcessReserved, Parse, Drop, HangUp, OnlyAssembly,
              connVars, sockVars, FlagKinds
<1>5. QED
  BY <1>1, <1>2, <1>3, <1>4 DEF Next

\* The flags agree in the initial state.
LEMMA FlagsInit == Init => FlagsAgree
<1> SUFFICES ASSUME Init PROVE FlagsAgree
  OBVIOUS
<1>1. lateDrop = sockDestroyed /\ sockWritable = ~sockDestroyed /\ closeTimer = FALSE
  BY DEF Init
<1>2. QED
  BY <1>1, Zenon DEF FlagsAgree

\* Every step leaves them in agreement.
LEMMA FlagsStep ==
  ASSUME FlagsAgree, [Next]_vars
  PROVE  FlagsAgree'
<1>1. FlagKinds
  BY FlagSteps DEF vars, connVars, timerVars, sockVars, FlagKinds
<1>2. CASE connected' = FALSE
  BY <1>2, Zenon DEF FlagsAgree
<1>3. CASE UNCHANGED <<connected, lateDrop, sockDestroyed, sockWritable, closeTimer>>
  <2>1. /\ connected' = connected /\ lateDrop' = lateDrop /\ closeTimer' = closeTimer
        /\ sockDestroyed' = sockDestroyed /\ sockWritable' = sockWritable
    BY <1>3
  <2>2. QED
    BY <2>1, Zenon DEF FlagsAgree
<1>4. CASE closeTimer /\ UNCHANGED <<connected, lateDrop, sockDestroyed>> /\ closeTimer' = FALSE
  <2>1. connected' = connected
    BY <1>4
  <2>2. ~connected'
    <3>1. ~connected
      BY <1>4, Zenon DEF FlagsAgree
    <3>2. QED
      BY <2>1, <3>1, Zenon
  <2>3. QED
    BY <2>2, <1>4, Zenon DEF FlagsAgree
<1>5. QED
  BY <1>1, <1>2, <1>3, <1>4 DEF FlagKinds

\* While the socket is alive, one of the keepalive and the grace period timer
\* is pending (setKeepaliveTimer, setGracePeriodTimer).
THEOREM SilentPeersAreNoticed == Spec => []OneKeepaliveTimer
<1>1. Init => OneKeepaliveTimer
  <2> SUFFICES ASSUME Init PROVE keepaliveTimer # graceTimer
    BY DEF OneKeepaliveTimer
  <2>1. TRUE # FALSE
    OBVIOUS
  <2>2. keepaliveTimer = TRUE /\ graceTimer = FALSE
    BY DEF Init
  <2>3. QED
    BY <2>1, <2>2
<1>2. QED
  BY <1>1, TimerStep, PTL DEF Spec

\* Only an open connection on a live socket writes.
LEMMA WritesWhileOpen ==
  ASSUME TypeOK, Next, wire' # wire
  PROVE  connected /\ ~sockDestroyed
BY StepKinds, Zenon DEF Kinds, Quiet, Sending, Ending, Acknowledging, SendFrames,
                 WriteAcknowledged, outVars

\* No write follows socket.end() or destroy() (sendFrame, drop,
\* handleCloseTimer).
THEOREM EndedSocketIsNotWritten == Spec => NeverWritesAfterEnd
<1>1. Init => FlagsAgree
  BY FlagsInit
<1>2. TypeOK /\ FlagsAgree /\ [Next]_vars => [wire' # wire => sockWritable]_vars
  <2> SUFFICES ASSUME TypeOK, FlagsAgree, Next, wire' # wire PROVE sockWritable
    BY DEF vars, outVars
  <2>1. QED
    BY WritesWhileOpen DEF FlagsAgree
<1>3. QED
  BY <1>1, <1>2, FlagsStep, ConnectionTypeCorrect, PTL DEF Spec, NeverWritesAfterEnd

-----------------------------------------------------------------------------
(* The outgoing queue.                                                     *)

\* Moving the head of s behind w changes nothing in their concatenation.
LEMMA HeadMoves ==
  ASSUME NEW S, NEW w \in Seq(S), NEW s \in Seq(S), s # <<>>
  PROVE  /\ Append(w, Head(s)) \o Tail(s) = w \o s
         /\ Append(w, Head(s)) \in Seq(S) /\ Tail(s) \in Seq(S)
<1>1. /\ Head(s) \in S /\ Tail(s) \in Seq(S)
      /\ s = <<Head(s)>> \o Tail(s)
  OBVIOUS
<1>2. Append(w, Head(s)) = w \o <<Head(s)>>
  BY <1>1
<1>3. (w \o <<Head(s)>>) \o Tail(s) = w \o (<<Head(s)>> \o Tail(s))
  BY <1>1
<1>4. QED
  BY <1>1, <1>2, <1>3

\* sendFrame on a queue that PauseIsLifted describes: nothing is lost.
LEMMA SendFramesPauses ==
  ASSUME OutTypeOK, PauseIsLifted, NEW op \in OutOps, NEW n \in 1 .. 2, Sending(op, n)
  PROVE  PauseIsLifted'
<1> DEFINE frames == Numbered(op, n)
           all == outgoing \o frames
<1>1. frames \in Seq(OutFrame) /\ Len(frames) = n /\ frames # <<>>
  BY NumberedFrames
<1>2. connected' => connected
  BY DEF Sending
<1>3. sockDestroyed' = sockDestroyed
  BY DEF Sending
<1>4. CASE /\ outputPaused \/ ~connected
           /\ UNCHANGED <<outputPaused, unacked, wire>>
  <2>1. outputPaused' = outputPaused /\ unacked' = unacked
    BY <1>4
  <2>2. ~outputPaused' => ~connected'
    <3>1. ~outputPaused => ~connected
      BY <1>4
    <3>2. QED
      BY <1>2, <2>1, <3>1, Zenon
  <2>3. outputPaused' /\ ~sockDestroyed' => unacked' > 0
    <3>1. outputPaused' /\ ~sockDestroyed' => unacked > 0
      BY <1>3, <2>1, Zenon DEF PauseIsLifted
    <3>2. QED
      BY <2>1, <3>1
  <2>4. QED
    BY <2>2, <2>3, Zenon DEF PauseIsLifted
<1>5. CASE unacked' = unacked + 1 /\ outputPaused' = TRUE
  <2>1. unacked' > 0
    BY <1>5 DEF OutTypeOK
  <2>2. QED
    BY <1>5, <2>1, Zenon DEF PauseIsLifted
<1>6. CASE /\ ~outputPaused /\ connected /\ sockDestroyed
           /\ outgoing' = SubSeq(all, Len(frames) + 1, Len(all))
           /\ UNCHANGED <<outputPaused, unacked, wire>>
  <2>1. outgoing = <<>>
    BY <1>6, Zenon DEF PauseIsLifted
  <2>2. all = frames
    BY <1>1, <2>1
  <2>3. outgoing' = <<>>
    BY <1>1, <1>6, <2>2
  <2>4. outputPaused' = outputPaused /\ ~outputPaused
    BY <1>6
  <2>5. ~outputPaused'
    BY <2>4, Zenon
  <2>6. QED
    BY <2>3, <2>5, Zenon DEF PauseIsLifted
<1>7. QED
  BY <1>1, <1>4, <1>5, <1>6 DEF Sending, SendFrames

\* Every step leaves paused output a drain to come that lifts the pause.
LEMMA PauseStep ==
  ASSUME TypeOK, PauseIsLifted, [Next]_vars
  PROVE  PauseIsLifted'
<1>0. OutTypeOK /\ (Kinds \/ Quiet)
  BY TypeParts, StepKinds DEF vars, connVars, sockVars, Quiet
<1>1. CASE Quiet
  <2>1. outputPaused' = outputPaused /\ unacked' = unacked /\ outgoing' = outgoing
    BY <1>1 DEF Quiet, outVars
  <2>2. (connected' => connected) /\ (sockDestroyed => sockDestroyed')
    <3>1. connected' => connected
      BY <1>1 DEF Quiet
    <3>2. CASE sockDestroyed' = sockDestroyed
      BY <3>1, <3>2
    <3>3. CASE sockDestroyed' = TRUE
      BY <3>1, <3>3, Zenon
    <3>4. QED
      BY <1>1, <3>2, <3>3 DEF Quiet
  <2>3. outputPaused' /\ ~sockDestroyed' => unacked > 0
    BY <2>1, <2>2, Zenon DEF PauseIsLifted
  <2>4. ~outputPaused' /\ connected' => outgoing = <<>>
    BY <2>1, <2>2, Zenon DEF PauseIsLifted
  <2>5. QED
    BY <2>1, <2>3, <2>4 DEF PauseIsLifted
<1>2. ASSUME NEW op \in OutOps, NEW n \in 1 .. 2, Sending(op, n) PROVE PauseIsLifted'
  BY <1>0, <1>2, SendFramesPauses
<1>3. ASSUME NEW frames \in Seq(OutFrame), Ending(frames) PROVE PauseIsLifted'
  <2>1. connected' = FALSE /\ sockDestroyed' = TRUE
    BY <1>3 DEF Ending
  <2>2. QED
    BY <2>1, Zenon DEF PauseIsLifted
<1>4. CASE Acknowledging
  <2>1. connected' = connected /\ sockDestroyed' = sockDestroyed
    BY <1>4 DEF Acknowledging
  <2>2. CASE /\ unacked > 1 /\ unacked' = unacked - 1
             /\ UNCHANGED <<outgoing, outputPaused, wire>>
    <3>1. unacked' > 0 /\ outputPaused' = outputPaused /\ outgoing' = outgoing
      BY <1>0, <2>2 DEF OutTypeOK
    <3>2. ~outputPaused' /\ connected' => outgoing = <<>>
      BY <2>1, <3>1, Zenon DEF PauseIsLifted
    <3>3. QED
      BY <3>1, <3>2 DEF PauseIsLifted
  <2>3. CASE unacked = 1 /\ outputPaused' = TRUE /\ UNCHANGED unacked
    <3>1. unacked' > 0
      BY <2>3
    <3>2. QED
      BY <2>3, <3>1, Zenon DEF PauseIsLifted
  <2>4. CASE /\ ~connected \/ outgoing = <<>>
             /\ outputPaused' = FALSE /\ UNCHANGED <<outgoing, wire>>
    <3>1. outgoing' = outgoing
      BY <2>4
    <3>2. connected' => outgoing' = <<>>
      BY <2>1, <2>4, <3>1, Zenon
    <3>3. QED
      BY <2>4, <3>2, Zenon DEF PauseIsLifted
  <2>5. QED
    BY <1>4, <2>2, <2>3, <2>4 DEF Acknowledging, WriteAcknowledged
<1>5. QED
  BY <1>0, <1>1, <1>2, <1>3, <1>4 DEF Kinds

\* A pause of the output is always lifted by an acknowledgement to come, and an
\* open connection that is not paused has nothing left to send.
THEOREM QueueNeverStalls == Spec => []PauseIsLifted
<1>1. Init => PauseIsLifted
  <2> SUFFICES ASSUME Init PROVE PauseIsLifted
    OBVIOUS
  <2>1. outputPaused = FALSE /\ outgoing = <<>>
    BY DEF Init
  <2>2. QED
    BY <2>1, Zenon DEF PauseIsLifted
<1>2. QED
  BY <1>1, PauseStep, ConnectionTypeCorrect, PTL DEF Spec

-----------------------------------------------------------------------------
(* The order of frames.                                                    *)

\* All frames ever sent, while none has been lost.
Sent == wire \o outgoing

\* The frames in all are the first n that were given to sendFrame.
InOrder(all, n) == Len(all) = n /\ \A i \in 1 .. Len(all) : all[i].id = i

\* The frames' order is that of what is written, followed by what is queued.
LEMMA FramesInOrderParts ==
  FramesInOrder <=> (connected /\ ~lateDrop => InOrder(Sent, sent))
  BY DEF FramesInOrder, InOrder, Sent

\* New frames at the end keep the order.
LEMMA NumberedExtends ==
  ASSUME OutTypeOK, InOrder(Sent, sent), NEW op \in OutOps, NEW n \in 1 .. 2
  PROVE  InOrder(Sent \o Numbered(op, n), sent + n)
<1> DEFINE frames == Numbered(op, n)
           all == Sent \o frames
<1>1. /\ frames \in Seq(OutFrame) /\ Len(frames) = n
      /\ \A i \in 1 .. n : frames[i].id = sent + i
  <2>1. /\ frames \in Seq(OutFrame) /\ Len(frames) = n
        /\ \A i \in 1 .. n : frames[i] = [op |-> op, id |-> sent + i]
    BY NumberedFrames
  <2>2. QED
    BY <2>1
<1>2. Sent \in Seq(OutFrame) /\ Len(Sent) = sent /\ sent \in Nat
  BY DEF InOrder, Sent, OutTypeOK
<1>3. Len(all) = sent + n
  BY <1>1, <1>2
<1>4. ASSUME NEW i \in 1 .. Len(all) PROVE all[i].id = i
  <2>1. CASE i <= sent
    BY <1>1, <1>2, <1>3, <2>1 DEF InOrder
  <2>2. CASE i > sent
    <3>1. all[i] = frames[i - sent] /\ i - sent \in 1 .. n
      BY <1>1, <1>2, <1>3, <2>2
    <3>2. frames[i - sent].id = sent + (i - sent)
      BY <1>1, <3>1
    <3>3. QED
      BY <1>2, <3>1, <3>2
  <2>3. QED
    BY <1>2, <1>3, <2>1, <2>2
<1>5. QED
  BY <1>3, <1>4 DEF InOrder

\* sendFrame on a live socket adds its frames to the end of Sent.
LEMMA SendingExtends ==
  ASSUME OutTypeOK, NEW op \in OutOps, NEW n \in 1 .. 2, Sending(op, n),
         connected, ~sockDestroyed
  PROVE  Sent' = Sent \o Numbered(op, n) /\ sent' = sent + n
<1> DEFINE frames == Numbered(op, n)
           all == outgoing \o frames
<1>1. frames \in Seq(OutFrame) /\ Len(frames) = n /\ frames # <<>>
  BY NumberedFrames
<1>2. wire \in Seq(OutFrame) /\ outgoing \in Seq(OutFrame)
  BY DEF OutTypeOK
<1>3. all \in Seq(OutFrame) /\ all # <<>>
  BY <1>1, <1>2
<1>4. wire \o all = Sent \o frames
  BY <1>1, <1>2 DEF Sent
<1>5. sent' = sent + n
  BY <1>1 DEF Sending, SendFrames
<1>6. CASE outgoing' = all /\ UNCHANGED <<outputPaused, unacked, wire>>
  BY <1>4, <1>5, <1>6 DEF Sent
<1>7. CASE outgoing' = Tail(all) /\ wire' = Append(wire, Head(all))
  <2> HIDE DEF all
  <2>1. Append(wire, Head(all)) \o Tail(all) = wire \o all
    BY <1>2, <1>3, HeadMoves
  <2>2. Sent' = wire \o all
    BY <1>7, <2>1 DEF Sent
  <2>3. QED
    BY <1>4, <1>5, <2>2
<1>8. QED
  BY <1>1, <1>6, <1>7 DEF Sending, SendFrames

\* Every step keeps the frames in order.
LEMMA OrderStep ==
  ASSUME TypeOK, FlagsAgree, FramesInOrder, [Next]_vars
  PROVE  FramesInOrder'
<1> SUFFICES ASSUME connected', ~lateDrop' PROVE InOrder(Sent, sent)'
  BY DEF FramesInOrder, InOrder, Sent
<1>0. OutTypeOK /\ (Kinds \/ Quiet)
  BY TypeParts, StepKinds DEF vars, connVars, sockVars, Quiet
<1>a. ASSUME connected, ~lateDrop PROVE InOrder(Sent, sent) /\ ~sockDestroyed
  BY <1>a, FramesInOrderParts, Zenon DEF FlagsAgree
<1>1. CASE Quiet
  <2>1. connected /\ ~lateDrop
    BY <1>1 DEF Quiet
  <2>2. Sent' = Sent /\ sent' = sent
    BY <1>1 DEF Quiet, outVars, Sent
  <2>3. QED
    BY <1>a, <2>1, <2>2 DEF InOrder
<1>2. ASSUME NEW op \in OutOps, NEW n \in 1 .. 2, Sending(op, n)
      PROVE  InOrder(Sent, sent)'
  <2>1. connected /\ ~lateDrop
    BY <1>2 DEF Sending
  <2>2. InOrder(Sent, sent) /\ ~sockDestroyed
    BY <1>a, <2>1
  <2>3. InOrder(Sent \o Numbered(op, n), sent + n)
    BY <1>0, <2>2, NumberedExtends
  <2>4. Sent' = Sent \o Numbered(op, n) /\ sent' = sent + n
    BY <1>0, <1>2, <2>1, <2>2, SendingExtends
  <2>5. QED
    BY <2>3, <2>4 DEF InOrder
<1>3. ASSUME NEW frames \in Seq(OutFrame), Ending(frames) PROVE FALSE
  BY <1>3 DEF Ending
<1>4. CASE Acknowledging
  <2>1. connected /\ ~lateDrop
    BY <1>4 DEF Acknowledging
  <2>2. sent' = sent
    BY <1>4 DEF Acknowledging, WriteAcknowledged
  <2>3. Sent' = Sent
    <3>1. CASE UNCHANGED <<outgoing, wire>>
      BY <3>1 DEF Sent
    <3>2. CASE /\ outgoing # <<>> /\ outgoing' = Tail(outgoing)
               /\ wire' = Append(wire, Head(outgoing))
      BY <1>0, <3>2, HeadMoves DEF Sent, OutTypeOK
    <3>3. QED
      BY <1>4, <3>1, <3>2 DEF Acknowledging, WriteAcknowledged
  <2>4. QED
    BY <1>a, <2>1, <2>2, <2>3 DEF InOrder
<1>5. QED
  BY <1>0, <1>1, <1>2, <1>3, <1>4 DEF Kinds

\* Frames reach the socket in the order sendFrame got them, and none is lost
\* while the connection is open.
THEOREM FramesKeepTheirOrder == Spec => []FramesInOrder
<1>1. Init => FlagsAgree
  BY FlagsInit
<1>2. Init => FramesInOrder
  BY DEF Init, FramesInOrder
<1>3. QED
  BY <1>1, <1>2, FlagsStep, OrderStep, ConnectionTypeCorrect, PTL DEF Spec

-----------------------------------------------------------------------------
(* The close frame.                                                        *)

NoClose(s) == \A i \in 1 .. Len(s) : s[i].op # "close"

\* On an open connection a close frame is neither written nor queued.
CloseInv == CloseFrameIsLast /\ (connected => NoClose(outgoing))

\* Writing one more frame f, which closes the connection if it is a close frame.
LEMMA WriteOne ==
  ASSUME OutTypeOK, CloseFrameIsLast, connected, NEW f \in OutFrame,
         wire' = Append(wire, f), f.op = "close" => ~connected'
  PROVE  CloseFrameIsLast'
<1>1. NoClose(wire)
  BY DEF CloseFrameIsLast, NoClose
<1>2. /\ Len(wire') = Len(wire) + 1 /\ wire'[Len(wire) + 1] = f /\ Len(wire) \in Nat
      /\ \A i \in 1 .. Len(wire) : wire'[i] = wire[i]
  BY DEF OutTypeOK
<1>3. QED
  BY <1>1, <1>2 DEF NoClose, CloseFrameIsLast

\* Writing nothing, on a connection that does not open again.
LEMMA WriteNone ==
  ASSUME CloseFrameIsLast, wire' = wire, connected' => connected
  PROVE  CloseFrameIsLast'
  BY DEF CloseFrameIsLast

\* Sending keeps a close frame from being followed by another frame.
LEMMA SendingCloses ==
  ASSUME OutTypeOK, CloseInv, NEW op \in OutOps, NEW n \in 1 .. 2, Sending(op, n)
  PROVE  CloseInv'
<1> DEFINE frames == Numbered(op, n)
           all == outgoing \o frames
<1>1. /\ frames \in Seq(OutFrame) /\ Len(frames) = n /\ frames # <<>>
      /\ \A i \in 1 .. n : frames[i] = [op |-> op, id |-> sent + i]
  BY NumberedFrames
<1>2. outgoing \in Seq(OutFrame) /\ Len(outgoing) \in Nat
  BY DEF OutTypeOK
<1>3. all \in Seq(OutFrame) /\ all # <<>> /\ Len(all) = Len(outgoing) + n
  BY <1>1, <1>2
<1>4. (connected' => connected) /\ (connected' => op # "close")
  <2>1. connected' => connected
    BY DEF Sending
  <2>2. connected' => op # "close"
    BY DEF Sending
  <2>3. QED
    BY <2>1, <2>2
<1>5. ASSUME connected, NEW i \in 1 .. Len(all), all[i].op = "close" PROVE op = "close"
  <2>1. CASE i <= Len(outgoing)
    BY <1>1, <1>2, <1>5, <2>1 DEF CloseInv, NoClose
  <2>2. CASE i > Len(outgoing)
    <3>1. i - Len(outgoing) \in 1 .. n /\ all[i] = frames[i - Len(outgoing)]
      BY <1>1, <1>2, <1>3, <2>2
    <3>2. QED
      BY <1>1, <1>5, <3>1
  <2>3. QED
    BY <1>2, <1>3, <2>1, <2>2
<1> HIDE DEF all, frames
<1>6. CASE outgoing' = all /\ wire' = wire
  <2>1. CloseFrameIsLast'
    BY <1>4, <1>6, WriteNone DEF CloseInv
  <2>2. connected' => NoClose(outgoing')
    BY <1>4, <1>5, <1>6 DEF NoClose
  <2>3. QED
    BY <2>1, <2>2 DEF CloseInv, NoClose
<1>7. CASE /\ connected /\ outgoing' = Tail(all) /\ wire' = Append(wire, Head(all))
  <2>1. /\ Head(all) \in OutFrame /\ Head(all) = all[1] /\ 1 \in 1 .. Len(all)
        /\ Len(Tail(all)) = Len(all) - 1
        /\ \A i \in 1 .. Len(Tail(all)) : Tail(all)[i] = all[i + 1]
    BY <1>3
  <2>2. Head(all).op = "close" => ~connected'
    BY <1>4, <1>5, <1>7, <2>1
  <2>3. CloseFrameIsLast'
    BY <1>7, <2>1, <2>2, WriteOne DEF CloseInv
  <2>4. connected' => NoClose(outgoing')
    BY <1>3, <1>4, <1>5, <1>7, <2>1 DEF NoClose
  <2>5. QED
    BY <2>3, <2>4 DEF CloseInv, NoClose
<1>8. CASE /\ outgoing' = SubSeq(all, Len(frames) + 1, Len(all)) /\ wire' = wire
  <2>1. CloseFrameIsLast'
    BY <1>4, <1>8, WriteNone DEF CloseInv
  <2>2. \A i \in 1 .. Len(outgoing') : outgoing'[i] = all[i + n] /\ i + n \in 1 .. Len(all)
    BY <1>1, <1>2, <1>3, <1>8
  <2>3. connected' => NoClose(outgoing')
    BY <1>4, <1>5, <2>2 DEF NoClose
  <2>4. QED
    BY <2>1, <2>3 DEF CloseInv, NoClose
<1>9. QED
  BY <1>1, <1>6, <1>7, <1>8 DEF Sending, SendFrames, all, frames

\* So does every step.
LEMMA CloseStep ==
  ASSUME TypeOK, CloseInv, [Next]_vars
  PROVE  CloseInv'
<1>0. OutTypeOK /\ (Kinds \/ Quiet)
  BY TypeParts, StepKinds DEF vars, connVars, sockVars, Quiet
<1>1. CASE Quiet
  <2>1. wire' = wire /\ outgoing' = outgoing /\ (connected' => connected)
    <3>1. wire' = wire /\ outgoing' = outgoing
      BY <1>1 DEF Quiet, outVars
    <3>2. connected' => connected
      BY <1>1 DEF Quiet
    <3>3. QED
      BY <3>1, <3>2
  <2>2. CloseFrameIsLast'
    BY <2>1, WriteNone DEF CloseInv
  <2>3. QED
    BY <2>1, <2>2 DEF CloseInv, NoClose
<1>2. ASSUME NEW op \in OutOps, NEW n \in 1 .. 2, Sending(op, n) PROVE CloseInv'
  BY <1>0, <1>2, SendingCloses
<1>3. ASSUME NEW frames \in Seq(OutFrame), Ending(frames) PROVE CloseInv'
  <2>1. connected' = FALSE /\ SendFrames(<<>>, frames)
    BY <1>3 DEF Ending
  <2>2. CASE wire' = wire
    BY <2>1, <2>2, WriteNone DEF CloseInv
  <2>3. CASE /\ connected /\ frames # <<>>
             /\ wire' = Append(wire, Head(<<>> \o frames))
    <3>1. Head(<<>> \o frames) \in OutFrame
      BY <2>3
    <3>2. CloseFrameIsLast'
      BY <1>0, <2>1, <2>3, <3>1, WriteOne DEF CloseInv
    <3>3. QED
      BY <2>1, <3>2 DEF CloseInv
  <2>4. QED
    BY <2>1, <2>2, <2>3 DEF SendFrames
<1>4. CASE Acknowledging
  <2>0. connected' = connected /\ outgoing \in Seq(OutFrame)
    BY <1>0, <1>4 DEF Acknowledging, OutTypeOK
  <2>1. CASE UNCHANGED <<outgoing, wire>>
    <3>1. CloseFrameIsLast'
      BY <2>0, <2>1, WriteNone DEF CloseInv
    <3>2. QED
      BY <2>0, <2>1, <3>1 DEF CloseInv, NoClose
  <2>2. CASE /\ connected /\ outgoing # <<>> /\ outgoing' = Tail(outgoing)
             /\ wire' = Append(wire, Head(outgoing))
    <3>1. /\ Head(outgoing) \in OutFrame /\ Head(outgoing) = outgoing[1]
          /\ 1 \in 1 .. Len(outgoing) /\ Len(Tail(outgoing)) = Len(outgoing) - 1
          /\ \A i \in 1 .. Len(Tail(outgoing)) : Tail(outgoing)[i] = outgoing[i + 1]
      BY <2>0, <2>2
    <3>2. Head(outgoing).op # "close"
      BY <2>2, <3>1 DEF CloseInv, NoClose
    <3>3. CloseFrameIsLast'
      BY <1>0, <2>2, <3>1, <3>2, WriteOne DEF CloseInv
    <3>4. NoClose(outgoing')
      BY <2>0, <2>2, <3>1 DEF CloseInv, NoClose
    <3>5. QED
      BY <3>3, <3>4 DEF CloseInv, NoClose
  <2>3. QED
    BY <1>4, <2>1, <2>2 DEF Acknowledging, WriteAcknowledged
<1>5. QED
  BY <1>0, <1>1, <1>2, <1>3, <1>4 DEF Kinds

\* Nothing is written after a close frame, and it is not written twice
\* (close(), drop(), and the response to the peer's close).
THEOREM NothingFollowsClose == Spec => []CloseFrameIsLast
<1>1. Init => CloseInv
  BY DEF Init, CloseInv, CloseFrameIsLast, NoClose
<1>2. CloseInv => CloseFrameIsLast
  BY DEF CloseInv
<1>3. QED
  BY <1>1, <1>2, CloseStep, ConnectionTypeCorrect, PTL DEF Spec

-----------------------------------------------------------------------------
(* Messages.                                                               *)

\* The indices m lie in p and increase.
Within(m, p) ==
  /\ m \in Seq(Nat) /\ m # <<>>
  /\ \A i \in 1 .. Len(m) : m[i] \in 1 .. Len(p)
  /\ \A i \in 2 .. Len(m) : m[i - 1] < m[i]

\* m starts with a data frame, and the fragments in p from there to last are
\* those of m. Only the last of them may be final.
Assembled(m, p, last) ==
  /\ Within(m, p)
  /\ Len(m) \in 1 .. (IF MaxMessage > 1 THEN MaxMessage ELSE 1)
  /\ p[m[1]].op = "data"
  /\ \A i \in 2 .. Len(m) : ~p[m[i - 1]].fin
  /\ \A j \in m[1] + 1 .. last :
       p[j].op = "cont" <=> \E i \in 2 .. Len(m) : m[i] = j
  /\ \A j \in m[1] + 1 .. last : p[j].op # "data"

\* A message delivered, and one that is being assembled and still lacks its
\* final fragment.
Complete(m, p) == Assembled(m, p, m[Len(m)]) /\ p[m[Len(m)]].fin
Partial(q, p)  == Assembled(q, p, Len(p)) /\ ~p[q[Len(q)]].fin

MessageInv ==
  /\ \A k \in 1 .. Len(messages) : Complete(messages[k], parsed)
  /\ frameQueue # <<>> => Partial(frameQueue, parsed)

\* A message that is assembled as MessageInv says is whole.
LEMMA MessageInvImplies == MessageInv => WholeMessages
  BY DEF MessageInv, Complete, Assembled, Within, WholeMessages

\* Facts about one more parsed frame.
LEMMA OneMore ==
  ASSUME NEW p \in Seq(InFrame), NEW f \in InFrame
  PROVE  /\ Append(p, f) \in Seq(InFrame) /\ Len(Append(p, f)) = Len(p) + 1
         /\ Len(p) \in Nat /\ Append(p, f)[Len(p) + 1] = f
         /\ \A j \in 1 .. Len(p) : Append(p, f)[j] = p[j]
  OBVIOUS

\* What has been delivered is not touched by frames parsed later.
LEMMA CompleteStays ==
  ASSUME NEW p \in Seq(InFrame), NEW f \in InFrame, NEW m, Complete(m, p)
  PROVE  Complete(m, Append(p, f))
<1> DEFINE P == Append(p, f)
<1>1. /\ Len(P) = Len(p) + 1 /\ Len(p) \in Nat
      /\ \A j \in 1 .. Len(p) : P[j] = p[j]
  BY OneMore
<1> HIDE DEF P
<1>2. /\ Within(m, p) /\ Len(m) \in Nat \ {0}
  BY DEF Complete, Assembled, Within
<1>3. Within(m, P)
  BY <1>1, <1>2 DEF Within
<1>4. \A i \in 1 .. Len(m) : P[m[i]] = p[m[i]] /\ m[i] \in Nat
  BY <1>1, <1>2 DEF Within
<1>5. ASSUME NEW j \in m[1] + 1 .. m[Len(m)] PROVE P[j] = p[j]
  <2>1. m[1] \in 1 .. Len(p) /\ m[Len(m)] \in 1 .. Len(p)
    BY <1>2 DEF Within
  <2>2. j \in 1 .. Len(p)
    BY <1>1, <2>1
  <2>3. QED
    BY <1>1, <2>2
<1>6. Assembled(m, P, m[Len(m)])
  <2>1. P[m[1]].op = "data" /\ \A i \in 2 .. Len(m) : ~P[m[i - 1]].fin
    <3>1. P[m[1]] = p[m[1]]
      BY <1>2, <1>4
    <3>2. ASSUME NEW i \in 2 .. Len(m) PROVE ~P[m[i - 1]].fin
      <4>1. i - 1 \in 1 .. Len(m)
        BY <1>2
      <4>2. P[m[i - 1]] = p[m[i - 1]]
        BY <1>4, <4>1
      <4>3. QED
        BY <4>2 DEF Complete, Assembled
    <3>3. QED
      BY <3>1, <3>2 DEF Complete, Assembled
  <2>2. QED
    BY <1>2, <1>3, <1>5, <2>1, SMTT(30) DEF Complete, Assembled
<1>7. P[m[Len(m)]].fin
  BY <1>2, <1>4 DEF Complete
<1>8. QED
  BY <1>6, <1>7 DEF Complete, P

\* A control frame does not disturb a message that is being assembled.
LEMMA PartialStays ==
  ASSUME NEW p \in Seq(InFrame), NEW f \in InFrame, f.op \notin {"data", "cont"},
         NEW q, Partial(q, p)
  PROVE  Partial(q, Append(p, f))
<1> DEFINE P == Append(p, f)
<1>1. /\ Len(P) = Len(p) + 1 /\ Len(p) \in Nat /\ P[Len(p) + 1] = f
      /\ \A j \in 1 .. Len(p) : P[j] = p[j]
  BY OneMore
<1> HIDE DEF P
<1>2. /\ Within(q, p) /\ Len(q) \in Nat \ {0}
  BY DEF Partial, Assembled, Within
<1>3. Within(q, P)
  BY <1>1, <1>2 DEF Within
<1>4. \A i \in 1 .. Len(q) : P[q[i]] = p[q[i]] /\ q[i] \in Nat /\ q[i] # Len(p) + 1
  BY <1>1, <1>2 DEF Within
<1>5. \A j \in q[1] + 1 .. Len(P) : j = Len(p) + 1 \/ (j \in q[1] + 1 .. Len(p) /\ P[j] = p[j])
  BY <1>1, <1>2 DEF Within
<1>6. Assembled(q, P, Len(P))
  <2>1. P[q[1]].op = "data" /\ \A i \in 2 .. Len(q) : ~P[q[i - 1]].fin
    <3>1. P[q[1]] = p[q[1]]
      BY <1>2, <1>4
    <3>2. ASSUME NEW i \in 2 .. Len(q) PROVE ~P[q[i - 1]].fin
      <4>1. i - 1 \in 1 .. Len(q)
        BY <1>2
      <4>2. P[q[i - 1]] = p[q[i - 1]]
        BY <1>4, <4>1
      <4>3. QED
        BY <4>2 DEF Partial, Assembled
    <3>3. QED
      BY <3>1, <3>2 DEF Partial, Assembled
  <2>2. ASSUME NEW j \in q[1] + 1 .. Len(P)
        PROVE  /\ P[j].op = "cont" <=> \E i \in 2 .. Len(q) : q[i] = j
               /\ P[j].op # "data"
    <3>1. CASE j = Len(p) + 1
      <4>1. \A i \in 2 .. Len(q) : q[i] # j
        BY <1>2, <1>4, <3>1
      <4>2. P[j].op # "cont" /\ P[j].op # "data"
        BY <1>1, <3>1
      <4>3. QED
        BY <4>1, <4>2
    <3>2. CASE j \in q[1] + 1 .. Len(p) /\ P[j] = p[j]
      BY <3>2 DEF Partial, Assembled
    <3>3. QED
      BY <1>5, <3>1, <3>2
  <2>3. QED
    BY <1>2, <1>3, <2>1, <2>2 DEF Partial, Assembled
<1>7. ~P[q[Len(q)]].fin
  BY <1>2, <1>4 DEF Partial
<1>8. QED
  BY <1>6, <1>7 DEF Partial, P

\* A data frame alone is a message, or the start of one.
LEMMA DataStarts ==
  ASSUME NEW p \in Seq(InFrame), NEW f \in InFrame, f.op = "data"
  PROVE  Assembled(<<Len(p) + 1>>, Append(p, f), Len(p) + 1)
<1>1. /\ Len(Append(p, f)) = Len(p) + 1 /\ Len(p) \in Nat
      /\ Append(p, f)[Len(p) + 1] = f
  BY OneMore
<1>2. Within(<<Len(p) + 1>>, Append(p, f))
  BY <1>1 DEF Within
<1>3. MaxMessage \in Nat
  BY WsAssumption
<1>4. QED
  BY <1>1, <1>2, <1>3 DEF Assembled

\* A continuation within maxReceivedMessageSize extends what is assembled.
LEMMA ContExtends ==
  ASSUME NEW p \in Seq(InFrame), NEW f \in InFrame, f.op = "cont",
         NEW q, Partial(q, p), Len(q) < MaxMessage
  PROVE  Assembled(Append(q, Len(p) + 1), Append(p, f), Len(p) + 1)
<1> DEFINE P == Append(p, f)
           m == Append(q, Len(p) + 1)
<1>1. /\ Len(P) = Len(p) + 1 /\ Len(p) \in Nat /\ P[Len(p) + 1] = f
      /\ \A j \in 1 .. Len(p) : P[j] = p[j]
  BY OneMore
<1>2. /\ Within(q, p) /\ Len(q) \in Nat \ {0}
  BY DEF Partial, Assembled, Within
<1>3. /\ m \in Seq(Nat) /\ Len(m) = Len(q) + 1 /\ m[Len(q) + 1] = Len(p) + 1
      /\ \A i \in 1 .. Len(q) : m[i] = q[i]
  BY <1>1, <1>2 DEF Within
<1> HIDE DEF P, m
<1>4. /\ m # <<>> /\ m[1] = q[1] /\ q[1] \in 1 .. Len(p)
  BY <1>2, <1>3 DEF Within
<1>5. Within(m, P)
  <2>1. ASSUME NEW i \in 1 .. Len(m) PROVE m[i] \in 1 .. Len(P)
    <3>1. CASE i = Len(q) + 1
      BY <1>1, <1>3, <3>1
    <3>2. CASE i # Len(q) + 1
      <4>1. i \in 1 .. Len(q)
        BY <1>2, <1>3, <3>2
      <4>2. m[i] = q[i] /\ q[i] \in 1 .. Len(p)
        BY <1>2, <1>3, <4>1 DEF Within
      <4>3. QED
        BY <1>1, <4>2
    <3>3. QED
      BY <3>1, <3>2
  <2>2. ASSUME NEW i \in 2 .. Len(m) PROVE m[i - 1] < m[i]
    <3>1. i - 1 \in 1 .. Len(q)
      BY <1>2, <1>3
    <3>2. m[i - 1] = q[i - 1] /\ q[i - 1] \in 1 .. Len(p)
      BY <1>2, <1>3, <3>1 DEF Within
    <3>3. CASE i = Len(q) + 1
      BY <1>1, <1>3, <3>2, <3>3
    <3>4. CASE i # Len(q) + 1
      <4>1. i \in 2 .. Len(q) /\ i \in 1 .. Len(q)
        BY <1>2, <1>3, <3>4
      <4>2. m[i] = q[i] /\ q[i - 1] < q[i]
        BY <1>2, <1>3, <4>1 DEF Within
      <4>3. QED
        BY <3>2, <4>2
    <3>5. QED
      BY <3>3, <3>4
  <2>3. QED
    BY <1>3, <1>4, <2>1, <2>2 DEF Within
<1>6. Len(m) \in 1 .. (IF MaxMessage > 1 THEN MaxMessage ELSE 1)
  BY <1>2, <1>3, WsAssumption
<1>7. P[m[1]].op = "data"
  BY <1>1, <1>4 DEF Partial, Assembled
<1>8. ASSUME NEW i \in 2 .. Len(m) PROVE ~P[m[i - 1]].fin
  <2>1. i - 1 \in 1 .. Len(q) /\ m[i - 1] = q[i - 1] /\ P[q[i - 1]] = p[q[i - 1]]
    <3>1. i - 1 \in 1 .. Len(q)
      BY <1>2, <1>3
    <3>2. m[i - 1] = q[i - 1] /\ q[i - 1] \in 1 .. Len(p)
      BY <1>2, <1>3, <3>1 DEF Within
    <3>3. QED
      BY <1>1, <3>1, <3>2
  <2>2. CASE i = Len(m)
    BY <1>3, <2>1, <2>2 DEF Partial
  <2>3. CASE i # Len(m)
    <3>1. i \in 2 .. Len(q)
      BY <1>2, <1>3, <2>3
    <3>2. QED
      BY <2>1, <3>1 DEF Partial, Assembled
  <2>4. QED
    BY <2>2, <2>3
<1>9. ASSUME NEW j \in m[1] + 1 .. Len(p) + 1
      PROVE  (P[j].op = "cont" <=> \E i \in 2 .. Len(m) : m[i] = j) /\ P[j].op # "data"
  <2>1. CASE j = Len(p) + 1
    BY <1>1, <1>2, <1>3, <2>1
  <2>2. CASE j # Len(p) + 1
    <3>1. j \in q[1] + 1 .. Len(p) /\ P[j] = p[j]
      BY <1>1, <1>4, <2>2
    <3>2. (\E i \in 2 .. Len(m) : m[i] = j) <=> (\E i \in 2 .. Len(q) : q[i] = j)
      <4>1. ASSUME NEW i \in 2 .. Len(m), m[i] = j PROVE i \in 2 .. Len(q) /\ q[i] = j
        <5>1. i # Len(q) + 1
          BY <1>3, <2>2, <4>1
        <5>2. i \in 2 .. Len(q) /\ i \in 1 .. Len(q)
          BY <1>2, <1>3, <5>1
        <5>3. QED
          BY <1>3, <4>1, <5>2
      <4>2. ASSUME NEW i \in 2 .. Len(q), q[i] = j PROVE i \in 2 .. Len(m) /\ m[i] = j
        <5>1. i \in 2 .. Len(m) /\ i \in 1 .. Len(q)
          BY <1>2, <1>3
        <5>2. QED
          BY <1>3, <4>2, <5>1
      <4>3. QED
        BY <4>1, <4>2
    <3>3. QED
      BY <3>1, <3>2 DEF Partial, Assembled
  <2>3. QED
    BY <2>1, <2>2
<1>10. QED
  BY <1>5, <1>6, <1>7, <1>8, <1>9 DEF Assembled, P, m

\* What a step does to the assembly: nothing but forget it, or parse one frame.
Forgotten == /\ UNCHANGED <<parsed, messages>>
             /\ frameQueue' \in {frameQueue, <<>>}
\* q is what the frame f completes or extends.
Taken(f, q) ==
  \/ f.fin /\ messages' = Append(messages, q) /\ frameQueue' = <<>>
  \/ ~f.fin /\ messages' = messages /\ frameQueue' = q
ParsedOne(f) ==
  /\ parsed' = Append(parsed, f)
  /\ \/ messages' = messages /\ frameQueue' = <<>>
     \/ messages' = messages /\ frameQueue' = frameQueue /\ f.op \notin {"data", "cont"}
     \/ f.op = "data" /\ Taken(f, <<Here>>)
     \/ /\ f.op = "cont" /\ frameQueue # <<>> /\ Len(frameQueue) < MaxMessage
        /\ Taken(f, Append(frameQueue, Here))

\* A step forgets the message in assembly or takes in at most one frame.
LEMMA AssemblyKinds ==
  ASSUME TypeOK, Next
  PROVE  Forgotten \/ \E f \in InFrame : ParsedOne(f)
<1>1. CASE Application
  BY <1>1 DEF Application, Send, Close, AppDrop, AppCall, Drop, Forgotten
<1>2. CASE Timers
  BY <1>2 DEF Timers, HandleKeepaliveTimer, HandleGracePeriodTimer,
              HandleCloseTimer, LateDrop, Drop, inVars, Forgotten
<1>3. CASE WriteAcknowledged \/ SocketClosed \/ HandleSocketData \/ LoopEnds
  BY <1>3 DEF WriteAcknowledged, SocketClosed, HandleSocketData, LoopEnds, inVars,
              Forgotten
<1>4. ASSUME NEW f \in InFrame, Process(f) PROVE ParsedOne(f)
  <2>1. CASE ProcessData(f)
    <3>1. /\ parsed' = Append(parsed, f)
          /\ \/ f.op = "data" /\ frameQueue = <<>>
             \/ f.op = "cont" /\ frameQueue # <<>> /\ Len(frameQueue) < MaxMessage
          /\ Taken(f, Append(frameQueue, Here))
      BY <2>1 DEF ProcessData, Parse, Message, NoMessage, Taken
    <3>2. frameQueue = <<>> => Append(frameQueue, Here) = <<Here>>
      OBVIOUS
    <3>3. QED
      BY <3>1, <3>2 DEF ParsedOne
  <2>2. CASE ProcessIllegal(f)
    BY <2>2 DEF ProcessIllegal, Parse, NoMessage, Drop, ParsedOne
  <2>3. CASE ProcessPing(f) \/ ProcessPong(f) \/ ProcessClose(f)
    BY <2>3 DEF ProcessPing, ProcessPong, ProcessClose, Parse, NoMessage, ParsedOne
  <2>4. CASE ProcessReserved(f)
    <3>1. CASE f.op = "data" /\ f.fin
      <4>1. Taken(f, <<Here>>) /\ parsed' = Append(parsed, f)
        BY <2>4, <3>1 DEF ProcessReserved, Parse, Message, Taken
      <4>2. QED
        BY <3>1, <4>1 DEF ParsedOne
    <3>2. CASE f.op = "data" /\ ~f.fin
      <4>1. Taken(f, <<Here>>) /\ parsed' = Append(parsed, f)
        BY <2>4, <3>2 DEF ProcessReserved, Parse, NoMessage, Taken
      <4>2. QED
        BY <3>2, <4>1 DEF ParsedOne
    <3>3. CASE f.op # "data"
      BY <2>4, <3>3 DEF ProcessReserved, Parse, NoMessage, ParsedOne
    <3>4. QED
      BY <3>1, <3>2, <3>3
  <2>5. QED
    BY <1>4, <2>1, <2>2, <2>3, <2>4 DEF Process
<1>5. QED
  BY <1>1, <1>2, <1>3, <1>4 DEF Next

\* A frame that completes or extends q.
LEMMA TakenKeeps ==
  ASSUME InTypeOK, MessageInv, NEW f \in InFrame, parsed' = Append(parsed, f),
         NEW q, Assembled(q, parsed', Here), q[Len(q)] = Here, Taken(f, q)
  PROVE  MessageInv'
<1>1. /\ Len(parsed') = Here /\ parsed'[Here] = f
  BY OneMore DEF Here, InTypeOK
<1>2. \A k \in 1 .. Len(messages) : Complete(messages[k], parsed')
  BY CompleteStays DEF MessageInv, InTypeOK
<1>3. CASE f.fin /\ messages' = Append(messages, q) /\ frameQueue' = <<>>
  <2>1. Complete(q, parsed')
    BY <1>1, <1>3 DEF Complete
  <2>2. /\ Len(messages') = Len(messages) + 1 /\ Len(messages) \in Nat
        /\ messages'[Len(messages) + 1] = q
        /\ \A k \in 1 .. Len(messages) : messages'[k] = messages[k]
    BY <1>3 DEF InTypeOK
  <2>3. \A k \in 1 .. Len(messages') : Complete(messages'[k], parsed')
    BY <1>2, <2>1, <2>2
  <2>4. QED
    BY <1>3, <2>3 DEF MessageInv, Complete, Partial, Assembled, Within
<1>4. CASE ~f.fin /\ messages' = messages /\ frameQueue' = q
  <2>1. Partial(q, parsed')
    BY <1>1, <1>4 DEF Partial
  <2>2. \A k \in 1 .. Len(messages') : Complete(messages'[k], parsed')
    BY <1>2, <1>4
  <2>3. Partial(frameQueue', parsed')
    BY <1>4, <2>1
  <2>4. QED
    BY <2>2, <2>3 DEF MessageInv
<1>5. QED
  BY <1>3, <1>4 DEF Taken

\* Every step keeps the assembly.
LEMMA MessageStep ==
  ASSUME TypeOK, MessageInv, [Next]_vars
  PROVE  MessageInv'
<1>0. InTypeOK /\ (Forgotten \/ \E f \in InFrame : ParsedOne(f))
  BY TypeParts, AssemblyKinds DEF vars, inVars, Forgotten
<1>1. CASE Forgotten
  BY <1>1 DEF Forgotten, MessageInv, Complete, Partial, Assembled, Within
<1>2. ASSUME NEW f \in InFrame, ParsedOne(f) PROVE MessageInv'
  <2>0. /\ parsed' = Append(parsed, f) /\ parsed \in Seq(InFrame)
        /\ Here = Len(parsed) + 1 /\ Here \in Nat
    BY <1>0, <1>2 DEF ParsedOne, InTypeOK, Here
  <2>1. \A k \in 1 .. Len(messages) : Complete(messages[k], parsed')
    BY <2>0, CompleteStays DEF MessageInv
  <2>2. CASE messages' = messages /\ frameQueue' = <<>>
    BY <2>1, <2>2 DEF MessageInv, Complete, Partial, Assembled, Within
  <2>3. CASE /\ messages' = messages /\ frameQueue' = frameQueue
             /\ f.op \notin {"data", "cont"}
    <3>1. frameQueue # <<>> => Partial(frameQueue, parsed')
      BY <2>0, <2>3, PartialStays DEF MessageInv
    <3>2. QED
      BY <2>1, <2>3, <3>1 DEF MessageInv, Complete, Partial, Assembled, Within
  <2>4. CASE f.op = "data" /\ Taken(f, <<Here>>)
    <3>1. Assembled(<<Here>>, parsed', Here)
      BY <2>0, <2>4, DataStarts
    <3>2. <<Here>>[Len(<<Here>>)] = Here
      OBVIOUS
    <3>3. QED
      BY <1>0, <2>0, <2>4, <3>1, <3>2, TakenKeeps
  <2>5. CASE /\ f.op = "cont" /\ frameQueue # <<>> /\ Len(frameQueue) < MaxMessage
             /\ Taken(f, Append(frameQueue, Here))
    <3>1. Partial(frameQueue, parsed)
      BY <2>5 DEF MessageInv
    <3>2. Assembled(Append(frameQueue, Here), parsed', Here)
      BY <2>0, <2>5, <3>1, ContExtends
    <3>3. Append(frameQueue, Here)[Len(Append(frameQueue, Here))] = Here
      BY <1>0, <2>0 DEF InTypeOK
    <3>4. QED
      BY <1>0, <2>0, <2>5, <3>2, <3>3, TakenKeeps
  <2>6. QED
    BY <1>2, <2>2, <2>3, <2>4, <2>5 DEF ParsedOne
<1>3. QED
  BY <1>0, <1>1, <1>2

\* Every message delivered is the fragments of one message, complete and in
\* order, with only control frames between them (processFrame).
THEOREM MessagesAreWhole == Spec => []WholeMessages
<1>1. Init => MessageInv
  BY DEF Init, MessageInv
<1>2. QED
  BY <1>1, MessageStep, MessageInvImplies, ConnectionTypeCorrect, PTL DEF Spec
=============================================================================
