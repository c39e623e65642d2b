---------------------------- MODULE WriteChannel ----------------------------
(***************************************************************************)
(* What net.js relies on when it hands a write to its _handle: the writes  *)
(* of one socket are acknowledged (afterWrite runs) one by one, in the     *)
(* order they were issued, each exactly once, until the socket is          *)
(* destroyed; and as long as the process lives, every outstanding write is *)
(* eventually acknowledged or its socket destroyed.                        *)
(***************************************************************************)
EXTENDS Sequences, Naturals

CONSTANTS
  Sockets,
  Writes    \* the identities of write requests

VARIABLES
  outstanding,  \* per socket, the writes issued and not acknowledged
  open,         \* per socket, whether it has not been destroyed
  down          \* the process has died

channelVars == <<outstanding, open, down>>

Init ==
  /\ outstanding = [s \in Sockets |-> <<>>]
  /\ open = [s \in Sockets |-> TRUE]
  /\ down = FALSE

Issue(s) ==
  /\ open[s]
  /\ \E r \in Writes : outstanding' = [outstanding EXCEPT ![s] = Append(@, r)]
  /\ UNCHANGED <<open, down>>

Acknowledge(s) ==
  /\ ~down
  /\ open[s]
  /\ outstanding[s] # <<>>
  /\ outstanding' = [outstanding EXCEPT ![s] = Tail(@)]
  /\ UNCHANGED <<open, down>>

\* The 'drain' handler of the last acknowledgement writes again.
AcknowledgeAndIssue(s) ==
  /\ ~down
  /\ open[s]
  /\ Len(outstanding[s]) = 1
  /\ \E r \in Writes : outstanding' = [outstanding EXCEPT ![s] = <<r>>]
  /\ UNCHANGED <<open, down>>

Close(s) ==
  /\ open[s]
  /\ open' = [open EXCEPT ![s] = FALSE]
  /\ outstanding' = [outstanding EXCEPT ![s] = <<>>]
  /\ UNCHANGED down

Crash ==
  /\ down' = TRUE
  /\ UNCHANGED <<outstanding, open>>

Next ==
  \/ \E s \in Sockets : \/ Issue(s)
                        \/ Acknowledge(s)
                        \/ AcknowledgeAndIssue(s)
                        \/ Close(s)
  \/ Crash

Progress(s) == Acknowledge(s) \/ AcknowledgeAndIssue(s) \/ Close(s)

Safety == Init /\ [][Next]_channelVars

Spec ==
  /\ Safety
  /\ \A s \in Sockets : WF_channelVars(~down /\ outstanding[s] # <<>> /\ Progress(s))
=============================================================================
