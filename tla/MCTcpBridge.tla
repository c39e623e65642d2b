---------------------------- MODULE MCTcpBridge ----------------------------
(* Instances of TcpBridge for TLC. *)
EXTENDS TcpBridge, TLC

\* The sockets are interchangeable: used by the safety run only.
HandleSymmetry == Permutations(Handles)
=============================================================================
