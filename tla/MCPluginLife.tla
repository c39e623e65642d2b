---------------------------- MODULE MCPluginLife ----------------------------
(* Tables of an instance of PluginLife for TLC. *)
EXTENDS PluginLife, TLC

\* Handlers are interchangeable.
HandlerSymmetry == Permutations(Values)

\* A browser of its time, an older one whose table ends earlier, a newer one.
SomeTables ==
  {[functions |-> Copied \cup NotCopied, compatible |-> TRUE],
   [functions |-> Copied \ {"pluginthreadasynccall"}, compatible |-> TRUE],
   [functions |-> Copied \cup NotCopied, compatible |-> FALSE]}
=============================================================================
