------------------------------ MODULE MCProcess ------------------------------
(* A small instance of ProcessManager. *)
EXTENDS ProcessManager, TLC

Symmetry == Permutations(Pids) \cup Permutations(Commands)
=============================================================================
