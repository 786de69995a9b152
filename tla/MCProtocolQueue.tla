---------------------------- MODULE MCProtocolQueue ----------------------------
(* Values for the constants of ProtocolQueue, for model checking.          *)
EXTENDS ProtocolQueue, TLC

(* Workers, and messages, only differ by name.                             *)
Symmetry == Permutations(Workers) \cup Permutations(Messages)

=============================================================================
