------------------------------ MODULE MCParts ------------------------------
(* The parts of the bridge that share no state, for TLC.                     *)
EXTENDS Parts, TLC

\* Conversations, roots and commands, messages of an album can be exchanged.
Symmetry == Permutations(Conversations) \cup Permutations(Triple)
=============================================================================
