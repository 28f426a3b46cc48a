------------------------------ MODULE MCOutbox ------------------------------
(* A small instance of Outbox: the rows that producers append, plus one     *)
(* failure notice for each attachment among them.                          *)
EXTENDS Outbox, TLC

Symmetric == Permutations(Workers) \cup Permutations(Topics)
=============================================================================
