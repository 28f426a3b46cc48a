------------------------------ MODULE MCInbox ------------------------------
\* Inbox for TLC: the conversations can be exchanged.
EXTENDS Inbox, TLC

Symmetry == Permutations(Topics)
=============================================================================
